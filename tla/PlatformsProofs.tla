--------------------------- MODULE PlatformsProofs ---------------------------
(***************************************************************************)
(* What a caller is told of a post, and what the tables say of it, for any *)
(* number of calls, posts and tokens.                                      *)
(***************************************************************************)
EXTENDS Platforms, TLAPS

(* The steps of a call that has put a post on its platform. *)
Held == {"comment", "record", "poll", "status"}

(* A call holds a post just in these steps.  Its post is on its platform,  *)
(* unanswered; on Facebook it is out unless it is a draft; and when TikTok *)
(* is asked for the status, the row is there.                              *)
GoodCall(k, posts) ==
  /\ k.step \in Held <=> k.post # Null
  /\ k.post # Null =>
       /\ k.post \in Posts /\ k.platform \in Platforms
       /\ posts[k.post].platform = k.platform
       /\ posts[k.post].answer = "none"
       /\ posts[k.post].remote # "none"
       /\ k.platform = "facebook" =>
            /\ posts[k.post].remote \in {"draft", "live"}
            /\ ~k.draft => posts[k.post].remote = "live"
       /\ k.step \in {"poll", "status"} => k.platform = "tiktok" /\ posts[k.post].row # "none"

(* The answer and the row are true of the post. *)
GoodPost(x, posts, broken) ==
  /\ posts[x].answer = "ok" => posts[x].remote \in {"live", "draft"} \/ x \in broken
  /\ posts[x].row = "published" => posts[x].remote = "live"

OnRecord(x, posts, broken) ==
  posts[x].platform \in {"facebook", "tiktok"} => posts[x].row # "none" \/ x \in broken

CallTypes ==
  /\ account \in [Platforms -> BOOLEAN]
  /\ stored \in [Platforms -> Tokens]
  /\ granted \in [Platforms -> Tokens]
  /\ post \in [Posts -> Post]
  /\ call \in [Clients -> Call]
  /\ excused \subseteq Posts

(* The tries are counted up to their bound, and a token is one of an       *)
(* account that is there.                                                  *)
Sane(k, accounts) == k.count \in 0 .. MaxTries /\ (k.token # 0 => accounts[k.platform])

CallsInv ==
  /\ CallTypes
  /\ \A c \in Clients : GoodCall(call[c], post) /\ Sane(call[c], account)
  /\ \A c, d \in Clients : c # d /\ call[c].post = call[d].post => call[c].post = Null
  /\ \A x \in Posts : GoodPost(x, post, excused) /\ (OnRecord(x, post, excused) \/ \E c \in Clients : call[c].post = x)

-----------------------------------------------------------------------------
LEMMA CallsInvGives ==
  CallsInv => PlatformTypeOK /\ OkMeansPublished /\ RowIsNotAhead /\ Recorded
<1> SUFFICES ASSUME CallsInv PROVE PlatformTypeOK /\ OkMeansPublished /\ RowIsNotAhead /\ Recorded
  OBVIOUS
<1>1. \A c \in Clients :
        /\ call[c].step \in {"comment", "record", "poll", "status"} =>
             /\ call[c].post \in Posts
             /\ post[call[c].post].platform = call[c].platform
             /\ post[call[c].post].answer = "none"
        /\ call[c].count \in 0 .. MaxTries
        /\ call[c].token # 0 => account[call[c].platform]
  BY DEF CallsInv, GoodCall, Sane, Held
<1>2. PlatformTypeOK
  BY <1>1 DEF CallsInv, CallTypes, PlatformTypeOK
<1>3. OkMeansPublished /\ RowIsNotAhead
  BY DEF CallsInv, GoodPost, OkMeansPublished, RowIsNotAhead
<1>4. Recorded
  BY DEF CallsInv, OnRecord, Recorded
<1> QED
  BY <1>2, <1>3, <1>4

LEMMA CallsInitSound == CallsInit => CallsInv
<1> SUFFICES ASSUME CallsInit PROVE CallsInv
  OBVIOUS
<1>1. NoCall \in Call /\ NoPost \in Post
  BY CallsAssumption DEF NoCall, Call, Steps, Kinds, Tokens, NoPost, Post, Remote
<1>2. account \in [Platforms -> BOOLEAN] /\ stored \in [Platforms -> Tokens]
  BY CallsAssumption DEF CallsInit, Tokens
<1>3. CallTypes
  BY <1>1, <1>2 DEF CallsInit, CallTypes
<1>4. \A c \in Clients : GoodCall(call[c], post) /\ Sane(call[c], account)
  BY MaxTriesAssumption DEF CallsInit, NoCall, GoodCall, Sane, Held
<1>5. \A c \in Clients : call[c].post = Null
  BY DEF CallsInit, NoCall
<1>6. \A x \in Posts : GoodPost(x, post, excused) /\ OnRecord(x, post, excused)
  BY CallsAssumption DEF CallsInit, NoPost, GoodPost, OnRecord, Platforms
<1> QED
  BY <1>3, <1>4, <1>5, <1>6 DEF CallsInv

(* A client's call goes from what it was to k: it keeps its post, lets go  *)
(* of it, or takes one that nobody had.                                    *)
LEMMA CallGoesOn ==
  ASSUME CallsInv, NEW c \in Clients, NEW k \in Call,
         call' = [call EXCEPT ![c] = k],
         account' = account, stored' \in [Platforms -> Tokens], granted' \in [Platforms -> Tokens],
         post' \in [Posts -> Post], excused \subseteq excused', excused' \subseteq Posts,
         GoodCall(k, post'), Sane(k, account),
         \A x \in Posts \ {k.post, call[c].post} : post'[x] = post[x],
         k.post \in {Null, call[c].post} \/ (call[c].post = Null /\ post[k.post] = NoPost),
         \A x \in Posts \cap {k.post, call[c].post} : GoodPost(x, post', excused'),
         call[c].post \in Posts \ {k.post} => OnRecord(call[c].post, post', excused')
  PROVE  CallsInv'
<1>1. \A d \in Clients : call'[d] = IF d = c THEN k ELSE call[d]
  BY DEF CallsInv, CallTypes
<1>2. CallTypes'
  BY DEF CallsInv, CallTypes
<1>3. ASSUME NEW d \in Clients \ {c}, call[d].post # Null
      PROVE  call[d].post \in Posts \ {k.post, call[c].post}
  <2>1. call[d].post \in Posts /\ post[call[d].post].remote # "none" /\ call[d].post # call[c].post
    BY <1>3 DEF CallsInv, GoodCall
  <2> QED
    BY <1>3, <2>1 DEF NoPost
<1>4. ASSUME NEW d \in Clients PROVE GoodCall(call'[d], post') /\ Sane(call'[d], account')
  <2>1. CASE d = c
    BY <1>1, <2>1 DEF Sane
  <2>2. CASE d # c
    <3>1. GoodCall(call[d], post) /\ Sane(call[d], account) /\ call'[d] = call[d]
      BY <1>1, <2>2 DEF CallsInv
    <3>2. call[d].post # Null => post'[call[d].post] = post[call[d].post]
      BY <1>3, <2>2
    <3> QED
      BY <3>1, <3>2 DEF GoodCall, Sane
  <2> QED
    BY <2>1, <2>2
<1>5. \A d, e \in Clients : d # e /\ call'[d].post = call'[e].post => call'[d].post = Null
  BY <1>1, <1>3 DEF CallsInv
<1>6. ASSUME NEW x \in Posts
      PROVE  GoodPost(x, post', excused') /\ (OnRecord(x, post', excused') \/ \E d \in Clients : call'[d].post = x)
  <2>1. CASE x = k.post
    BY <1>1, <2>1
  <2>2. CASE x # k.post /\ x = call[c].post
    BY <2>2
  <2>3. CASE x \notin {k.post, call[c].post}
    <3>1. GoodPost(x, post', excused')
      BY <2>3 DEF CallsInv, GoodPost
    <3>2. OnRecord(x, post, excused) => OnRecord(x, post', excused')
      BY <2>3 DEF OnRecord
    <3>3. \A d \in Clients : call[d].post = x => call'[d].post = x
      BY <1>1, <2>3
    <3> QED
      BY <3>1, <3>2, <3>3 DEF CallsInv
  <2> QED
    BY <2>1, <2>2, <2>3
<1> QED
  BY <1>2, <1>4, <1>5, <1>6 DEF CallsInv

-----------------------------------------------------------------------------
(* The ways a call goes on. *)

LEMMA IdleCall == NoCall \in Call /\ NoCall.step \notin Held /\ NoCall.post = Null /\ Sane(NoCall, account)
  BY CallsAssumption, MaxTriesAssumption DEF NoCall, Call, Steps, Kinds, Tokens, Held, Sane

LEMMA OpensHolds ==
  ASSUME CallsInv, NEW c \in Clients, NEW p \in Platforms, NEW fields \in Call,
         fields.post = Null, fields.step \notin Held, fields.count = 0, Opens(c, p, fields)
  PROVE  CallsInv'
<1> PICK k : k = [fields EXCEPT !.platform = p, !.token = stored[p]]
  OBVIOUS
<1>1. /\ call' = [call EXCEPT ![c] = k]
      /\ UNCHANGED <<account, stored, granted, post, excused>>
      /\ account[p] /\ call[c].step = "idle"
  BY DEF Opens
<1>2. k \in Call /\ k.post = Null /\ k.step \notin Held
  BY DEF Call, CallsInv, CallTypes
<1>3. Sane(k, account) /\ GoodCall(k, post')
  BY <1>1, <1>2, MaxTriesAssumption DEF Sane, GoodCall, Call
<1>4. call[c].post = Null
  BY <1>1 DEF CallsInv, GoodCall, Held
<1>5. /\ stored' \in [Platforms -> Tokens]
      /\ granted' \in [Platforms -> Tokens]
      /\ account' = account
      /\ post' \in [Posts -> Post] /\ excused' = excused /\ excused \subseteq Posts /\ post' = post
  BY <1>1 DEF CallsInv, CallTypes
<1> QED
  BY <1>1, <1>2, <1>3, <1>4, <1>5, CallGoesOn, CallsAssumption

(* A call without a post goes on without one; tokens may be issued. *)
LEMMA MovesHolds ==
  ASSUME CallsInv, NEW c \in Clients, call[c].step \notin Held, NEW step \in Steps \ Held,
         NEW token \in Tokens, token # 0 => account[call[c].platform],
         call' = [call EXCEPT ![c].step = step, ![c].token = token],
         granted' \in [Platforms -> Tokens], UNCHANGED <<account, stored, post, excused>>
  PROVE  CallsInv'
<1> PICK k : k = [call[c] EXCEPT !.step = step, !.token = token]
  OBVIOUS
<1>1. call[c] \in Call /\ Sane(call[c], account) /\ call[c].post = Null
  BY DEF CallsInv, CallTypes, GoodCall
<1>2. call' = [call EXCEPT ![c] = k]
  BY DEF CallsInv, CallTypes
<1>3. k \in Call /\ k.post = Null /\ k.step \notin Held
  BY <1>1 DEF Call
<1>4. Sane(k, account) /\ GoodCall(k, post')
  BY <1>1, <1>3 DEF Sane, GoodCall, Call
<1>5. /\ stored' \in [Platforms -> Tokens]
      /\ granted' \in [Platforms -> Tokens]
      /\ account' = account
      /\ post' \in [Posts -> Post] /\ excused' = excused /\ excused \subseteq Posts /\ post' = post
  BY <1>1 DEF CallsInv, CallTypes
<1>6. /\ \A x \in Posts \ {k.post, call[c].post} : post'[x] = post[x]
      /\ \A x \in Posts \cap {k.post, call[c].post} : GoodPost(x, post', excused')
      /\ call[c].post \notin Posts \ {k.post}
      /\ k.post \in {Null, call[c].post}
  BY <1>1, <1>3, <1>5, CallsAssumption
<1>7. excused \subseteq excused' /\ excused' \subseteq Posts
  BY <1>5
<1> QED
  BY ONLY <1>2, <1>3, <1>4, <1>5, <1>6, <1>7, CallGoesOn, CallsInv, c \in Clients

LEMMA MovesOn ==
  ASSUME CallsInv, NEW c \in Clients, call[c].step \notin Held, NEW step \in Steps \ Held,
         Moves(c, step)
  PROVE  CallsInv'
<1> PICK token : token = call[c].token
  OBVIOUS
<1>1. call[c] \in Call /\ Sane(call[c], account)
  BY DEF CallsInv, CallTypes
<1>2. token \in Tokens /\ (token # 0 => account[call[c].platform])
  BY <1>1 DEF Call, Sane
<1>3. call' = [call EXCEPT ![c].step = step, ![c].token = token]
  <2>1. [call[c] EXCEPT !.step = step] = [call[c] EXCEPT !.step = step, !.token = token]
    BY <1>1 DEF Call
  <2> QED
    BY <2>1 DEF Moves, CallsInv, CallTypes
<1>4. granted' \in [Platforms -> Tokens] /\ UNCHANGED <<account, stored, post, excused>>
  BY DEF Moves, CallsInv, CallTypes
<1> QED
  BY <1>2, <1>3, <1>4, MovesHolds

LEMMA PublishHolds ==
  ASSUME CallsInv, NEW c \in Clients, NEW x \in Posts, NEW remote \in {"live", "draft", "processing"},
         NEW step \in {"comment", "record"}, call[c].step \notin Held,
         call[c].platform \in Platforms,
         call[c].platform = "facebook" => remote = IF call[c].draft THEN "draft" ELSE "live",
         Publishes(c, x, remote, step)
  PROVE  CallsInv'
<1> PICK k : k = [call[c] EXCEPT !.step = step, !.post = x]
  OBVIOUS
<1> PICK r : r = [NoPost EXCEPT !.platform = call[c].platform, !.remote = remote]
  OBVIOUS
<1>1. call[c] \in Call /\ Sane(call[c], account) /\ call[c].post = Null
  BY DEF CallsInv, CallTypes, GoodCall
<1>2. /\ call' = [call EXCEPT ![c] = k]
      /\ post[x] = NoPost
      /\ UNCHANGED <<account, stored, granted, excused>>
  BY DEF Publishes, CallsInv, CallTypes
<1>3. post' = [post EXCEPT ![x] = r]
  BY <1>2 DEF Publishes, CallsInv, CallTypes
<1>4. r \in Post /\ r.answer = "none" /\ r.row = "none" /\ r.remote = remote /\ r.platform = call[c].platform
  BY DEF NoPost, Post, Remote
<1>5. /\ k \in Call /\ k.post = x /\ k.step = step /\ k.draft = call[c].draft
      /\ k.platform = call[c].platform /\ k.count = call[c].count /\ k.token = call[c].token
  BY <1>1 DEF Call, Steps
<1>6. Sane(k, account)
  BY <1>1, <1>5 DEF Sane
<1>7. post' \in [Posts -> Post] /\ post'[x] = r /\ \A y \in Posts \ {x} : post'[y] = post[y]
  BY <1>3, <1>4 DEF CallsInv, CallTypes
<1>8. GoodCall(k, post')
  BY <1>4, <1>5, <1>7, CallsAssumption DEF GoodCall, Held
<1>9. GoodPost(x, post', excused')
  BY <1>4, <1>7 DEF GoodPost
<1>10. /\ stored' \in [Platforms -> Tokens]
       /\ granted' \in [Platforms -> Tokens]
       /\ account' = account
       /\ excused' = excused /\ excused \subseteq Posts
  BY <1>2 DEF CallsInv, CallTypes
<1>11. /\ \A y \in Posts \ {k.post, call[c].post} : post'[y] = post[y]
       /\ \A y \in Posts \cap {k.post, call[c].post} : GoodPost(y, post', excused')
       /\ call[c].post \notin Posts \ {k.post}
       /\ call[c].post = Null /\ post[k.post] = NoPost
  BY <1>1, <1>2, <1>5, <1>7, <1>9, CallsAssumption
<1> QED
  BY <1>2, <1>5, <1>6, <1>7, <1>8, <1>10, <1>11, CallGoesOn

(* The call ends, and its caller is answered. *)
LEMMA EndHolds ==
  ASSUME CallsInv, NEW c \in Clients, NEW answer \in {"ok", "failed"},
         call' = [call EXCEPT ![c] = NoCall], post' = Answered(c, answer),
         UNCHANGED <<account, stored, granted>>, excused \subseteq excused', excused' \subseteq Posts,
         NEW before, before = call[c].post,
         before \in Posts =>
           \/ before \in excused'
           \/ /\ answer = "ok" => post[before].remote \in {"live", "draft"}
              /\ OnRecord(before, post, excused)
  PROVE  CallsInv'
<1>1. post \in [Posts -> Post]
  BY DEF CallsInv, CallTypes
<1>2. post' = [x \in Posts |-> IF x = before THEN [post[x] EXCEPT !.answer = answer] ELSE post[x]]
  BY DEF Answered
<1>3. \A x \in Posts \ {before} : post'[x] = post[x]
  BY <1>2
<1>4. post' \in [Posts -> Post]
  BY <1>1, <1>2 DEF Post
<1>5. ASSUME before \in Posts PROVE GoodPost(before, post', excused') /\ OnRecord(before, post', excused')
  <2>1. /\ post'[before].answer = answer /\ post'[before].remote = post[before].remote
        /\ post'[before].row = post[before].row /\ post'[before].platform = post[before].platform
    BY <1>1, <1>2, <1>5 DEF Post
  <2>2. GoodPost(before, post, excused)
    BY <1>5 DEF CallsInv
  <2> QED
    BY <1>5, <2>1, <2>2 DEF GoodPost, OnRecord
<1>6. GoodCall(NoCall, post')
  BY IdleCall DEF GoodCall
<1>7. Null \notin Posts
  BY CallsAssumption
<1>8. /\ stored' \in [Platforms -> Tokens]
      /\ granted' \in [Platforms -> Tokens]
      /\ account' = account
  BY DEF CallsInv, CallTypes
<1> QED
  BY <1>3, <1>4, <1>5, <1>6, <1>7, <1>8, IdleCall, CallGoesOn

-----------------------------------------------------------------------------
(* What is asked of the services opens a call, or fails at once. *)

OpensSome(c) ==
  \E p \in Platforms, fields \in Call :
    /\ fields.post = Null /\ fields.step \notin Held /\ fields.count = 0
    /\ Opens(c, p, fields)

LEMMA ReadsOpens ==
  ASSUME NEW c, NEW p \in Platforms, NEW step \in Steps \ Held,
         Opens(c, p, [NoCall EXCEPT !.step = step])
  PROVE  OpensSome(c)
<1>1. [NoCall EXCEPT !.step = step] \in Call
  BY IdleCall DEF NoCall, Call
<1>2. LET f == [NoCall EXCEPT !.step = step] IN f.post = Null /\ f.step \notin Held /\ f.count = 0
  BY DEF NoCall
<1> QED
  BY <1>1, <1>2 DEF OpensSome

LEMMA PostOpens ==
  ASSUME NEW c, NEW p \in Platforms, NEW kind \in Kinds, NEW step \in Steps \ Held,
         Opens(c, p, [NoCall EXCEPT !.kind = kind, !.step = step])
  PROVE  OpensSome(c)
<1>1. [NoCall EXCEPT !.kind = kind, !.step = step] \in Call
  BY IdleCall DEF NoCall, Call
<1>2. LET f == [NoCall EXCEPT !.kind = kind, !.step = step] IN
        f.post = Null /\ f.step \notin Held /\ f.count = 0
  BY DEF NoCall
<1> QED
  BY <1>1, <1>2 DEF OpensSome

LEMMA PagePostOpens ==
  ASSUME NEW c, NEW kind \in FacebookKinds, NEW draft \in BOOLEAN, CreatePagePost(c, kind, draft)
  PROVE  OpensSome(c)
<1> PICK step \in Steps \ Held :
      step = IF kind \in {"photos", "videos", "mixed"} THEN "store" ELSE "publish"
  BY DEF Steps, Held
<1>1. Opens(c, "facebook", [NoCall EXCEPT !.kind = kind, !.draft = draft, !.step = step])
  BY DEF CreatePagePost
<1>2. [NoCall EXCEPT !.kind = kind, !.draft = draft, !.step = step] \in Call
  BY IdleCall DEF NoCall, Call, FacebookKinds, Kinds
<1>3. LET f == [NoCall EXCEPT !.kind = kind, !.draft = draft, !.step = step] IN
        f.post = Null /\ f.step \notin Held /\ f.count = 0
  BY DEF NoCall
<1> QED
  BY <1>1, <1>2, <1>3 DEF OpensSome, Platforms

LEMMA AskOpens ==
  ASSUME NEW c \in Clients, PlatformAsks(c)
  PROVE  OpensSome(c) \/ UNCHANGED platformVars
<1>1. {"read", "revoke", "store", "attach"} \subseteq Steps \ Held
      /\ {"facebook", "instagram", "linkedin", "tiktok"} = Platforms
      /\ {"one", "many", "text", "photo", "video", "story"} \subseteq Kinds
  BY DEF Steps, Held, Platforms, Kinds
<1>2. ASSUME NEW p \in Platforms, Reads(c, p) \/ RevokeAccess(c, p) PROVE OpensSome(c)
  BY <1>1, <1>2, ReadsOpens DEF Reads, RevokeAccess
<1>3. ASSUME NEW p \in Platforms, Throws(c, p) PROVE UNCHANGED platformVars
  BY <1>3 DEF Throws
<1>4. CASE FacebookAsks(c)
  <2>1. ASSUME NEW kind \in FacebookKinds, CreatePagePost(c, kind, FALSE) \/ SchedulePagePost(c, kind)
        PROVE  OpensSome(c)
    BY <2>1, PagePostOpens DEF SchedulePagePost
  <2>2. CASE \/ GetComments(c) \/ GetUserAccounts(c) \/ GetPagePosts(c) \/ GetPageInsights(c)
             \/ GetPageMetrics(c)
    BY <1>1, <1>2, <2>2 DEF GetComments, GetUserAccounts, GetPagePosts, GetPageInsights, GetPageMetrics
  <2>3. CASE \/ CollectPageMetrics(c) \/ GetPostMetrics(c) \/ SinglePhotoOrVideoFromFile(c)
             \/ \E x \in Posts : EditPost(c, x) \/ DeletePost(c, x)
    BY <1>1, <1>3, <2>3
    DEF CollectPageMetrics, GetPostMetrics, SinglePhotoOrVideoFromFile, EditPost, DeletePost
  <2> QED
    BY <1>4, <2>1, <2>2, <2>3 DEF FacebookAsks
<1>5. CASE InstagramAsks(c)
  <2>1. CASE \/ GetInstagramComments(c) \/ GetInstagramAccounts(c) \/ GetInstagramPostMetrics(c)
             \/ GetInstagramAccountMetrics(c) \/ GetAccountInsights(c)
    BY <1>1, <1>2, <2>1 DEF GetInstagramComments, GetInstagramAccounts, GetInstagramPostMetrics,
       GetInstagramAccountMetrics, GetAccountInsights
  <2>2. CASE CollectInstagramMetrics(c)
    BY <1>1, <1>3, <2>2 DEF CollectInstagramMetrics
  <2>3. ASSUME NEW kind \in {"one", "many"}, InstagramPost(c, kind) PROVE OpensSome(c)
    BY <1>1, <2>3, PostOpens DEF InstagramPost
  <2>4. CASE CreateStory(c)
    BY <1>1, <2>4, PostOpens DEF CreateStory
  <2> QED
    BY <1>5, <2>1, <2>2, <2>3, <2>4 DEF InstagramAsks
<1>6. CASE LinkedInAsks(c)
  <2>1. CASE \/ GetLinkedInComments(c) \/ GetLinkedInAccounts(c) \/ GetLinkedInPostMetrics(c)
             \/ GetLinkedInAccountMetrics(c) \/ GetLinkedInProfile(c) \/ GetUserOrganizations(c)
    BY <1>1, <1>2, <2>1 DEF GetLinkedInComments, GetLinkedInAccounts, GetLinkedInPostMetrics,
       GetLinkedInAccountMetrics, GetLinkedInProfile, GetUserOrganizations
  <2>2. CASE CollectLinkedInMetrics(c)
    BY <1>1, <1>3, <2>2 DEF CollectLinkedInMetrics
  <2>3. ASSUME NEW kind \in {"text", "photo"}, LinkedInPost(c, kind) PROVE OpensSome(c)
    BY <1>1, <2>3, PostOpens DEF LinkedInPost
  <2> QED
    BY <1>6, <2>1, <2>2, <2>3 DEF LinkedInAsks
<1>7. CASE TikTokAsks(c)
  <2>1. CASE TikTokPost(c)
    BY <1>1, <2>1, PostOpens DEF TikTokPost
  <2>2. CASE ~TikTokPost(c)
    BY <1>1, <1>2, <1>7, <2>2 DEF TikTokAsks, GetTikTokComments, GetTikTokAccounts,
       GetTikTokPostMetrics, GetVideoStatus, GetAccountAnalytics, GetVideoPerformance,
       GetTikTokAccountMetrics, InitializeFileUpload
  <2> QED
    BY <2>1, <2>2
<1> QED
  BY <1>2, <1>4, <1>5, <1>6, <1>7 DEF PlatformAsks

LEMMA StutterHolds == CallsInv /\ UNCHANGED platformVars => CallsInv'
  BY DEF platformVars, CallsInv, CallTypes

LEMMA AskHolds ==
  ASSUME CallsInv, NEW c \in Clients, PlatformAsks(c)
  PROVE  CallsInv'
<1>1. CASE OpensSome(c)
  BY <1>1, OpensHolds DEF OpensSome
<1> QED
  BY <1>1, AskOpens, StutterHolds

-----------------------------------------------------------------------------
(* The steps of a call that holds a post. *)

LEMMA HeldCall ==
  ASSUME CallsInv, NEW c \in Clients, call[c].step \in Held
  PROVE  /\ call[c] \in Call /\ Sane(call[c], account) /\ GoodCall(call[c], post)
         /\ call[c].post \in Posts /\ post[call[c].post] \in Post
         /\ GoodPost(call[c].post, post, excused)
  BY DEF CallsInv, CallTypes, GoodCall

(* It goes on with its post as it is. *)
LEMMA HeldMoves ==
  ASSUME CallsInv, NEW c \in Clients, call[c].step \in Held, NEW k \in Call, Sane(k, account),
         k.post = call[c].post, k.platform = call[c].platform, k.draft = call[c].draft,
         k.step \in Held, k.step \in {"poll", "status"} => call[c].step = k.step,
         call' = [call EXCEPT ![c] = k], UNCHANGED <<account, stored, granted, post, excused>>
  PROVE  CallsInv'
<1>1. GoodCall(k, post') /\ GoodPost(k.post, post', excused')
  BY HeldCall DEF GoodCall
<1>2. /\ stored' \in [Platforms -> Tokens] /\ granted' \in [Platforms -> Tokens] /\ account' = account
      /\ post' \in [Posts -> Post] /\ excused \subseteq excused' /\ excused' \subseteq Posts
  BY DEF CallsInv, CallTypes
<1>3. /\ \A x \in Posts \ {k.post, call[c].post} : post'[x] = post[x]
      /\ \A x \in Posts \cap {k.post, call[c].post} : GoodPost(x, post', excused')
      /\ call[c].post \notin Posts \ {k.post}
      /\ k.post \in {Null, call[c].post}
  BY <1>1
<1> QED
  BY <1>1, <1>2, <1>3, CallGoesOn

(* It ends, the row is written, and the caller is answered. *)
LEMMA RowWritten ==
  ASSUME CallsInv, NEW c \in Clients, call[c].step \in Held,
         NEW row \in {"unpublished", "published"}, NEW answer \in {"ok", "failed"},
         row = "published" => post[call[c].post].remote = "live",
         answer = "ok" => \/ post[call[c].post].remote \in {"live", "draft"}
                          \/ call[c].post \in excused',
         post' = [post EXCEPT ![call[c].post].row = row, ![call[c].post].answer = answer],
         call' = [call EXCEPT ![c] = NoCall],
         UNCHANGED <<account, stored, granted>>, excused \subseteq excused', excused' \subseteq Posts
  PROVE  CallsInv'
<1> PICK x : x = call[c].post
  OBVIOUS
<1> PICK r : r = [post[x] EXCEPT !.row = row, !.answer = answer]
  OBVIOUS
<1>1. x \in Posts /\ post[x] \in Post /\ post \in [Posts -> Post] /\ x # Null
  BY HeldCall, CallsAssumption DEF CallsInv, CallTypes
<1>2. r \in Post /\ r.row = row /\ r.answer = answer /\ r.remote = post[x].remote
  BY <1>1 DEF Post
<1>3. post' = [post EXCEPT ![x] = r]
  BY <1>1
<1>4. post' \in [Posts -> Post] /\ post'[x] = r /\ \A y \in Posts \ {x} : post'[y] = post[y]
  BY ONLY <1>1, <1>2, <1>3
<1>5. GoodPost(x, post', excused') /\ OnRecord(x, post', excused')
  BY <1>2, <1>4 DEF GoodPost, OnRecord
<1>6. GoodCall(NoCall, post')
  BY IdleCall DEF GoodCall
<1>7. /\ \A y \in Posts \ {NoCall.post, call[c].post} : post'[y] = post[y]
      /\ \A y \in Posts \cap {NoCall.post, call[c].post} : GoodPost(y, post', excused')
      /\ OnRecord(call[c].post, post', excused')
      /\ NoCall.post \in {Null, call[c].post}
  BY <1>4, <1>5, IdleCall, CallsAssumption
<1>8. stored' \in [Platforms -> Tokens] /\ granted' \in [Platforms -> Tokens] /\ account' = account
  BY DEF CallsInv, CallTypes
<1> QED
  BY <1>4, <1>6, <1>7, <1>8, IdleCall, CallGoesOn

LEMMA EndsHolds ==
  ASSUME CallsInv, NEW c \in Clients, NEW answer \in {"ok", "failed"}, Ends(c, answer),
         call[c].step \in Held =>
           /\ answer = "ok" => post[call[c].post].remote \in {"live", "draft"}
           /\ OnRecord(call[c].post, post, excused)
  PROVE  CallsInv'
<1> PICK before : before = call[c].post
  OBVIOUS
<1>1. before \in Posts => call[c].step \in Held
  BY CallsAssumption DEF CallsInv, GoodCall
<1>2. excused \subseteq excused' /\ excused' \subseteq Posts
  BY DEF Ends, CallsInv, CallTypes
<1> QED
  BY <1>1, <1>2, EndHolds DEF Ends

LEMMA ExcusedEndHolds ==
  ASSUME CallsInv, NEW c \in Clients, NEW answer \in {"ok", "failed"}, EndsExcused(c, answer)
  PROVE  CallsInv'
<1> PICK before : before = call[c].post
  OBVIOUS
<1>1. excused' = excused \cup ({before} \ {Null})
  BY DEF EndsExcused
<1>2. before \in Posts \cup {Null}
  BY DEF CallsInv, CallTypes, Call
<1>3. excused \subseteq excused' /\ excused' \subseteq Posts /\ (before \in Posts => before \in excused')
  BY <1>1, <1>2, CallsAssumption DEF CallsInv, CallTypes
<1> QED
  BY <1>3, EndHolds DEF EndsExcused

-----------------------------------------------------------------------------
(* The platforms, one by one. *)

LEMMA FacebookHolds ==
  ASSUME CallsInv, NEW c \in Clients, FacebookStep(c)
  PROVE  CallsInv'
<1>1. CASE UploadFacebookMediaItems(c) \/ AttachPhotos(c)
  <2> PICK step : step = IF AttachPhotos(c) THEN "publish"
                         ELSE IF call[c].kind = "photos" THEN "attach" ELSE "publish"
    OBVIOUS
  <2>1. call[c].step \notin Held /\ step \in Steps \ Held /\ Moves(c, step)
    BY <1>1 DEF UploadFacebookMediaItems, AttachPhotos, At, Held, Steps
  <2> QED
    BY <2>1, MovesOn
<1>2. ASSUME NEW kind, NEW x \in Posts, NEW step \in {"comment", "record"}, PagePost(c, kind, x, step)
      PROVE  CallsInv'
  <2> PICK remote : remote = IF call[c].draft THEN "draft" ELSE "live"
    OBVIOUS
  <2>1. /\ call[c].step \notin Held /\ call[c].platform \in Platforms
        /\ Publishes(c, x, remote, step) /\ remote \in {"live", "draft", "processing"}
    BY <1>2 DEF PagePost, At, Held, Platforms
  <2> QED
    BY <2>1, PublishHolds
<1>3. CASE CommentRest(c)
  <2> PICK k : k = [call[c] EXCEPT !.step = "record"]
    OBVIOUS
  <2>1. call[c].step \in Held
    BY <1>3 DEF CommentRest, At, Held
  <2>2. /\ k \in Call /\ k.post = call[c].post /\ k.platform = call[c].platform
        /\ k.draft = call[c].draft /\ k.step = "record" /\ k.count = call[c].count
        /\ k.token = call[c].token
    BY <2>1, HeldCall DEF Call, Steps
  <2>3. Sane(k, account)
    BY <2>1, <2>2, HeldCall DEF Sane
  <2>4. call' = [call EXCEPT ![c] = k] /\ UNCHANGED <<account, stored, granted, post, excused>>
    BY <1>3 DEF CommentRest, Moves, CallsInv, CallTypes
  <2>5. k.step \in Held /\ k.step \notin {"poll", "status"}
    BY <2>2 DEF Held
  <2> QED
    BY <2>1, <2>2, <2>3, <2>4, <2>5, HeldMoves
<1>4. CASE RecordPagePost(c)
  <2> PICK row : row = IF call[c].draft THEN "unpublished" ELSE "published"
    OBVIOUS
  <2>1. call[c].step \in Held /\ call[c].platform = "facebook"
    BY <1>4 DEF RecordPagePost, At, Held
  <2>2. /\ post[call[c].post].remote \in {"draft", "live"}
        /\ ~call[c].draft => post[call[c].post].remote = "live"
    BY <2>1, HeldCall, CallsAssumption DEF GoodCall
  <2>3. /\ post' = [post EXCEPT ![call[c].post].row = row, ![call[c].post].answer = "ok"]
        /\ call' = [call EXCEPT ![c] = NoCall]
        /\ UNCHANGED <<account, stored, granted, excused>>
    BY <1>4 DEF RecordPagePost
  <2>4. excused \subseteq excused' /\ excused' \subseteq Posts
    BY <2>3 DEF CallsInv, CallTypes
  <2>5. row \in {"unpublished", "published"} /\ (row = "published" => ~call[c].draft)
    OBVIOUS
  <2> QED
    BY <2>1, <2>2, <2>3, <2>4, <2>5, RowWritten
<1> QED
  BY <1>1, <1>2, <1>3, <1>4 DEF FacebookStep, HandleTextPost, HandleLinkPost, HandleSinglePhotoPost,
     HandleSingleVideoPost, HandleMultiPhotoPost, HandleMultiVideoPost, HandleMixedMediaCarousel

LEMMA InstagramHolds ==
  ASSUME CallsInv, NEW c \in Clients, InstagramStep(c)
  PROVE  CallsInv'
<1>1. ASSUME NEW step \in {"attach", "carousel", "publish"}, Moves(c, step),
             call[c].step \in {"store", "attach", "carousel"}
      PROVE  CallsInv'
  BY <1>1, MovesOn DEF Held, Steps
<1>2. CASE UploadInstagramMediaItems(c) \/ UploadMedia(c) \/ CreateMediaContainer(c)
  BY <1>1, <1>2 DEF UploadInstagramMediaItems, UploadMedia, CreateMediaContainer, At
<1>3. ASSUME NEW x \in Posts, MediaPublish(c, x) PROVE CallsInv'
  <2>1. /\ call[c].step \notin Held /\ call[c].platform = "instagram"
        /\ Publishes(c, x, "live", "record")
    BY <1>3 DEF MediaPublish, At, Held
  <2> QED
    BY <2>1, PublishHolds DEF Platforms
<1>4. CASE ConfigureStory(c)
  BY <1>4, EndsHolds DEF ConfigureStory, At, Held
<1>5. CASE RecordInstagramPost(c)
  <2>1. call[c].step \in Held /\ call[c].platform = "instagram" /\ Ends(c, "failed")
    BY <1>5 DEF RecordInstagramPost, At, Held
  <2>2. OnRecord(call[c].post, post, excused)
    BY <2>1, HeldCall, CallsAssumption DEF GoodCall, OnRecord
  <2> QED
    BY <2>1, <2>2, EndsHolds
<1> QED
  BY <1>2, <1>3, <1>4, <1>5 DEF InstagramStep

LEMMA LinkedInHolds ==
  ASSUME CallsInv, NEW c \in Clients, LinkedInStep(c)
  PROVE  CallsInv'
<1>1. ASSUME NEW step \in {"attach", "publish"}, Moves(c, step), call[c].step \in {"store", "attach"}
      PROVE  CallsInv'
  BY <1>1, MovesOn DEF Held, Steps
<1>2. CASE UploadLinkedInMediaItems(c) \/ UploadLinkedInMedia(c)
  BY <1>1, <1>2 DEF UploadLinkedInMediaItems, UploadLinkedInMedia, At
<1>3. ASSUME NEW x \in Posts, CreateLinkedInPost(c, x) PROVE CallsInv'
  <2>1. /\ call[c].step \notin Held /\ call[c].platform = "linkedin"
        /\ Publishes(c, x, "live", "record")
    BY <1>3 DEF CreateLinkedInPost, At, Held
  <2> QED
    BY <2>1, PublishHolds DEF Platforms
<1>4. CASE RecordLinkedInPost(c)
  <2>1. call[c].step \in Held /\ call[c].platform = "linkedin" /\ Ends(c, "failed")
    BY <1>4 DEF RecordLinkedInPost, At, Held
  <2>2. OnRecord(call[c].post, post, excused)
    BY <2>1, HeldCall, CallsAssumption DEF GoodCall, OnRecord
  <2> QED
    BY <2>1, <2>2, EndsHolds
<1> QED
  BY <1>2, <1>3, <1>4 DEF LinkedInStep

LEMMA TikTokHolds ==
  ASSUME CallsInv, NEW c \in Clients, TikTokStep(c)
  PROVE  CallsInv'
<1> PICK x : x = call[c].post
  OBVIOUS
<1>1. CASE UploadTitTokMediaItems(c) \/ RefreshAccessTokenFails(c)
  BY <1>1, MovesOn DEF UploadTitTokMediaItems, RefreshAccessTokenFails, At, Held, Steps
<1>2. CASE RefreshAccessToken(c)
  <2> PICK token : token = granted["tiktok"] + 1
    OBVIOUS
  <2>1. /\ granted["tiktok"] \in Nat /\ granted["tiktok"] < MaxToken
        /\ granted' = [granted EXCEPT !["tiktok"] = @ + 1]
        /\ call' = [call EXCEPT ![c].step = "init", ![c].token = granted'["tiktok"]]
        /\ UNCHANGED <<account, stored, post, excused>>
        /\ call[c].step \notin Held /\ call[c].platform = "tiktok" /\ call[c].token # 0
    BY <1>2 DEF RefreshAccessToken, At, Grants, Held, CallsInv, CallTypes, Platforms, Tokens
  <2>2. token \in Tokens /\ granted \in [Platforms -> Tokens] /\ "tiktok" \in Platforms
    BY <2>1, CallsAssumption DEF CallsInv, CallTypes, Tokens, Platforms
  <2>3. granted' \in [Platforms -> Tokens] /\ granted'["tiktok"] = token
    BY <2>1, <2>2
  <2>4. account[call[c].platform]
    BY <2>1 DEF CallsInv, Sane
  <2>5. call' = [call EXCEPT ![c].step = "init", ![c].token = token]
    BY <2>1, <2>3
  <2>6. "init" \in Steps \ Held
    BY DEF Steps, Held
  <2>7. UNCHANGED <<account, stored, post, excused>> /\ call[c].step \notin Held
    BY <2>1
  <2> QED
    BY ONLY CallsInv, c \in Clients, <2>2, <2>3, <2>4, <2>5, <2>6, <2>7, MovesHolds
<1>3. ASSUME NEW y \in Posts, InitializeVideoUpload(c, y) PROVE CallsInv'
  <2>1. /\ call[c].step \notin Held /\ call[c].platform = "tiktok"
        /\ Publishes(c, y, "processing", "record")
    BY <1>3 DEF InitializeVideoUpload, At, Held
  <2> QED
    BY <2>1, PublishHolds DEF Platforms
<1>4. ASSUME NEW next \in {"poll", "status"}, CreateVideo(c, next) PROVE CallsInv'
  <2> PICK k : k = [call[c] EXCEPT !.step = next]
    OBVIOUS
  <2> PICK r : r = [post[x] EXCEPT !.row = "unpublished"]
    OBVIOUS
  <2>1. call[c].step \in Held /\ call[c].platform = "tiktok" /\ next \in Steps /\ next \in Held
    BY <1>4 DEF CreateVideo, At, Held, Steps
  <2>2. /\ k \in Call /\ k.post = x /\ k.platform = "tiktok" /\ k.step = next
        /\ k.count = call[c].count /\ k.token = call[c].token
    BY <2>1, HeldCall DEF Call
  <2>3. Sane(k, account)
    BY <2>1, <2>2, HeldCall DEF Sane
  <2>4. x \in Posts /\ x # Null /\ post[x] \in Post /\ post[x].platform = "tiktok"
        /\ post[x].answer = "none" /\ post[x].remote # "none"
    BY <2>1, HeldCall, CallsAssumption DEF GoodCall
  <2>5. /\ r \in Post /\ r.row = "unpublished" /\ r.platform = "tiktok" /\ r.answer = "none"
        /\ r.remote # "none"
    BY <2>4 DEF Post
  <2>6. post' = [post EXCEPT ![x] = r] /\ post \in [Posts -> Post]
    BY <1>4, <2>4 DEF CreateVideo, CallsInv, CallTypes
  <2>7. post' \in [Posts -> Post] /\ post'[x] = r /\ \A y \in Posts \ {x} : post'[y] = post[y]
    BY ONLY <2>4, <2>5, <2>6
  <2>8. /\ call' = [call EXCEPT ![c] = k] /\ account' = account /\ excused' = excused
        /\ stored' \in [Platforms -> Tokens] /\ granted' \in [Platforms -> Tokens]
        /\ excused \subseteq excused' /\ excused' \subseteq Posts
    BY <1>4 DEF CreateVideo, CallsInv, CallTypes
  <2>9. GoodCall(k, post') /\ GoodPost(x, post', excused')
    <3>1. GoodCall(k, post')
      BY ONLY <2>1, <2>2, <2>4, <2>5, <2>7 DEF GoodCall, Platforms
    <3>2. GoodPost(x, post', excused')
      BY ONLY <2>5, <2>7 DEF GoodPost
    <3> QED
      BY ONLY <3>1, <3>2
  <2>10. /\ \A y \in Posts \ {k.post, call[c].post} : post'[y] = post[y]
         /\ \A y \in Posts \cap {k.post, call[c].post} : GoodPost(y, post', excused')
         /\ call[c].post \notin Posts \ {k.post} /\ k.post \in {Null, call[c].post}
    BY <2>2, <2>7, <2>9
  <2> QED
    BY ONLY CallsInv, c \in Clients, <2>2, <2>3, <2>7, <2>8, <2>9, <2>10, CallGoesOn
<1>5. CASE PublishStatusIsFinal(c)
  <2> PICK answer : answer = IF post[x].remote = "live" THEN "ok" ELSE "failed"
    OBVIOUS
  <2>1. call[c].step \in Held /\ call[c].step = "poll" /\ Ends(c, answer)
    BY <1>5 DEF PublishStatusIsFinal, At, Held, Remotely
  <2>2. answer \in {"ok", "failed"} /\ (answer = "ok" => post[call[c].post].remote = "live")
    OBVIOUS
  <2>3. OnRecord(call[c].post, post, excused)
    BY <2>1, HeldCall, CallsAssumption DEF GoodCall, OnRecord
  <2> QED
    BY <2>1, <2>2, <2>3, EndsHolds
<1>6. CASE CheckPublishStatusAgain(c)
  <2> PICK k : k = [call[c] EXCEPT !.count = call[c].count + 1]
    OBVIOUS
  <2>1. call[c].step \in Held /\ call[c].count < MaxTries
    BY <1>6 DEF CheckPublishStatusAgain, At, Held
  <2>2. call[c] \in Call /\ call[c].count \in Nat
    BY <2>1, HeldCall DEF Call
  <2>3. /\ k \in Call /\ k.post = call[c].post /\ k.platform = call[c].platform
        /\ k.draft = call[c].draft /\ k.step = call[c].step /\ k.count = call[c].count + 1
        /\ k.token = call[c].token
    BY <2>2 DEF Call
  <2>4. Sane(k, account)
    BY <2>1, <2>2, <2>3, HeldCall, MaxTriesAssumption DEF Sane
  <2>5. call' = [call EXCEPT ![c] = k] /\ UNCHANGED <<account, stored, granted, post, excused>>
    BY <1>6 DEF CheckPublishStatusAgain, CallsInv, CallTypes
  <2> QED
    BY <2>1, <2>3, <2>4, <2>5, HeldMoves
<1>7. CASE GiveUpPublishStatus(c)
  BY <1>7, ExcusedEndHolds DEF GiveUpPublishStatus
<1>8. CASE CheckUploadStatus(c)
  <2> PICK row : row = IF post[x].remote = "live" THEN "published" ELSE "unpublished"
    OBVIOUS
  <2> PICK answer : answer = IF post[x].remote = "rejected" THEN "failed" ELSE "ok"
    OBVIOUS
  <2>1. /\ call[c].step \in Held
        /\ post' = [post EXCEPT ![x].row = row, ![x].answer = answer]
        /\ excused' = excused \cup {y \in {x} : post[x].remote = "processing"}
        /\ call' = [call EXCEPT ![c] = NoCall]
        /\ UNCHANGED <<account, stored, granted>>
    BY <1>8 DEF CheckUploadStatus, At, Held, Remotely
  <2>2. x \in Posts /\ post[x].remote \in Remote /\ post[x].remote # "none"
    BY <2>1, HeldCall, CallsAssumption DEF GoodCall, Post
  <2>3. excused \subseteq excused' /\ excused' \subseteq Posts
    BY <2>1, <2>2 DEF CallsInv, CallTypes
  <2>4. answer = "ok" => post[x].remote \in {"live", "draft"} \/ x \in excused'
    BY <2>1, <2>2 DEF Remote
  <2>5. row \in {"unpublished", "published"} /\ (row = "published" => post[x].remote = "live")
        /\ answer \in {"ok", "failed"}
    OBVIOUS
  <2> QED
    BY <2>1, <2>2, <2>3, <2>4, <2>5, RowWritten
<1> QED
  BY <1>1, <1>2, <1>3, <1>4, <1>5, <1>6, <1>7, <1>8 DEF TikTokStep

-----------------------------------------------------------------------------
(* Whatever is not a step of a platform's service. *)

LEMMA StepHolds ==
  ASSUME CallsInv, NEW c \in Clients, PlatformStep(c) \/ CallFails(c)
  PROVE  CallsInv'
<1>1. CASE AnswerRead(c)
  BY <1>1, EndsHolds DEF AnswerRead, Held
<1>2. CASE Revoke(c)
  <2> PICK token : token = call[c].token
    OBVIOUS
  <2>1. /\ call[c].step \notin Held /\ call[c] \in Call /\ Sane(call[c], account)
        /\ granted' = [granted EXCEPT ![call[c].platform] = 0]
        /\ call' = [call EXCEPT ![c].step = "delete"]
        /\ UNCHANGED <<account, stored, post, excused>>
    BY <1>2 DEF Revoke, Held, CallsInv, CallTypes
  <2>2. token \in Tokens /\ (token # 0 => account[call[c].platform]) /\ "delete" \in Steps \ Held
    BY <2>1 DEF Call, Sane, Steps, Held
  <2>3. granted' \in [Platforms -> Tokens]
    <3>1. 0 \in Tokens
      BY CallsAssumption DEF Tokens
    <3> QED
      BY <2>1, <3>1 DEF CallsInv, CallTypes
  <2>4. [call[c] EXCEPT !.step = "delete"] = [call[c] EXCEPT !.step = "delete", !.token = token]
    BY <2>1 DEF Call
  <2>5. call' = [call EXCEPT ![c].step = "delete", ![c].token = token]
    BY <2>1, <2>4 DEF CallsInv, CallTypes
  <2> QED
    BY <2>1, <2>2, <2>3, <2>5, MovesHolds
<1>3. CASE DeleteAccount(c)
  BY <1>3, EndsHolds DEF DeleteAccount, Held
<1>4. CASE CallFails(c)
  BY <1>4, ExcusedEndHolds DEF CallFails
<1> QED
  BY <1>1, <1>2, <1>3, <1>4, FacebookHolds, InstagramHolds, LinkedInHolds, TikTokHolds DEF PlatformStep

(* An account is connected: nobody's call is about it yet. *)
LEMMA ConnectedHolds ==
  ASSUME CallsInv, NEW p \in Platforms, Connected(p)
  PROVE  CallsInv'
<1>1. /\ account' = [account EXCEPT ![p] = TRUE] /\ UNCHANGED <<post, call, excused>>
      /\ stored' = [stored EXCEPT ![p] = granted[p] + 1]
      /\ granted' = [granted EXCEPT ![p] = granted[p] + 1]
      /\ granted[p] < MaxToken
  BY DEF Connected
<1>2. granted[p] + 1 \in Tokens
  BY <1>1, CallsAssumption DEF CallsInv, CallTypes, Tokens
<1>3. CallTypes'
  BY <1>1, <1>2 DEF CallsInv, CallTypes
<1>4. ASSUME NEW c \in Clients PROVE GoodCall(call'[c], post') /\ Sane(call'[c], account')
  <2>1. GoodCall(call[c], post) /\ Sane(call[c], account) /\ call[c] \in Call
    BY DEF CallsInv, CallTypes
  <2>2. account[call[c].platform] => account'[call[c].platform]
    BY <1>1 DEF CallsInv, CallTypes
  <2> QED
    BY <1>1, <2>1, <2>2 DEF Sane
<1> QED
  BY <1>1, <1>3, <1>4 DEF CallsInv

(* A post changes on its platform. *)
LEMMA RemoteHolds ==
  ASSUME CallsInv, NEW x \in Posts, NEW remote \in {"live", "rejected"},
         \/ ScheduledTimeComes(x) /\ remote = "live"
         \/ TikTokFinishes(x, remote)
  PROVE  CallsInv'
<1> PICK r : r = [post[x] EXCEPT !.remote = remote]
  OBVIOUS
<1>1. /\ post' = [post EXCEPT ![x].remote = remote] /\ post \in [Posts -> Post]
      /\ UNCHANGED <<account, stored, granted, call, excused>>
      /\ post[x].remote = "processing" \/ (post[x].remote = "draft" /\ remote = "live")
  BY DEF ScheduledTimeComes, TikTokFinishes, CallsInv, CallTypes
<1>2. /\ r \in Post /\ r.remote = remote /\ r.platform = post[x].platform
      /\ r.row = post[x].row /\ r.answer = post[x].answer
  BY <1>1 DEF Post, Remote
<1>3. post' = [post EXCEPT ![x] = r]
  BY <1>1
<1>4. post' \in [Posts -> Post] /\ post'[x] = r /\ \A y \in Posts \ {x} : post'[y] = post[y]
  BY ONLY <1>1, <1>2, <1>3, x \in Posts
<1>5. CallTypes'
  BY <1>1, <1>4 DEF CallsInv, CallTypes
<1>6. ASSUME NEW c \in Clients PROVE GoodCall(call'[c], post') /\ Sane(call'[c], account')
  <2>1. GoodCall(call[c], post) /\ Sane(call[c], account) /\ call'[c] = call[c] /\ account' = account
    BY <1>1 DEF CallsInv
  <2>2. CASE call[c].post = x
    BY <1>1, <1>2, <1>4, <2>1, <2>2 DEF GoodCall
  <2>3. CASE call[c].post # x
    BY <1>4, <2>1, <2>3 DEF GoodCall
  <2> QED
    BY <2>1, <2>2, <2>3
<1>7. ASSUME NEW y \in Posts
      PROVE  /\ GoodPost(y, post', excused')
             /\ OnRecord(y, post', excused') \/ \E c \in Clients : call'[c].post = y
  <2>1. /\ GoodPost(y, post, excused)
        /\ OnRecord(y, post, excused) \/ \E c \in Clients : call[c].post = y
    BY DEF CallsInv
  <2>2. GoodPost(y, post', excused')
    BY <1>1, <1>2, <1>4, <2>1 DEF GoodPost
  <2>3. OnRecord(y, post, excused) => OnRecord(y, post', excused')
    BY <1>1, <1>2, <1>4 DEF OnRecord
  <2> QED
    BY <1>1, <2>1, <2>2, <2>3
<1> QED
  BY <1>1, <1>5, <1>6, <1>7 DEF CallsInv

-----------------------------------------------------------------------------
LEMMA NextHolds == CallsInv /\ [PlatformNext]_platformVars => CallsInv'
<1> SUFFICES ASSUME CallsInv, [PlatformNext]_platformVars PROVE CallsInv'
  OBVIOUS
<1> QED
  BY AskHolds, StepHolds, ConnectedHolds, RemoteHolds, StutterHolds DEF PlatformNext

(* The inductive invariant of the platforms: what a call in the midst of   *)
(* its steps knows of its post.                                            *)
THEOREM CallsAreSound == PlatformSpec => []CallsInv
  BY CallsInitSound, NextHolds, PTL DEF PlatformSpec

(* Accounts, tokens, posts and calls are what their names say, and no two  *)
(* calls hold the same post.                                               *)
THEOREM PlatformsAreTyped == PlatformSpec => []PlatformTypeOK
  BY CallsInvGives, CallsAreSound, PTL

(* Whoever is told that a post went well finds it on its platform, however *)
(* many calls, refreshes, disconnections and failures there are.           *)
THEOREM OkIsPublished == PlatformSpec => []OkMeansPublished
  BY CallsInvGives, CallsAreSound, PTL

(* No row says that a post is out before it is.                            *)
THEOREM RowsStayBehind == PlatformSpec => []RowIsNotAhead
  BY CallsInvGives, CallsAreSound, PTL

(* A post of Facebook or TikTok that no call holds any more has its row,   *)
(* unless its call was broken off.                                         *)
THEOREM PostsAreRecorded == PlatformSpec => []Recorded
  BY CallsInvGives, CallsAreSound, PTL

-----------------------------------------------------------------------------
(* What a failure tells.  On Facebook and TikTok a call that says it       *)
(* failed, and was not broken off, is about a post that was rejected; on   *)
(* Instagram and LinkedIn no post is ever said to have gone well, nor has  *)
(* a row.                                                                  *)
Tells(x) ==
  /\ post[x].platform \in {"facebook", "tiktok"} /\ post[x].answer = "failed" =>
       post[x].remote = "rejected" \/ x \in excused
  /\ post[x].platform \in {"instagram", "linkedin"} =>
       post[x].answer # "ok" /\ post[x].row = "none"

AnswersTell == \A x \in Posts : Tells(x)

LEMMA TellsOn ==
  ASSUME NEW x \in Posts, Tells(x), post'[x] = post[x], excused \subseteq excused'
  PROVE  Tells(x)'
  BY DEF Tells

(* A call that ends answers the post it holds, and leaves the others. *)
LEMMA TellsEnd ==
  ASSUME CallsInv, AnswersTell, NEW c \in Clients, NEW answer \in {"ok", "failed"}, NEW x \in Posts,
         post' = Answered(c, answer), excused \subseteq excused',
         call[c].post = x =>
           IF post[x].platform \in {"facebook", "tiktok"}
           THEN answer = "failed" => post[x].remote = "rejected" \/ x \in excused'
           ELSE answer = "failed"
  PROVE  Tells(x)'
<1>1. Tells(x) /\ post[x] \in Post
  BY DEF AnswersTell, CallsInv, CallTypes
<1>2. CASE x # call[c].post
  BY <1>1, <1>2, TellsOn DEF Answered
<1>3. CASE x = call[c].post
  <2>1. post'[x] = [post[x] EXCEPT !.answer = answer]
    BY <1>3 DEF Answered
  <2>2. /\ post'[x].platform = post[x].platform /\ post'[x].remote = post[x].remote
        /\ post'[x].row = post[x].row /\ post'[x].answer = answer
    BY <1>1, <2>1 DEF Post
  <2> QED
    BY <1>1, <1>3, <2>2 DEF Tells
<1> QED
  BY <1>2, <1>3

(* A post that is put on its platform was nowhere, and is not answered.    *)
LEMMA TellsPublish ==
  ASSUME CallsInv, AnswersTell, NEW c \in Clients, NEW x \in Posts, NEW y \in Posts,
         NEW remote, NEW step, Publishes(c, y, remote, step)
  PROVE  Tells(x)'
<1>1. /\ post[y] = NoPost /\ UNCHANGED excused /\ post \in [Posts -> Post]
      /\ post' = [post EXCEPT ![y].platform = call[c].platform, ![y].remote = remote]
  BY DEF Publishes, CallsInv, CallTypes
<1>2. CASE x # y
  BY <1>1, <1>2, TellsOn DEF AnswersTell
<1>3. CASE x = y
  <2>1. post'[x].answer = "none" /\ post'[x].row = "none"
    BY <1>1, <1>3 DEF NoPost
  <2> QED
    BY <2>1 DEF Tells
<1> QED
  BY <1>2, <1>3

(* A row is written, and perhaps the caller answered, on Facebook and      *)
(* TikTok.                                                                 *)
LEMMA TellsRow ==
  ASSUME CallsInv, AnswersTell, NEW c \in Clients, NEW x \in Posts, call[c].step \in Held,
         call[c].platform \in {"facebook", "tiktok"}, NEW row, NEW answer,
         answer = "failed" => post[call[c].post].remote = "rejected",
         \/ post' = [post EXCEPT ![call[c].post].row = row]
         \/ post' = [post EXCEPT ![call[c].post].row = row, ![call[c].post].answer = answer],
         excused \subseteq excused'
  PROVE  Tells(x)'
<1> PICK y : y = call[c].post
  OBVIOUS
<1>1. /\ y \in Posts /\ post[y] \in Post /\ post \in [Posts -> Post]
      /\ post[y].platform \in {"facebook", "tiktok"} /\ post[y].answer = "none"
  BY HeldCall DEF CallsInv, CallTypes, GoodCall
<1>2. CASE x # y
  BY <1>1, <1>2, TellsOn DEF AnswersTell
<1>3. CASE x = y
  <2>1. post'[y].platform = post[y].platform /\ post'[y].remote = post[y].remote
        /\ post'[y].answer \in {"none", answer}
    BY <1>1 DEF Post
  <2> QED
    BY <1>1, <1>3, <2>1 DEF Tells
<1> QED
  BY <1>2, <1>3

LEMMA TellsStep ==
  ASSUME CallsInv, AnswersTell, NEW c \in Clients, PlatformStep(c) \/ CallFails(c), NEW x \in Posts
  PROVE  Tells(x)'
<1>1. Tells(x) /\ (call[c].post = x => call[c].step \in Held /\ post[x].platform = call[c].platform
                                       /\ call[c].platform \in Platforms)
  BY CallsAssumption DEF AnswersTell, CallsInv, GoodCall
<1>2. ASSUME UNCHANGED <<post, excused>> PROVE Tells(x)'
  BY <1>1, <1>2, TellsOn
<1>3. CASE AnswerRead(c) \/ DeleteAccount(c) \/ ConfigureStory(c)
  <2>1. call[c].step \notin Held /\ excused' = excused
        /\ \E answer \in {"ok", "failed"} : post' = Answered(c, answer)
    BY <1>3 DEF AnswerRead, DeleteAccount, ConfigureStory, At, Ends, Held
  <2> QED
    BY <1>1, <2>1, TellsEnd
<1>4. CASE CallFails(c)
  <2>1. post' = Answered(c, "failed") /\ excused' = excused \cup ({call[c].post} \ {Null})
    BY <1>4 DEF CallFails, EndsExcused
  <2>2. excused \subseteq excused' /\ (call[c].post = x => x \in excused')
    BY <2>1, CallsAssumption
  <2> QED
    BY <2>1, <2>2, TellsEnd
<1>5. CASE RecordInstagramPost(c) \/ RecordLinkedInPost(c)
  <2>1. post' = Answered(c, "failed") /\ excused' = excused /\ call[c].platform \in {"instagram", "linkedin"}
    BY <1>5 DEF RecordInstagramPost, RecordLinkedInPost, At, Ends
  <2> QED
    BY <1>1, <2>1, TellsEnd
<1>6. CASE PublishStatusIsFinal(c)
  <2> PICK answer : answer = IF Remotely(c) = "live" THEN "ok" ELSE "failed"
    OBVIOUS
  <2>1. /\ post' = Answered(c, answer) /\ excused' = excused /\ call[c].platform = "tiktok"
        /\ post[call[c].post].remote \in {"live", "rejected"}
    BY <1>6 DEF PublishStatusIsFinal, At, Ends, Remotely
  <2>2. answer = "failed" => post[call[c].post].remote = "rejected"
    BY <2>1 DEF Remotely
  <2> QED
    BY <1>1, <2>1, <2>2, TellsEnd
<1>7. CASE GiveUpPublishStatus(c)
  <2>1. post' = Answered(c, "ok") /\ excused \subseteq excused' /\ call[c].platform = "tiktok"
    BY <1>7 DEF GiveUpPublishStatus, At, EndsExcused
  <2> QED
    BY <1>1, <2>1, TellsEnd
<1>8. ASSUME NEW y \in Posts, NEW remote, NEW step, Publishes(c, y, remote, step) PROVE Tells(x)'
  BY <1>8, TellsPublish
<1>9. CASE RecordPagePost(c)
  <2> PICK row : row = IF call[c].draft THEN "unpublished" ELSE "published"
    OBVIOUS
  <2> PICK answer : answer = "ok"
    OBVIOUS
  <2>1. /\ call[c].step \in Held /\ call[c].platform \in {"facebook", "tiktok"}
        /\ excused \subseteq excused'
        /\ post' = [post EXCEPT ![call[c].post].row = row, ![call[c].post].answer = answer]
    BY <1>9 DEF RecordPagePost, At, Held
  <2>2. answer = "failed" => post[call[c].post].remote = "rejected"
    OBVIOUS
  <2> QED
    BY ONLY CallsInv, AnswersTell, c \in Clients, x \in Posts, <2>1, <2>2, TellsRow
<1>10. ASSUME NEW next, CreateVideo(c, next) PROVE Tells(x)'
  <2>1. /\ call[c].step \in Held /\ call[c].platform = "tiktok" /\ excused' = excused
        /\ post' = [post EXCEPT ![call[c].post].row = "unpublished"]
    BY <1>10 DEF CreateVideo, At, Held
  <2> QED
    BY <2>1, TellsRow
<1>11. CASE CheckUploadStatus(c)
  <2> PICK row : row = IF Remotely(c) = "live" THEN "published" ELSE "unpublished"
    OBVIOUS
  <2> PICK answer : answer = IF Remotely(c) = "rejected" THEN "failed" ELSE "ok"
    OBVIOUS
  <2>1. /\ call[c].step \in Held /\ call[c].platform = "tiktok" /\ excused \subseteq excused'
        /\ post' = [post EXCEPT ![call[c].post].row = row, ![call[c].post].answer = answer]
    BY <1>11 DEF CheckUploadStatus, At, Held
  <2>2. answer = "failed" => post[call[c].post].remote = "rejected"
    BY DEF Remotely
  <2> QED
    BY <2>1, <2>2, TellsRow
<1>12. FacebookStep(c) => Tells(x)'
  BY <1>2, <1>8, <1>9 DEF FacebookStep, UploadFacebookMediaItems, AttachPhotos, CommentRest, Moves,
     HandleTextPost, HandleLinkPost, HandleSinglePhotoPost, HandleSingleVideoPost,
     HandleMultiPhotoPost, HandleMultiVideoPost, HandleMixedMediaCarousel, PagePost
<1>13. InstagramStep(c) => Tells(x)'
  BY <1>2, <1>3, <1>5, <1>8 DEF InstagramStep, UploadInstagramMediaItems, UploadMedia,
     CreateMediaContainer, Moves, MediaPublish
<1>14. LinkedInStep(c) => Tells(x)'
  BY <1>2, <1>5, <1>8 DEF LinkedInStep, UploadLinkedInMediaItems, UploadLinkedInMedia, Moves,
     CreateLinkedInPost
<1>15. TikTokStep(c) => Tells(x)'
  BY <1>2, <1>6, <1>7, <1>8, <1>10, <1>11 DEF TikTokStep, UploadTitTokMediaItems, RefreshAccessToken,
     RefreshAccessTokenFails, InitializeVideoUpload, CheckPublishStatusAgain, Moves
<1>16. Revoke(c) => Tells(x)'
  BY <1>2 DEF Revoke
<1> QED
  BY <1>3, <1>4, <1>12, <1>13, <1>14, <1>15, <1>16 DEF PlatformStep

LEMMA TellsNext == CallsInv /\ AnswersTell /\ [PlatformNext]_platformVars => AnswersTell'
<1> SUFFICES ASSUME CallsInv, AnswersTell, [PlatformNext]_platformVars, NEW x \in Posts
             PROVE  Tells(x)'
  BY DEF AnswersTell
<1>1. ASSUME UNCHANGED <<post, excused>> PROVE Tells(x)'
  BY <1>1, TellsOn DEF AnswersTell
<1>2. ASSUME NEW c \in Clients, PlatformAsks(c) PROVE Tells(x)'
  BY <1>1, <1>2, AskOpens DEF OpensSome, Opens, platformVars
<1>3. ASSUME NEW p \in Platforms, Connected(p) PROVE Tells(x)'
  BY <1>1, <1>3 DEF Connected
<1>4. ASSUME NEW y \in Posts, NEW remote \in {"live", "rejected"},
             ScheduledTimeComes(y) \/ TikTokFinishes(y, remote)
      PROVE  Tells(x)'
  <2>1. /\ post' \in {[post EXCEPT ![y].remote = "live"], [post EXCEPT ![y].remote = remote]}
        /\ post[y].remote \in {"draft", "processing"} /\ excused' = excused
    BY <1>4 DEF ScheduledTimeComes, TikTokFinishes
  <2>2. Tells(x) /\ post \in [Posts -> Post] /\ post[x] \in Post
    BY DEF AnswersTell, CallsInv, CallTypes
  <2>3. /\ post'[x].platform = post[x].platform /\ post'[x].answer = post[x].answer
        /\ post'[x].row = post[x].row /\ (x # y => post'[x] = post[x])
    BY <2>1, <2>2 DEF Post
  <2> QED
    BY <2>1, <2>2, <2>3 DEF Tells
<1> QED
  BY <1>1, <1>2, <1>3, <1>4, TellsStep DEF PlatformNext, platformVars

(* instagram.service.spec.ts expects that a failed call leaves nothing on  *)
(* the platform.  Facebook's and TikTok's calls keep to that, unless they  *)
(* are broken off: what they fail on was rejected.  Instagram's and        *)
(* LinkedIn's never do: every post that goes out is told as a failure, or  *)
(* not yet, and none is ever recorded.                                     *)
THEOREM FailuresTell == PlatformSpec => []AnswersTell
<1>1. CallsInit => AnswersTell
  BY CallsAssumption DEF CallsInit, AnswersTell, Tells, NoPost, Platforms
<1> QED
  BY <1>1, TellsNext, CallsAreSound, PTL DEF PlatformSpec
=============================================================================
