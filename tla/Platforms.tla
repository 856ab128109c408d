----------------------------- MODULE Platforms ------------------------------
(***************************************************************************)
(* The services of the four platforms, and CrossPlatformService, which     *)
(* connects and disconnects their accounts.                                *)
(***************************************************************************)
EXTENDS Facebook, Instagram, LinkedIn, TikTok

PlatformTypeOK ==
  /\ account \in [Platforms -> BOOLEAN]
  /\ stored \in [Platforms -> Tokens]
  /\ granted \in [Platforms -> Tokens]
  /\ post \in [Posts -> Post]
  /\ call \in [Clients -> Call]
  /\ excused \subseteq Posts
  /\ \A c \in Clients :
       /\ call[c].step \in {"comment", "record", "poll", "status"} =>
            /\ call[c].post \in Posts
            /\ post[call[c].post].platform = call[c].platform
            /\ post[call[c].post].answer = "none"
       /\ \A d \in Clients \ {c} : call[c].post = call[d].post => call[c].post = Null
       /\ call[c].count \in 0 .. MaxTries
       /\ call[c].token # 0 => account[call[c].platform]

(* getConnectedPlatforms asks every platform in turn; getUserAccounts is   *)
(* theirs.  disconnectPlatform calls revokeAccess of the platform.         *)
RevokeAccess(c, p) == Opens(c, p, [NoCall EXCEPT !.step = "revoke"])

Revoke(c) ==
  /\ call[c].step = "revoke"
  /\ Grants(c)
  /\ granted' = [granted EXCEPT ![call[c].platform] = 0]
  /\ call' = [call EXCEPT ![c].step = "delete"]
  /\ UNCHANGED <<account, stored, post, excused>>

(* deleteAccount deletes nothing: Facebook and Instagram look for the      *)
(* user's id among the ids of rows and find no account, LinkedIn and       *)
(* Facebook name a relation that their posts and pages do not have, and on *)
(* TikTok the row of the account refers to the social account that is      *)
(* removed first.                                                          *)
DeleteAccount(c) == call[c].step = "delete" /\ Ends(c, "failed")

PlatformStep(c) ==
  \/ AnswerRead(c)
  \/ FacebookStep(c) \/ InstagramStep(c) \/ LinkedInStep(c) \/ TikTokStep(c)
  \/ Revoke(c) \/ DeleteAccount(c)

PlatformAsks(c) ==
  \/ FacebookAsks(c) \/ InstagramAsks(c) \/ LinkedInAsks(c) \/ TikTokAsks(c)
  \/ \E p \in Platforms : RevokeAccess(c, p)

PlatformNext ==
  \/ \E c \in Clients : PlatformAsks(c) \/ PlatformStep(c) \/ CallFails(c)
  \/ \E p \in Platforms : Connected(p)
  \/ \E x \in Posts : \/ ScheduledTimeComes(x)
                      \/ \E remote \in {"live", "rejected"} : TikTokFinishes(x, remote)

(* Every open call goes on: what it awaits answers or fails.               *)
PlatformSpec ==
  /\ CallsInit
  /\ [][PlatformNext]_platformVars
  /\ \A c \in Clients : WF_platformVars(PlatformStep(c) \/ CallFails(c))

-----------------------------------------------------------------------------
(* Properties. *)

(* post, createPagePost: a caller who is told that a post went well finds  *)
(* it on the platform, or waiting there for its time; the exception is a   *)
(* video whose last status was not final.                                  *)
OkMeansPublished ==
  \A x \in Posts : post[x].answer = "ok" =>
    post[x].remote \in {"live", "draft"} \/ x \in excused

(* createPost, updateVideoStatus: the tables are never ahead of the        *)
(* platform.  A row says published only of a post that is out, although    *)
(* it is saved after other calls, the platform's own clock, and failures.  *)
RowIsNotAhead ==
  \A x \in Posts : post[x].row = "published" => post[x].remote = "live"

(* Facebook's and TikTok's posts are recorded: once the call is over, one  *)
(* that the platform has is in the tables too, unless the call was broken  *)
(* off in between.                                                         *)
Recorded ==
  \A x \in Posts :
    /\ post[x].platform \in {"facebook", "tiktok"}
    /\ \A c \in Clients : call[c].post # x
    => post[x].row # "none" \/ x \in excused

(* Every call ends, the polling of TikTok among them. *)
CallsEnd == \A c \in Clients : (call[c].step # "idle") ~> (call[c].step = "idle")

(* instagram.service.spec.ts: post returns the id of what was published.   *)
(* A call fails only if the post is not out, unless it was broken off.     *)
FailedMeansNotPosted ==
  \A x \in Posts : post[x].answer = "failed" =>
    post[x].remote # "live" \/ x \in excused
=============================================================================
