------------------------------ MODULE Facebook ------------------------------
(***************************************************************************)
(* FacebookService: posts of a page.  Media go to storage first, several   *)
(* photos are handed to Facebook one by one and then attached, videos that *)
(* do not fit follow as comments, and the row is saved last.               *)
(***************************************************************************)
EXTENDS PlatformCalls

FacebookKinds == {"text", "link", "photo", "video", "photos", "videos", "mixed"}

GetComments(c) == Reads(c, "facebook")
GetUserAccounts(c) == Reads(c, "facebook")
GetPagePosts(c) == Reads(c, "facebook")
GetPageInsights(c) == Reads(c, "facebook")
GetPageMetrics(c) == Reads(c, "facebook")

(* The job asks for the metrics of a page with the id of its row, by which *)
(* no page is found.                                                       *)
CollectPageMetrics(c) == Throws(c, "facebook")

(* The post comes without its page, or with its page and without its       *)
(* account: reading their fields throws before anything was done.          *)
GetPostMetrics(c) == Throws(c, "facebook")
EditPost(c, x) == post[x].row # "none" /\ Throws(c, "facebook")
DeletePost(c, x) == post[x].row # "none" /\ Throws(c, "facebook")

(* createPagePost chooses the handler.  A single photo or video needs its  *)
(* URL: storing a file would need the account of the page, which is not    *)
(* loaded.                                                                 *)
CreatePagePost(c, kind, draft) ==
  Opens(c, "facebook",
    [NoCall EXCEPT !.kind = kind, !.draft = draft,
       !.step = IF kind \in {"photos", "videos", "mixed"} THEN "store" ELSE "publish"])

SinglePhotoOrVideoFromFile(c) == Throws(c, "facebook")

(* The time lies between ten minutes and thirty days ahead. *)
SchedulePagePost(c, kind) == CreatePagePost(c, kind, TRUE)

UploadFacebookMediaItems(c) ==
  /\ At(c, "facebook", "store")
  /\ Moves(c, IF call[c].kind = "photos" THEN "attach" ELSE "publish")

(* Photos that are not published are temporary. *)
AttachPhotos(c) ==
  /\ At(c, "facebook", "attach")
  /\ Grants(c)
  /\ Moves(c, "publish")

PagePost(c, kind, x, next) ==
  /\ At(c, "facebook", "publish")
  /\ call[c].kind = kind
  /\ Publishes(c, x, IF call[c].draft THEN "draft" ELSE "live", next)

HandleTextPost(c, x) == PagePost(c, "text", x, "record")
HandleLinkPost(c, x) == PagePost(c, "link", x, "record")
HandleSinglePhotoPost(c, x) == PagePost(c, "photo", x, "record")
HandleSingleVideoPost(c, x) == PagePost(c, "video", x, "record")
HandleMultiPhotoPost(c, x) == PagePost(c, "photos", x, "record")
HandleMultiVideoPost(c, x) == PagePost(c, "videos", x, "comment")
HandleMixedMediaCarousel(c, x) == PagePost(c, "mixed", x, "comment")

(* The rest follows as comments; a comment that fails is let go.           *)
CommentRest(c) ==
  /\ At(c, "facebook", "comment")
  /\ Moves(c, "record")

(* MUTATION: the row is saved as published. *)
RecordPublished(c) ==
  /\ At(c, "facebook", "record")
  /\ post' = [post EXCEPT ![call[c].post].row = "published", ![call[c].post].answer = "ok"]
  /\ call' = [call EXCEPT ![c] = NoCall]
  /\ UNCHANGED <<account, stored, granted, excused>>

RecordPagePost(c) ==
  /\ At(c, "facebook", "record")
  /\ post' = [post EXCEPT
       ![call[c].post].row = IF call[c].draft THEN "unpublished" ELSE "published",
       ![call[c].post].answer = "ok"]
  /\ call' = [call EXCEPT ![c] = NoCall]
  /\ UNCHANGED <<account, stored, granted, excused>>

(* A draft goes out at its time; no code looks at it again. *)
ScheduledTimeComes(x) ==
  /\ post[x].remote = "draft"
  /\ post' = [post EXCEPT ![x].remote = "live"]
  /\ UNCHANGED <<account, stored, granted, call, excused>>

FacebookStep(c) ==
  \/ UploadFacebookMediaItems(c) \/ AttachPhotos(c)
  \/ \E x \in Posts :
       \/ HandleTextPost(c, x) \/ HandleLinkPost(c, x)
       \/ HandleSinglePhotoPost(c, x) \/ HandleSingleVideoPost(c, x)
       \/ HandleMultiPhotoPost(c, x) \/ HandleMultiVideoPost(c, x)
       \/ HandleMixedMediaCarousel(c, x)
  \/ CommentRest(c) \/ RecordPagePost(c)

FacebookAsks(c) ==
  \/ GetComments(c) \/ GetUserAccounts(c) \/ GetPagePosts(c) \/ GetPageInsights(c)
  \/ GetPageMetrics(c) \/ CollectPageMetrics(c) \/ GetPostMetrics(c) \/ SinglePhotoOrVideoFromFile(c)
  \/ \E x \in Posts : EditPost(c, x) \/ DeletePost(c, x)
  \/ \E kind \in FacebookKinds : \/ CreatePagePost(c, kind, FALSE)
                                 \/ SchedulePagePost(c, kind)
=============================================================================
