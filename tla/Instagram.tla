----------------------------- MODULE Instagram -----------------------------
(***************************************************************************)
(* InstagramService: a post is a container for each medium, a container of *)
(* containers if there are several, and the call that publishes it.        *)
(***************************************************************************)
EXTENDS PlatformCalls

GetInstagramComments(c) == Reads(c, "instagram")
GetInstagramAccounts(c) == Reads(c, "instagram")
GetInstagramPostMetrics(c) == Reads(c, "instagram")
GetInstagramAccountMetrics(c) == Reads(c, "instagram")
GetAccountInsights(c) == Reads(c, "instagram")

(* The job asks for the metrics of a post with the id of the account's     *)
(* row, by which no account is found.                                      *)
CollectInstagramMetrics(c) == Throws(c, "instagram")

(* post, with one medium or with many; without any it ends after storage.  *)
InstagramPost(c, kind) ==
  Opens(c, "instagram", [NoCall EXCEPT !.kind = kind, !.step = "store"])

CreateStory(c) ==
  Opens(c, "instagram", [NoCall EXCEPT !.kind = "story", !.step = "attach"])

UploadInstagramMediaItems(c) ==
  /\ At(c, "instagram", "store")
  /\ Moves(c, "attach")

(* Every medium is checked, gets its container, and is finished when asked *)
(* once; otherwise the call fails.                                         *)
UploadMedia(c) ==
  /\ At(c, "instagram", "attach")
  /\ Grants(c)
  /\ Moves(c, IF call[c].kind = "many" THEN "carousel" ELSE "publish")

CreateMediaContainer(c) ==
  /\ At(c, "instagram", "carousel")
  /\ Grants(c)
  /\ Moves(c, "publish")

MediaPublish(c, x) ==
  /\ At(c, "instagram", "publish")
  /\ call[c].kind # "story"
  /\ Publishes(c, x, "live", "record")

(* A story has no row, and no answer names it. *)
ConfigureStory(c) ==
  /\ At(c, "instagram", "publish")
  /\ call[c].kind = "story"
  /\ Grants(c)
  /\ Ends(c, "ok")

(* The row has no tenant, which its column requires: the insert is refused *)
(* and the call fails, although the post is out.                           *)
RecordInstagramPost(c) ==
  /\ At(c, "instagram", "record")
  /\ Ends(c, "failed")

InstagramStep(c) ==
  \/ UploadInstagramMediaItems(c) \/ UploadMedia(c) \/ CreateMediaContainer(c)
  \/ \E x \in Posts : MediaPublish(c, x)
  \/ ConfigureStory(c)
  \/ RecordInstagramPost(c)

InstagramAsks(c) ==
  \/ GetInstagramComments(c) \/ GetInstagramAccounts(c) \/ GetInstagramPostMetrics(c)
  \/ GetInstagramAccountMetrics(c) \/ GetAccountInsights(c) \/ CollectInstagramMetrics(c)
  \/ \E kind \in {"one", "many"} : InstagramPost(c, kind)
  \/ CreateStory(c)
=============================================================================
