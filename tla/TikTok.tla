------------------------------- MODULE TikTok -------------------------------
(***************************************************************************)
(* TikTokService: a video is pulled by TikTok from storage.  The service   *)
(* refreshes the token, initialises the upload, saves the row, and asks    *)
(* for the status: once, or up to MaxTries times, depending on the form of *)
(* the id it was given.                                                    *)
(***************************************************************************)
EXTENDS PlatformCalls

CONSTANT MaxTries   \* maxRetries of checkPublishStatus, 10 in the code

ASSUME MaxTriesAssumption == MaxTries \in Nat

GetTikTokComments(c) == Reads(c, "tiktok")
GetTikTokAccounts(c) == Reads(c, "tiktok")
GetTikTokPostMetrics(c) == Reads(c, "tiktok")
GetVideoStatus(c) == Reads(c, "tiktok")
GetAccountAnalytics(c) == Reads(c, "tiktok")
GetVideoPerformance(c) == Reads(c, "tiktok")
GetTikTokAccountMetrics(c) == Reads(c, "tiktok")

(* The session would be inserted without its tenant, and is refused. *)
InitializeFileUpload(c) == Reads(c, "tiktok")

TikTokPost(c) == Opens(c, "tiktok", [NoCall EXCEPT !.kind = "video", !.step = "store"])

UploadTitTokMediaItems(c) ==
  /\ At(c, "tiktok", "store")
  /\ Moves(c, "refresh")

(* refreshAccessToken: the call goes on with the new token.  The account   *)
(* is saved without its social account, so the table keeps the old one.    *)
RefreshAccessToken(c) ==
  /\ At(c, "tiktok", "refresh")
  /\ Grants(c)
  /\ granted["tiktok"] < MaxToken
  /\ granted' = [granted EXCEPT !["tiktok"] = @ + 1]
  /\ call' = [call EXCEPT ![c].step = "init", ![c].token = granted'["tiktok"]]
  /\ UNCHANGED <<account, stored, post, excused>>

(* Whatever goes wrong with the refresh, the call goes on. *)
RefreshAccessTokenFails(c) ==
  /\ At(c, "tiktok", "refresh")
  /\ Moves(c, "init")

InitializeVideoUpload(c, x) ==
  /\ At(c, "tiktok", "init")
  /\ Publishes(c, x, "processing", "record")

(* MUTATION: the video has no row. *)
CreateNoVideo(c, next) ==
  /\ At(c, "tiktok", "record")
  /\ Moves(c, next)

(* createVideo, with the status of the request.  The id decides how the    *)
(* status is asked for.                                                    *)
CreateVideo(c, next) ==
  /\ At(c, "tiktok", "record")
  /\ post' = [post EXCEPT ![call[c].post].row = "unpublished"]
  /\ call' = [call EXCEPT ![c].step = next]
  /\ UNCHANGED <<account, stored, granted, excused>>

Remotely(c) == post[call[c].post].remote

(* MUTATION: FAILED is not looked at. *)
PublishStatusIsAnything(c) ==
  /\ At(c, "tiktok", "poll")
  /\ Grants(c)
  /\ call[c].count < MaxTries
  /\ Remotely(c) \in {"live", "rejected"}
  /\ Ends(c, "ok")

(* checkPublishStatus: the answer is final. *)
PublishStatusIsFinal(c) ==
  /\ At(c, "tiktok", "poll")
  /\ Grants(c)
  /\ call[c].count < MaxTries
  /\ Remotely(c) \in {"live", "rejected"}
  /\ Ends(c, IF Remotely(c) = "live" THEN "ok" ELSE "failed")

(* MUTATION: some errors start the count again. *)
CheckPublishStatusAnew(c) ==
  /\ At(c, "tiktok", "poll")
  /\ call[c].count < MaxTries
  /\ \E n \in {0, call[c].count + 1} : call' = [call EXCEPT ![c].count = n]
  /\ UNCHANGED <<account, stored, granted, post, excused>>

(* MUTATION: one retry too many. *)
CheckPublishStatusOnceMore(c) ==
  /\ At(c, "tiktok", "poll")
  /\ call[c].count <= MaxTries
  /\ call' = [call EXCEPT ![c].count = @ + 1]
  /\ UNCHANGED <<account, stored, granted, post, excused>>

(* It is not, or there is an error of any kind: wait and ask again. *)
CheckPublishStatusAgain(c) ==
  /\ At(c, "tiktok", "poll")
  /\ call[c].count < MaxTries
  /\ call' = [call EXCEPT ![c].count = @ + 1]
  /\ UNCHANGED <<account, stored, granted, post, excused>>

(* The retries are exhausted: PUBLISHING, which post takes for a success.  *)
(* The row is not touched.                                                 *)
GiveUpPublishStatus(c) ==
  /\ At(c, "tiktok", "poll")
  /\ call[c].count = MaxTries
  /\ EndsExcused(c, "ok")

(* checkUploadStatus asks once, and the row takes the status. *)
CheckUploadStatus(c) ==
  /\ At(c, "tiktok", "status")
  /\ Grants(c)
  /\ post' = [post EXCEPT
       ![call[c].post].row = IF Remotely(c) = "live" THEN "published" ELSE "unpublished",
       ![call[c].post].answer = IF Remotely(c) = "rejected" THEN "failed" ELSE "ok"]
  /\ excused' = excused \cup {x \in {call[c].post} : Remotely(c) = "processing"}
  /\ call' = [call EXCEPT ![c] = NoCall]
  /\ UNCHANGED <<account, stored, granted>>

(* TikTok fetches and checks the video in its own time. *)
TikTokFinishes(x, remote) ==
  /\ post[x].remote = "processing"
  /\ remote \in {"live", "rejected"}
  /\ post' = [post EXCEPT ![x].remote = remote]
  /\ UNCHANGED <<account, stored, granted, call, excused>>

TikTokStep(c) ==
  \/ UploadTitTokMediaItems(c) \/ RefreshAccessToken(c) \/ RefreshAccessTokenFails(c)
  \/ \E x \in Posts : InitializeVideoUpload(c, x)
  \/ \E next \in {"poll", "status"} : CreateVideo(c, next)
  \/ PublishStatusIsFinal(c) \/ CheckPublishStatusAgain(c) \/ GiveUpPublishStatus(c)
  \/ CheckUploadStatus(c)

TikTokAsks(c) ==
  \/ GetTikTokComments(c) \/ GetTikTokAccounts(c) \/ GetTikTokPostMetrics(c)
  \/ GetVideoStatus(c) \/ GetAccountAnalytics(c) \/ GetVideoPerformance(c)
  \/ GetTikTokAccountMetrics(c) \/ InitializeFileUpload(c)
  \/ TikTokPost(c)
=============================================================================
