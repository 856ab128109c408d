--------------------------- MODULE PublishVerdict ---------------------------
(***************************************************************************)
(* The verdict the content publisher gives on one publish call, and what   *)
(* the scheduler makes of it.  A call addresses a set of targets, one per  *)
(* entry of its "platforms" list; the verdict depends only on the targets  *)
(* whose call to the platform came back as a success.                      *)
(***************************************************************************)

(* The members of enum PublishStatus. *)
PublishStatus ==
  {"PENDING", "COMPLETED", "PARTIALLY_COMPLETED", "FAILED", "CANCELED"}

(* The members of enum ScheduleStatus. *)
ScheduleStatus ==
  {"PENDING", "PROCESSING", "PUBLISHED", "PARTIALLY_PUBLISHED", "FAILED",
   "CANCELLED"}

(* What determineOverallStatus can return. *)
Verdicts == {"COMPLETED", "PARTIALLY_COMPLETED", "FAILED"}

(* determineOverallStatus: allSuccessful is tested before allFailed, so a  *)
(* call with no target at all is COMPLETED.                                *)
Verdict(successes, targets) ==
  IF successes = targets THEN "COMPLETED"
  ELSE IF successes = {} THEN "FAILED"
  ELSE "PARTIALLY_COMPLETED"

(* mapPublishStatusToScheduleStatus, whose default is FAILED. *)
ScheduleStatusOf(status) ==
  CASE status = "COMPLETED" -> "PUBLISHED"
    [] status = "PARTIALLY_COMPLETED" -> "PARTIALLY_PUBLISHED"
    [] OTHER -> "FAILED"
=============================================================================
