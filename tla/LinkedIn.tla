------------------------------ MODULE LinkedIn ------------------------------
(***************************************************************************)
(* LinkedInService: a post of the first organisation of an account.        *)
(***************************************************************************)
EXTENDS PlatformCalls

GetLinkedInComments(c) == Reads(c, "linkedin")
GetLinkedInAccounts(c) == Reads(c, "linkedin")
GetLinkedInPostMetrics(c) == Reads(c, "linkedin")
GetLinkedInAccountMetrics(c) == Reads(c, "linkedin")
GetLinkedInProfile(c) == Reads(c, "linkedin")

(* Each organisation would be inserted without its tenant, and is refused. *)
GetUserOrganizations(c) == Reads(c, "linkedin")

(* The job asks for the metrics of a post with the id of an organisation,  *)
(* by which no account is found.                                           *)
CollectLinkedInMetrics(c) == Throws(c, "linkedin")

LinkedInPost(c, kind) ==
  Opens(c, "linkedin", [NoCall EXCEPT !.kind = kind, !.step = "store"])

UploadLinkedInMediaItems(c) ==
  /\ At(c, "linkedin", "store")
  /\ Moves(c, IF call[c].kind = "text" THEN "publish" ELSE "attach")

(* Every medium is registered, fetched from storage and uploaded. *)
UploadLinkedInMedia(c) ==
  /\ At(c, "linkedin", "attach")
  /\ Grants(c)
  /\ Moves(c, "publish")

CreateLinkedInPost(c, x) ==
  /\ At(c, "linkedin", "publish")
  /\ Publishes(c, x, "live", "record")

(* As on Instagram: without a tenant the row is refused. *)
RecordLinkedInPost(c) ==
  /\ At(c, "linkedin", "record")
  /\ Ends(c, "failed")

LinkedInStep(c) ==
  \/ UploadLinkedInMediaItems(c) \/ UploadLinkedInMedia(c)
  \/ \E x \in Posts : CreateLinkedInPost(c, x)
  \/ RecordLinkedInPost(c)

LinkedInAsks(c) ==
  \/ GetLinkedInComments(c) \/ GetLinkedInAccounts(c) \/ GetLinkedInPostMetrics(c)
  \/ GetLinkedInAccountMetrics(c) \/ GetLinkedInProfile(c) \/ GetUserOrganizations(c)
  \/ CollectLinkedInMetrics(c)
  \/ \E kind \in {"text", "photo"} : LinkedInPost(c, kind)
=============================================================================
