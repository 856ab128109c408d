------------------------------ MODULE Services ------------------------------
(***************************************************************************)
(* The services around the core.  But for the tenant, which the pages read *)
(* and others set, they share nothing but the callers, so that a behaviour *)
(* is one of a single part: the part is chosen first.                      *)
(***************************************************************************)
EXTENDS PlatformAuth, FacebookPages, MediaStorage, TenantContext, UserSync, RateLimit

Parts == {"auth", "pages", "media", "tenant", "sync", "rate"}

VARIABLE part   \* the part that runs; not in the code

servicesVars == <<part, authVars, pageVars, mediaVars, tenantVars, syncVars, rateVars>>

ServicesInit ==
  /\ part \in Parts
  /\ AuthInit /\ PagesInit /\ MediaInit /\ TenantInit /\ SyncInit /\ RateInit

ServicesNext ==
  /\ UNCHANGED part
  /\ \/ part = "auth" /\ AuthNext
        /\ UNCHANGED <<pageVars, mediaVars, tenantVars, syncVars, rateVars>>
     \/ part = "pages" /\ PagesNext
        /\ UNCHANGED <<authVars, mediaVars, syncVars, rateVars>>
     \/ part = "media" /\ MediaNext
        /\ UNCHANGED <<authVars, pageVars, tenantVars, syncVars, rateVars>>
     \/ part = "tenant" /\ TenantNext
        /\ UNCHANGED <<authVars, pageVars, mediaVars, syncVars, rateVars>>
     \/ part = "sync" /\ SyncNext
        /\ UNCHANGED <<authVars, pageVars, mediaVars, tenantVars, rateVars>>
     \/ part = "rate" /\ RateNext
        /\ UNCHANGED <<authVars, pageVars, mediaVars, tenantVars, syncVars>>

ServicesSpec == ServicesInit /\ [][ServicesNext]_servicesVars

(* The type invariants of the parts. *)
ServicesTypeOK ==
  /\ part \in Parts
  /\ AuthTypeOK /\ PagesTypeOK /\ MediaTypeOK /\ TenantTypeOK /\ SyncTypeOK /\ RateTypeOK
=============================================================================
