--------------------------- MODULE TenantContext ----------------------------
(***************************************************************************)
(* TenantService keeps the tenant of the current request in one field.     *)
(* TenantMiddleware and wsAuthMiddleware set it; services and repositories *)
(* read it whenever they build a query, between the awaits of a request.   *)
(***************************************************************************)
EXTENDS Callers

VARIABLES
  tenantId,   \* the field
  request     \* the tenant of each open request, and those it has read

tenantVars == <<tenantId, request>>

NoRequest == [tenant |-> Null, read |-> {}]

TenantInit == tenantId = Null /\ request = [c \in Callers |-> NoRequest]

SetTenantId(t) == tenantId' = t

(* use: the header of the request, set before anything else runs.          *)
UseTenant(c, t) ==
  /\ request[c] = NoRequest
  /\ SetTenantId(t)
  /\ request' = [request EXCEPT ![c].tenant = t]

(* A request of an administrator may come without the header. *)
UseNoTenant == SetTenantId(Null) /\ UNCHANGED request

(* A socket connects; its later messages set nothing. *)
ConnectSocket(t) == SetTenantId(t) /\ UNCHANGED request

GetTenantId(c) ==
  /\ request[c].tenant # Null
  /\ request' = [request EXCEPT ![c].read = @ \cup {tenantId}]
  /\ UNCHANGED tenantId

RequestEnds(c) ==
  /\ request[c].tenant # Null
  /\ request' = [request EXCEPT ![c] = NoRequest]
  /\ UNCHANGED tenantId

TenantNext ==
  \/ \E c \in Callers : \/ \E t \in Tenants : UseTenant(c, t)
                        \/ GetTenantId(c) \/ RequestEnds(c)
  \/ \E t \in Tenants : ConnectSocket(t)
  \/ UseNoTenant

TenantSpec == TenantInit /\ [][TenantNext]_tenantVars

-----------------------------------------------------------------------------
(* Properties. *)

TenantTypeOK ==
  /\ tenantId \in Tenants \cup {Null}
  /\ request \in [Callers -> [tenant : Tenants \cup {Null}, read : SUBSET (Tenants \cup {Null})]]

(* facebook.repository.spec.ts, 'tenant isolation': the queries of a       *)
(* request are those of its tenant.                                        *)
TenantIsOwn == \A c \in Callers : request[c].read \subseteq {request[c].tenant}
=============================================================================
