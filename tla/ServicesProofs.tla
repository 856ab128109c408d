--------------------------- MODULE ServicesProofs ---------------------------
(***************************************************************************)
(* The services around the core, part by part: every step of Services is   *)
(* one of each part, or leaves the part alone, so that an invariant of a   *)
(* part is one of the whole.                                               *)
(***************************************************************************)
EXTENDS Services, FiniteSetTheorems, TLAPS

LEMMA PartSteps ==
  [ServicesNext]_servicesVars =>
    /\ [AuthNext]_authVars /\ [PagesNext]_pageVars /\ [MediaNext]_mediaVars
    /\ [TenantNext]_tenantVars /\ [SyncNext]_syncVars /\ [RateNext]_rateVars
    /\ UNCHANGED part
<1>1. PagesNext => [TenantNext]_tenantVars
  BY DEF PagesNext, OthersSetTenant, TenantNext
<1> QED
  BY <1>1 DEF ServicesNext, servicesVars

-----------------------------------------------------------------------------
(* The tenant field. *)

LEMMA TenantInitTyped == TenantInit => TenantTypeOK
  BY DEF TenantInit, TenantTypeOK, NoRequest

LEMMA TenantStepTyped == TenantTypeOK /\ [TenantNext]_tenantVars => TenantTypeOK'
<1> SUFFICES ASSUME TenantTypeOK, [TenantNext]_tenantVars PROVE TenantTypeOK'
  OBVIOUS
<1> USE DEF TenantTypeOK
<1>1. ASSUME NEW c \in Callers, NEW t \in Tenants, UseTenant(c, t) PROVE TenantTypeOK'
  BY <1>1 DEF UseTenant, SetTenantId
<1>2. ASSUME NEW t \in Tenants, ConnectSocket(t) PROVE TenantTypeOK'
  BY <1>2 DEF ConnectSocket, SetTenantId
<1>3. ASSUME NEW c \in Callers, GetTenantId(c) PROVE TenantTypeOK'
  BY <1>3 DEF GetTenantId
<1>4. ASSUME NEW c \in Callers, RequestEnds(c) PROVE TenantTypeOK'
  BY <1>4 DEF RequestEnds, NoRequest
<1>5. CASE UseNoTenant
  BY <1>5 DEF UseNoTenant, SetTenantId
<1>6. CASE UNCHANGED tenantVars
  BY <1>6 DEF tenantVars
<1> QED
  BY <1>1, <1>2, <1>3, <1>4, <1>5, <1>6 DEF TenantNext

-----------------------------------------------------------------------------
(* Rate limits.  A caller that was let through counts as if it had made    *)
(* its record.                                                             *)

RateInv == RateTypeOK /\ recorded + Cardinality(checked) < Limit + Cardinality(Callers)

LEMMA CheckedCount ==
  RateTypeOK => IsFiniteSet(checked) /\ Cardinality(checked) \in Nat
                /\ Cardinality(checked) <= Cardinality(Callers)
  BY RateAssumption, FS_Subset, FS_CardinalityType DEF RateTypeOK

LEMMA CallerCount == Cardinality(Callers) \in Nat \ {0}
  BY RateAssumption, FS_CardinalityType, FS_EmptySet

LEMMA RateInitSound == RateInit => RateInv
<1>1. Cardinality({}) = 0
  BY FS_EmptySet
<1> QED
  BY <1>1, CallerCount, RateAssumption DEF RateInit, RateInv, RateTypeOK

LEMMA RateStepSound == RateInv /\ [RateNext]_rateVars => RateInv'
<1> SUFFICES ASSUME RateInv, [RateNext]_rateVars PROVE RateInv'
  OBVIOUS
<1> USE RateAssumption
<1>1. /\ IsFiniteSet(checked) /\ Cardinality(checked) \in Nat
      /\ recorded \in Nat /\ direct \in 0 .. MaxDirect
      /\ recorded + Cardinality(checked) < Limit + Cardinality(Callers)
  BY CheckedCount DEF RateInv, RateTypeOK
<1>2. ASSUME NEW c \in Callers, CheckRateLimit(c) PROVE RateInv'
  <2>1. RateTypeOK'
    BY <1>2 DEF CheckRateLimit, RateInv, RateTypeOK
  <2>2. recorded' < Limit
    BY <1>1, <1>2 DEF CheckRateLimit
  <2>3. Cardinality(checked') \in Nat /\ Cardinality(checked') <= Cardinality(Callers)
    BY <2>1, FS_Subset, FS_CardinalityType DEF RateTypeOK
  <2> QED
    BY <2>1, <2>2, <2>3, CallerCount DEF RateInv, RateTypeOK
<1>3. ASSUME NEW c \in Callers, RecordRateLimitUsage(c) \/ RateCallFails(c) PROVE RateInv'
  <2>1. /\ c \in checked /\ checked' = checked \ {c} /\ direct' = direct
        /\ recorded' \in {recorded, recorded + 1}
    BY <1>3 DEF RecordRateLimitUsage, RateCallFails
  <2>2. Cardinality(checked') = Cardinality(checked) - 1
    BY <1>1, <2>1, FS_RemoveElement
  <2>3. RateTypeOK'
    BY <1>1, <2>1 DEF RateInv, RateTypeOK
  <2> QED
    BY <1>1, <2>1, <2>2, <2>3, CallerCount DEF RateInv
<1>4. CASE PostDirectly
  BY <1>1, <1>4, CallerCount DEF PostDirectly, RateInv, RateTypeOK
<1>5. CASE RecordAges
  BY <1>1, <1>5, CallerCount DEF RecordAges, RateInv, RateTypeOK
<1>6. CASE UNCHANGED rateVars
  BY <1>6 DEF rateVars, RateInv, RateTypeOK
<1> QED
  BY <1>2, <1>3, <1>4, <1>5, <1>6 DEF RateNext

(* The limits hold but for the calls under way: for any limit and any      *)
(* number of callers, the records exceed the limit by less than there are  *)
(* callers.                                                                *)
THEOREM LimitsHold == ServicesSpec => []RateIsBounded
<1>1. ServicesInit => RateInv
  BY RateInitSound DEF ServicesInit
<1>2. RateInv /\ [ServicesNext]_servicesVars => RateInv'
  BY RateStepSound, PartSteps
<1>3. RateInv => RateIsBounded
  BY CheckedCount, CallerCount, RateAssumption DEF RateInv, RateTypeOK, RateIsBounded
<1> QED
  BY <1>1, <1>2, <1>3, PTL DEF ServicesSpec

-----------------------------------------------------------------------------
(* Users and memberships. *)

JobRow == [step : {"idle", "user", "tenant", "membership"},
           member : Members \cup {Null}, tenant : Tenants \cup {Null},
           operation : Operations \cup {Null}, users : SUBSET Members, row : UserRow]

(* A job that is under way is about a user and a tenant that may be, and   *)
(* the tenants of the users are there.                                     *)
HeldJob(j) ==
  /\ j.step # "idle" => j.member \in Members
  /\ j.step \in {"tenant", "membership"} => j.tenant \in Tenants

SyncInv ==
  /\ SyncTypeOK
  /\ \A w \in Callers : HeldJob(job[w])
  /\ \A u \in Members : user[u].tenants \subseteq tenants

LEMMA NoJobType == NoJob \in JobRow /\ NoJob.step = "idle"
  BY DEF JobRow, NoJob, NoUser, UserRow

LEMMA SyncTyped ==
  SyncInv => /\ tenants \subseteq Tenants /\ late \subseteq Tenants
             /\ user \in [Members -> UserRow] /\ job \in [Callers -> JobRow]
  BY DEF SyncInv, SyncTypeOK, JobRow

LEMMA SyncInitSound == SyncInit => SyncInv
  BY NoJobType DEF SyncInit, SyncInv, SyncTypeOK, HeldJob, NoUser, UserRow, JobRow

(* What a worker saves of a membership: an active tenant that is no        *)
(* membership was none before, and other memberships are as before.        *)
LEMMA JoinedRow ==
  ASSUME NEW r \in UserRow, NEW t \in Tenants
  PROVE  /\ Joined(r, t) \in UserRow /\ ~Bare(Joined(r, t))
         /\ \A s \in Tenants \ {t} : s \in Joined(r, t).tenants <=> s \in r.tenants
  BY DEF Joined, Bare, UserRow

LEMMA LeftRow ==
  ASSUME NEW r \in UserRow, NEW t \in Tenants, NEW next \in Nexts(r, t)
  PROVE  /\ Left(r, t, next) \in UserRow
         /\ Bare(Left(r, t, next)) => Bare(r)
         /\ \A s \in Tenants \ {t} : s \in Left(r, t, next).tenants <=> s \in r.tenants
  BY DEF Left, Nexts, Bare, UserRow

(* With the user, the users of the tenant are saved: those that were there *)
(* when it was loaded.                                                     *)
LEMMA CascadedRows ==
  ASSUME SyncInv, NEW w \in Callers, NEW row \in UserRow, job[w].step = "membership",
         job[w].tenant \in row.tenants
  PROVE  LET j == job[w]  saved == Cascaded(j, row) IN
         /\ saved \in [Members -> UserRow]
         /\ \A v \in Members : LET own == IF v = j.member THEN row ELSE user[v] IN
              /\ saved[v].activeTenantId = own.activeTenantId
              /\ \A s \in Tenants \ {j.tenant} : s \in saved[v].tenants <=> s \in own.tenants
              /\ j.users = UsersOf(j.tenant) => saved[v].tenants = own.tenants
<1> PICK j : j = job[w]
  OBVIOUS
<1> PICK t : t = j.tenant
  OBVIOUS
<1>1. /\ j.member \in Members /\ t \in Tenants /\ j.users \subseteq Members
      /\ user \in [Members -> UserRow]
  BY SyncTyped DEF SyncInv, HeldJob, JobRow
<1>2. ASSUME NEW v \in Members
      PROVE  LET own == IF v = j.member THEN row ELSE user[v] IN
             /\ Cascaded(j, row)[v] \in UserRow
             /\ Cascaded(j, row)[v].activeTenantId = own.activeTenantId
             /\ \A s \in Tenants \ {t} : s \in Cascaded(j, row)[v].tenants <=> s \in own.tenants
             /\ j.users = UsersOf(t) => Cascaded(j, row)[v].tenants = own.tenants
  <2> PICK own : own = IF v = j.member THEN row ELSE user[v]
    OBVIOUS
  <2>1. own \in UserRow
    BY <1>1
  <2> PICK c : c = Cascaded(j, row)[v]
    OBVIOUS
  <2>2. c = IF v = j.member /\ t \notin user[v].tenants THEN own
            ELSE [own EXCEPT !.tenants = IF v \in j.users THEN @ \cup {t} ELSE @ \ {t}]
    BY <1>1 DEF Cascaded
  <2>3. /\ c \in UserRow /\ c.activeTenantId = own.activeTenantId
        /\ \A s \in Tenants \ {t} : s \in c.tenants <=> s \in own.tenants
    BY <1>1, <2>1, <2>2 DEF UserRow
  <2>4. ASSUME j.users = UsersOf(t) PROVE c.tenants = own.tenants
    <3>1. v \in j.users <=> t \in user[v].tenants
      BY <2>4 DEF UsersOf
    <3>2. v = j.member => t \in own.tenants
      OBVIOUS
    <3>3. v # j.member => own = user[v]
      OBVIOUS
    <3> QED
      BY <2>1, <2>2, <3>1, <3>2, <3>3 DEF UserRow
  <2> QED
    BY <2>3, <2>4
<1>3. Cascaded(j, row) = [v \in Members |-> Cascaded(j, row)[v]]
  BY DEF Cascaded
<1> QED
  BY <1>2, <1>3

(* The rows after a worker saved a membership.                             *)
LEMMA SavedRows ==
  ASSUME SyncInv, NEW w \in Callers, SaveMembership(w)
  PROVE  LET j == job[w] IN
         /\ j.step = "membership" /\ j.member \in Members /\ j.tenant \in Tenants
         /\ job' = [job EXCEPT ![w] = NoJob] /\ late' = late
         /\ user' \in [Members -> UserRow]
         /\ tenants \subseteq tenants' /\ tenants' \subseteq Tenants
         /\ \E row \in UserRow :
              /\ row.tenants \subseteq tenants'
              /\ Bare(row) => Bare(j.row)
              /\ \A s \in Tenants \ {j.tenant} : s \in row.tenants <=> s \in j.row.tenants
              /\ \A v \in Members : LET own == IF v = j.member THEN row ELSE user[v] IN
                   /\ user'[v].activeTenantId = own.activeTenantId
                   /\ \A s \in Tenants \ {j.tenant} : s \in user'[v].tenants <=> s \in own.tenants
                   /\ user'[v].tenants # own.tenants => Crossed(w) /\ j.tenant \in row.tenants
<1> PICK j : j = job[w]
  OBVIOUS
<1> DEFINE joins == j.operation # "REMOVE"
           cascades == joins /\ j.tenant \notin j.row.tenants
<1>1. /\ j.step = "membership" /\ job' = [job EXCEPT ![w] = NoJob] /\ late' = late
  BY DEF SaveMembership
<1>2. PICK row \in IF joins THEN {Joined(j.row, j.tenant)}
                   ELSE {Left(j.row, j.tenant, next) : next \in Nexts(j.row, j.tenant)} :
        /\ user' = IF cascades THEN Cascaded(j, row) ELSE [user EXCEPT ![j.member] = row]
        /\ tenants' = tenants \cup row.tenants
  BY DEF SaveMembership
<1>3. /\ j.member \in Members /\ j.tenant \in Tenants /\ j.row \in UserRow
      /\ user \in [Members -> UserRow] /\ tenants \subseteq Tenants
  BY <1>1, SyncTyped DEF SyncInv, HeldJob, JobRow
<1>4. /\ row \in UserRow /\ (Bare(row) => Bare(j.row))
      /\ \A s \in Tenants \ {j.tenant} : s \in row.tenants <=> s \in j.row.tenants
      /\ joins => j.tenant \in row.tenants
  <2>1. CASE joins
    <3>1. row = Joined(j.row, j.tenant)
      BY <1>2, <2>1
    <3> QED
      BY <1>3, <3>1, JoinedRow DEF Joined
  <2>2. CASE ~joins
    <3>1. PICK next \in Nexts(j.row, j.tenant) : row = Left(j.row, j.tenant, next)
      BY <1>2, <2>2
    <3> QED
      BY <1>3, <2>2, <3>1, LeftRow
  <2> QED
    BY <2>1, <2>2
<1>5. /\ user' \in [Members -> UserRow]
      /\ \A v \in Members : LET own == IF v = j.member THEN row ELSE user[v] IN
           /\ user'[v].activeTenantId = own.activeTenantId
           /\ \A s \in Tenants \ {j.tenant} : s \in user'[v].tenants <=> s \in own.tenants
           /\ user'[v].tenants # own.tenants => Crossed(w) /\ j.tenant \in row.tenants
  <2>1. CASE cascades
    <3>1. user' = Cascaded(j, row) /\ j.operation # "REMOVE" /\ j.tenant \in row.tenants
      BY <1>2, <1>4, <2>1
    <3>2. j.users # UsersOf(j.tenant) => Crossed(w)
      BY <1>1, <3>1 DEF Crossed
    <3> QED
      BY <1>1, <1>4, <3>1, <3>2, CascadedRows
  <2>2. CASE ~cascades
    <3>1. user' = [user EXCEPT ![j.member] = row]
      BY <1>2, <2>2
    <3>2. user' \in [Members -> UserRow] /\ \A v \in Members : user'[v] = IF v = j.member THEN row ELSE user[v]
      BY <1>3, <1>4, <3>1
    <3> QED
      BY <3>2
  <2> QED
    BY <2>1, <2>2
<1>6. tenants \subseteq tenants' /\ tenants' \subseteq Tenants /\ row.tenants \subseteq tenants'
  BY <1>2, <1>3, <1>4 DEF UserRow
<1> QED
  BY <1>1, <1>3, <1>4, <1>5, <1>6

(* One user's columns are written, or the row goes.                        *)
LEMMA ColumnsWritten ==
  ASSUME SyncInv, NEW u \in Members, NEW row \in UserRow, row.tenants \subseteq user[u].tenants,
         user' = [user EXCEPT ![u] = row], UNCHANGED <<tenants, late>>,
         NEW w \in Callers, job' \in {job, [job EXCEPT ![w] = NoJob]}
  PROVE  SyncInv'
<1>1. user' \in [Members -> UserRow] /\ job' \in [Callers -> JobRow]
  BY SyncTyped, NoJobType
<1>2. \A v \in Members : user'[v].tenants \subseteq tenants'
  BY SyncTyped DEF SyncInv
<1>3. \A d \in Callers : job'[d] \in {job[d], NoJob}
  BY SyncTyped
<1>4. \A d \in Callers : HeldJob(job'[d])
  BY <1>3, NoJobType DEF SyncInv, HeldJob
<1> QED
  BY <1>1, <1>2, <1>4, SyncTyped DEF SyncInv, SyncTypeOK, JobRow

(* A worker goes on, and writes no row. *)
LEMMA JobMoves ==
  ASSUME SyncInv, NEW w \in Callers, NEW j \in JobRow, HeldJob(j), job' = [job EXCEPT ![w] = j],
         UNCHANGED <<tenants, user, late>>
  PROVE  SyncInv'
<1>1. job' \in [Callers -> JobRow] /\ \A d \in Callers : job'[d] = IF d = w THEN j ELSE job[d]
  BY SyncTyped
<1> QED
  BY <1>1 DEF SyncInv, SyncTypeOK, JobRow

LEMMA ColumnsType ==
  ASSUME SyncInv, NEW u \in Members
  PROVE  Columns(u) \in UserRow
  BY SyncTyped DEF Columns, UserRow

LEMMA SyncStepSound == SyncInv /\ [SyncNext]_syncVars => SyncInv'
<1> SUFFICES ASSUME SyncInv, [SyncNext]_syncVars PROVE SyncInv'
  OBVIOUS
<1> USE SyncTyped
<1>1. ASSUME NEW w \in Callers, NEW u \in Members, NEW t \in Tenants \cup {Null}, CreateUser(w, u, t)
      PROVE  SyncInv'
  <2> PICK row : row = [user[u] EXCEPT !.exists = TRUE, !.activeTenantId = t]
    OBVIOUS
  <2>1. row \in UserRow /\ row.tenants = user[u].tenants
    BY DEF UserRow
  <2>2. user' = [user EXCEPT ![u] = row] /\ UNCHANGED <<tenants, late>> /\ job' = job
    BY <1>1 DEF CreateUser
  <2> QED
    BY <2>1, <2>2, ColumnsWritten
<1>2. ASSUME NEW w \in Callers, NEW t \in Tenants \cup {Null}, UpdateUser(w, t) PROVE SyncInv'
  <2> PICK u : u = job[w].member
    OBVIOUS
  <2> PICK a : a = IF job[w].row.exists THEN job[w].row.activeTenantId ELSE t
    OBVIOUS
  <2> PICK row : row = [user[u] EXCEPT !.exists = TRUE, !.activeTenantId = a]
    OBVIOUS
  <2>1. u \in Members /\ a \in Tenants \cup {Null}
    BY <1>2 DEF UpdateUser, SyncInv, HeldJob, JobRow, UserRow
  <2>2. row \in UserRow /\ row.tenants = user[u].tenants
    BY <2>1 DEF UserRow
  <2>3. user' = [user EXCEPT ![u] = row] /\ UNCHANGED <<tenants, late>>
        /\ job' = [job EXCEPT ![w] = NoJob]
    BY <1>2 DEF UpdateUser
  <2> QED
    BY <2>1, <2>2, <2>3, ColumnsWritten
<1>3. ASSUME NEW w \in Callers, NEW u \in Members, DeleteUser(w, u) PROVE SyncInv'
  <2>1. NoUser \in UserRow /\ NoUser.tenants = {}
    BY DEF NoUser, UserRow
  <2> QED
    BY <1>3, <2>1, ColumnsWritten DEF DeleteUser
<1>4. ASSUME NEW w \in Callers, SaveMembership(w) PROVE SyncInv'
  <2>1. /\ job' = [job EXCEPT ![w] = NoJob] /\ late' = late
        /\ user' \in [Members -> UserRow] /\ tenants \subseteq tenants' /\ tenants' \subseteq Tenants
        /\ job[w].member \in Members
    BY <1>4, SavedRows
  <2>2. PICK row \in UserRow :
          /\ row.tenants \subseteq tenants'
          /\ \A v \in Members : LET own == IF v = job[w].member THEN row ELSE user[v] IN
               /\ \A s \in Tenants \ {job[w].tenant} : s \in user'[v].tenants <=> s \in own.tenants
               /\ user'[v].tenants # own.tenants => job[w].tenant \in row.tenants
    BY <1>4, SavedRows
  <2>3. ASSUME NEW v \in Members PROVE user'[v].tenants \subseteq tenants'
    <3>1. user'[v].tenants \subseteq Tenants /\ user[v].tenants \subseteq tenants
      BY <2>1 DEF SyncInv, UserRow
    <3> PICK own : own = IF v = job[w].member THEN row ELSE user[v]
      OBVIOUS
    <3>2. own.tenants \subseteq tenants'
      BY <2>1, <2>2, <3>1
    <3>3. /\ \A s \in Tenants \ {job[w].tenant} : s \in user'[v].tenants <=> s \in own.tenants
          /\ user'[v].tenants # own.tenants => job[w].tenant \in tenants'
      BY <2>2
    <3> QED
      BY <3>1, <3>2, <3>3
  <2>4. job' \in [Callers -> JobRow] /\ \A d \in Callers : HeldJob(job'[d])
    BY <2>1, NoJobType DEF SyncInv, HeldJob
  <2> QED
    BY <2>1, <2>3, <2>4 DEF SyncInv, SyncTypeOK, JobRow
<1>5. ASSUME NEW w \in Callers, NEW u \in Members, FindUser(w, u) PROVE SyncInv'
  <2> PICK j : j = [NoJob EXCEPT !.step = "user", !.member = u, !.row = Columns(u)]
    OBVIOUS
  <2>1. j \in JobRow /\ HeldJob(j)
    BY ColumnsType, NoJobType DEF JobRow, HeldJob
  <2> QED
    BY <1>5, <2>1, JobMoves DEF FindUser
<1>6. ASSUME NEW w \in Callers, NEW op \in Operations, NEW u \in Members, NEW t \in Tenants,
             LoadTenant(w, op, u, t)
      PROVE  SyncInv'
  <2> PICK j : j = [NoJob EXCEPT !.step = "tenant", !.member = u, !.tenant = t,
                                 !.operation = op, !.users = UsersOf(t)]
    OBVIOUS
  <2>1. j \in JobRow /\ HeldJob(j)
    BY NoJobType DEF JobRow, HeldJob, UsersOf
  <2> QED
    BY <1>6, <2>1, JobMoves DEF LoadTenant
<1>7. ASSUME NEW w \in Callers, LoadMember(w) PROVE SyncInv'
  <2> PICK j : j = [job[w] EXCEPT !.step = "membership", !.row = user[job[w].member]]
    OBVIOUS
  <2>1. job[w].step = "tenant" /\ job' = [job EXCEPT ![w] = j] /\ UNCHANGED <<tenants, user, late>>
    BY <1>7 DEF LoadMember
  <2>2. job[w].member \in Members /\ job[w].tenant \in Tenants
    BY <2>1 DEF SyncInv, HeldJob
  <2>3. j \in JobRow /\ HeldJob(j)
    BY <2>2 DEF JobRow, HeldJob
  <2> QED
    BY <2>1, <2>3, JobMoves
<1>8. ASSUME NEW w \in Callers, JobFails(w) PROVE SyncInv'
  <2>1. HeldJob(NoJob)
    BY NoJobType DEF HeldJob
  <2> QED
    BY <1>8, <2>1, NoJobType, JobMoves DEF JobFails
<1>9. ASSUME NEW w \in Callers, NEW t \in Tenants,
             CreateTenant(w, t) \/ UpdateTenant(w, t) \/ DeleteTenant(w, t)
      PROVE  SyncInv'
  BY <1>9 DEF CreateTenant, UpdateTenant, DeleteTenant, SyncInv, SyncTypeOK
<1>10. ASSUME NEW t \in Tenants, CreateTenantLate(t) PROVE SyncInv'
  BY <1>10 DEF CreateTenantLate, SyncInv, SyncTypeOK
<1>11. CASE UNCHANGED syncVars
  BY <1>11 DEF syncVars, SyncInv, SyncTypeOK
<1> QED
  BY <1>1, <1>2, <1>3, <1>4, <1>5, <1>6, <1>7, <1>8, <1>9, <1>10, <1>11 DEF SyncNext

(* What the events rest on: a job under way is about a user and a tenant   *)
(* that may be, and the tenants of the users are there.                    *)
THEOREM SyncIsSound == ServicesSpec => []SyncInv
<1>1. ServicesInit => SyncInv
  BY SyncInitSound DEF ServicesInit
<1>2. SyncInv /\ [ServicesNext]_servicesVars => SyncInv'
  BY SyncStepSound, PartSteps
<1> QED
  BY <1>1, <1>2, PTL DEF ServicesSpec

(* The steps that write users.                                             *)
LEMMA UserSteps ==
  ASSUME SyncInv, [SyncNext]_syncVars
  PROVE  \/ user' = user
         \/ \E w \in Callers :
              \/ \E u \in Members, t \in Tenants \cup {Null} : CreateUser(w, u, t)
              \/ \E t \in Tenants \cup {Null} : UpdateUser(w, t)
              \/ \E u \in Members : DeleteUser(w, u)
              \/ SaveMembership(w)
  BY DEF SyncNext, syncVars, FindUser, CreateTenant, UpdateTenant, DeleteTenant, LoadTenant,
     LoadMember, JobFails, CreateTenantLate

LEMMA ActiveStep ==
  ASSUME SyncInv, [SyncNext]_syncVars, NEW u \in Members, Bare(user'[u]), ~Bare(user[u])
  PROVE  \E w \in Callers :
           \/ \E t \in Tenants \ user[u].tenants : NamesTenant(w, u, t)
           \/ Saves(w) /\ job[w].member = u /\ Outdated(w)
           \/ Saves(w) /\ job[w].tenant = user'[u].activeTenantId /\ Crossed(w)
<1> DEFINE Excused(w) == \/ \E t \in Tenants \ user[u].tenants : NamesTenant(w, u, t)
                         \/ Saves(w) /\ job[w].member = u /\ Outdated(w)
                         \/ Saves(w) /\ job[w].tenant = user'[u].activeTenantId /\ Crossed(w)
<1> USE SyncTyped
<1>1. ASSUME NEW w \in Callers, NEW v \in Members, NEW t \in Tenants \cup {Null}, CreateUser(w, v, t)
      PROVE  Excused(w)
  <2>1. v = u /\ user'[u].tenants = user[u].tenants /\ user'[u].activeTenantId = t
    BY <1>1 DEF CreateUser, Bare, UserRow
  <2> QED
    BY <1>1, <2>1 DEF Bare, NamesTenant
<1>2. ASSUME NEW w \in Callers, NEW t \in Tenants \cup {Null}, UpdateUser(w, t) PROVE Excused(w)
  <2> PICK j : j = job[w]
    OBVIOUS
  <2>1. /\ j.step = "user" /\ j \in JobRow /\ j.member \in Members
        /\ job' = [job EXCEPT ![w] = NoJob]
        /\ user' = [user EXCEPT ![j.member].exists = TRUE, ![j.member].activeTenantId =
                                  IF j.row.exists THEN j.row.activeTenantId ELSE t]
    BY <1>2 DEF UpdateUser, SyncInv, HeldJob
  <2>2. /\ j.member = u /\ user'[u].tenants = user[u].tenants
        /\ user'[u].activeTenantId = IF j.row.exists THEN j.row.activeTenantId ELSE t
    BY <2>1 DEF Bare, UserRow
  <2>3. CASE j.row.exists
    <3>1. j.row.activeTenantId # user[u].activeTenantId
      BY <2>2, <2>3 DEF Bare
    <3>2. Columns(u).activeTenantId = user[u].activeTenantId
      BY DEF Columns, UserRow
    <3>3. Outdated(w)
      BY <2>1, <2>2, <3>1, <3>2 DEF Outdated
    <3> QED
      BY <2>1, <2>2, <3>3 DEF Saves
  <2>4. CASE ~j.row.exists
    BY <1>2, <2>2, <2>4 DEF Bare, NamesTenant
  <2> QED
    BY <2>3, <2>4
<1>3. ASSUME NEW w \in Callers, NEW v \in Members, DeleteUser(w, v) PROVE FALSE
  BY <1>3 DEF DeleteUser, Bare, NoUser, UserRow
<1>4. ASSUME NEW w \in Callers, SaveMembership(w) PROVE Excused(w)
  <2> PICK j : j = job[w]
    OBVIOUS
  <2>1. j.step = "membership" /\ j.tenant \in Tenants /\ job' = [job EXCEPT ![w] = NoJob]
        /\ user' \in [Members -> UserRow]
    BY <1>4, SavedRows
  <2>2. PICK row \in UserRow :
          /\ Bare(row) => Bare(j.row)
          /\ \A v \in Members : LET own == IF v = j.member THEN row ELSE user[v] IN
               /\ user'[v].activeTenantId = own.activeTenantId
               /\ \A s \in Tenants \ {j.tenant} : s \in user'[v].tenants <=> s \in own.tenants
               /\ user'[v].tenants # own.tenants => Crossed(w)
    BY <1>4, SavedRows
  <2> PICK own : own = IF u = j.member THEN row ELSE user[u]
    OBVIOUS
  <2>3. /\ user'[u].activeTenantId = own.activeTenantId
        /\ \A s \in Tenants \ {j.tenant} : s \in user'[u].tenants <=> s \in own.tenants
        /\ user'[u].tenants # own.tenants => Crossed(w)
    BY <2>2
  <2>4. Saves(w)
    BY <2>1 DEF Saves
  <2>5. CASE Bare(own)
    <3>1. u = j.member /\ Bare(j.row)
      BY <2>2, <2>5
    <3>2. Outdated(w)
      BY <2>1, <3>1 DEF Outdated
    <3> QED
      BY <2>4, <3>1, <3>2
  <2>6. CASE ~Bare(own)
    <3>1. own \in UserRow
      OBVIOUS
    <3>2. Crossed(w) /\ user'[u].activeTenantId = j.tenant
      BY <2>1, <2>3, <2>6, <3>1 DEF Bare, UserRow
    <3> QED
      BY <2>4, <3>2
  <2> QED
    BY <2>5, <2>6
<1> QED
  BY <1>1, <1>2, <1>3, <1>4, UserSteps

(* However late, often or in whatever order the events come, for any       *)
(* number of workers, users and tenants: a user's active tenant does not   *)
(* cease to be one of the user's by a save, unless the save restores what  *)
(* somebody else has changed; or an event names another tenant.            *)
THEOREM ActiveStays == ServicesSpec => ActiveStaysMember
<1>1. SyncInv /\ [ServicesNext]_servicesVars =>
        [\A u \in Members : Bare(user'[u]) /\ ~Bare(user[u]) =>
           \E w \in Callers :
             \/ \E t \in Tenants \ user[u].tenants : NamesTenant(w, u, t)
             \/ Saves(w) /\ job[w].member = u /\ Outdated(w)
             \/ Saves(w) /\ job[w].tenant = user'[u].activeTenantId /\ Crossed(w)]_syncVars
  BY ActiveStep, PartSteps
<1> QED
  BY <1>1, SyncIsSound, PTL DEF ServicesSpec, ActiveStaysMember

LEMMA MembershipStep ==
  ASSUME SyncInv, [SyncNext]_syncVars, NEW u \in Members, NEW t \in Tenants,
         user[u].exists, user'[u].exists, (t \in user[u].tenants) # (t \in user'[u].tenants)
  PROVE  \E w \in Callers :
           /\ Saves(w)
           /\ \/ job[w].member = u /\ (job[w].tenant = t \/ Outdated(w))
              \/ job[w].tenant = t /\ Crossed(w)
<1> USE SyncTyped
<1>1. ASSUME NEW w \in Callers, NEW v \in Members, NEW s \in Tenants \cup {Null}, CreateUser(w, v, s)
      PROVE  FALSE
  BY <1>1 DEF CreateUser, UserRow
<1>2. ASSUME NEW w \in Callers, NEW s \in Tenants \cup {Null}, UpdateUser(w, s) PROVE FALSE
  BY <1>2 DEF UpdateUser, UserRow
<1>3. ASSUME NEW w \in Callers, NEW v \in Members, DeleteUser(w, v) PROVE FALSE
  BY <1>3 DEF DeleteUser, NoUser, UserRow
<1>4. ASSUME NEW w \in Callers, SaveMembership(w)
      PROVE  /\ Saves(w)
             /\ \/ job[w].member = u /\ (job[w].tenant = t \/ Outdated(w))
                \/ job[w].tenant = t /\ Crossed(w)
  <2> PICK j : j = job[w]
    OBVIOUS
  <2>1. j.step = "membership" /\ j.tenant \in Tenants /\ job' = [job EXCEPT ![w] = NoJob]
    BY <1>4, SavedRows
  <2>2. PICK row \in UserRow :
          /\ \A s \in Tenants \ {j.tenant} : s \in row.tenants <=> s \in j.row.tenants
          /\ \A v \in Members : LET own == IF v = j.member THEN row ELSE user[v] IN
               /\ \A s \in Tenants \ {j.tenant} : s \in user'[v].tenants <=> s \in own.tenants
               /\ user'[v].tenants # own.tenants => Crossed(w)
    BY <1>4, SavedRows
  <2> PICK own : own = IF u = j.member THEN row ELSE user[u]
    OBVIOUS
  <2>3. /\ \A s \in Tenants \ {j.tenant} : s \in user'[u].tenants <=> s \in own.tenants
        /\ user'[u].tenants # own.tenants => Crossed(w)
    BY <2>2
  <2>4. Saves(w)
    BY <2>1 DEF Saves
  <2>5. CASE u # j.member
    BY <2>3, <2>4, <2>5
  <2>6. CASE u = j.member /\ t # j.tenant
    <3>1. t \in user'[u].tenants <=> t \in j.row.tenants
      BY <2>2, <2>3, <2>6
    <3>2. j.row # user[u]
      BY <3>1
    <3>3. Outdated(w)
      BY <2>1, <2>6, <3>2 DEF Outdated
    <3> QED
      BY <2>4, <2>6, <3>3
  <2>7. CASE u = j.member /\ t = j.tenant
    BY <2>4, <2>7
  <2> QED
    BY <2>5, <2>6, <2>7
<1> QED
  BY <1>1, <1>2, <1>3, <1>4, UserSteps

(* An event about one user and one tenant leaves the memberships of others *)
(* and in others alone, for any number of them, unless what its worker     *)
(* saves has changed under it.                                             *)
THEOREM MembershipsAreKept == ServicesSpec => MembershipsStand
<1>1. SyncInv /\ [ServicesNext]_servicesVars =>
        [\A u \in Members, t \in Tenants :
           /\ user[u].exists /\ user'[u].exists
           /\ (t \in user[u].tenants) # (t \in user'[u].tenants)
           => \E w \in Callers :
                /\ Saves(w)
                /\ \/ job[w].member = u /\ (job[w].tenant = t \/ Outdated(w))
                   \/ job[w].tenant = t /\ Crossed(w)]_syncVars
  BY MembershipStep, PartSteps
<1> QED
  BY <1>1, SyncIsSound, PTL DEF ServicesSpec, MembershipsStand

-----------------------------------------------------------------------------
(* Authorisation: states. *)

Passing == {"clear", "unlink"}
Busy == {"clear", "unlink", "lookup", "exchange", "cache", "account", "insert"}

(* Callers are busy with states that were issued, and with those alone     *)
(* that were offered, once they are past the file.                         *)
HeldState(c) ==
  /\ AuthAt(c, "file") => StateOf(c) \in AuthStates \ offered /\ issued[StateOf(c)] # Null
  /\ auth[c].step \in Busy => StateOf(c) \in offered
  /\ AuthAt(c, "insert") => PlatformOf(c) = "tiktok"

(* As long as nobody raced for it, a state lets one callback pass: while   *)
(* one is taking it out nobody else is, nobody has passed, and the cache   *)
(* has let go of it first; after that it is nowhere.                       *)
OneTime(s) ==
  \/ s \in raced
  \/ /\ admitted[s] = 0
     /\ \A c, d \in Callers : auth[c].step \in Passing /\ StateOf(c) = s
                               /\ auth[d].step \in Passing /\ StateOf(d) = s => c = d
     /\ \A c \in Callers : AuthAt(c, "unlink") /\ StateOf(c) = s => s \notin inCache
  \/ /\ admitted[s] = 1
     /\ s \notin inCache \cup inFile
     /\ \A c \in Callers : auth[c].step \in Passing => StateOf(c) # s

(* A state that was not offered has let nobody pass. *)
Offered(s) ==
  /\ s \in offered => issued[s] # Null
  /\ s \notin offered => admitted[s] = 0

(* While a caller is about to insert a row for an owner nobody else is,    *)
(* and there is none.                                                      *)
OneRow(o) ==
  \/ o \in raced
  \/ /\ rows["tiktok"][o] = 0
     /\ \A c, d \in Callers : AuthAt(c, "insert") /\ OwnerOf(c) = o
                               /\ AuthAt(d, "insert") /\ OwnerOf(d) = o => c = d
  \/ rows["tiktok"][o] = 1 /\ \A c \in Callers : AuthAt(c, "insert") => OwnerOf(c) # o

AuthInv ==
  /\ AuthTypeOK
  /\ \A c \in Callers : HeldState(c)
  /\ \A c, d \in Callers : AuthAt(c, "file") /\ AuthAt(d, "file") /\ StateOf(c) = StateOf(d) => c = d
  /\ \A s \in AuthStates : OneTime(s) /\ Offered(s)
  /\ \A o \in Owners : OneRow(o)

LEMMA AuthInvGives == AuthInv => StateAdmitsOnce /\ OneTikTokAccount
<1> SUFFICES ASSUME AuthInv PROVE StateAdmitsOnce /\ OneTikTokAccount
  OBVIOUS
<1>1. ASSUME NEW s \in AuthStates, admitted[s] > 1 PROVE s \in raced
  BY <1>1 DEF AuthInv, OneTime
<1>2. ASSUME NEW o \in Owners, rows["tiktok"][o] > 1 PROVE o \in raced
  BY <1>2 DEF AuthInv, OneRow
<1> QED
  BY <1>1, <1>2 DEF StateAdmitsOnce, OneTikTokAccount

LEMMA AuthInitSound == AuthInit => AuthInv
<1> SUFFICES ASSUME AuthInit PROVE AuthInv
  OBVIOUS
<1> USE AuthAssumption DEF AuthInit
<1>1. NoAuth \in AuthRow /\ NoAuth.step = "idle"
  BY DEF NoAuth, AuthRow, AuthSteps
<1>2. AuthTypeOK
  BY <1>1 DEF AuthTypeOK
<1>3. \A c \in Callers : auth[c].step = "idle"
  BY <1>1
<1>4. \A c \in Callers : HeldState(c)
  BY <1>3 DEF HeldState, AuthAt, Busy
<1>5. \A s \in AuthStates : OneTime(s) /\ Offered(s)
  BY <1>3 DEF OneTime, Offered, AuthAt, Passing
<1>6. \A o \in Owners : OneRow(o)
  BY <1>3 DEF OneRow, AuthAt, AuthPlatforms
<1> QED
  BY <1>2, <1>3, <1>4, <1>5, <1>6 DEF AuthInv, AuthAt

(* A caller goes on; the states and rows are as they were, or better.      *)
LEMMA CallerGoesOn ==
  ASSUME AuthInv, NEW c \in Callers, NEW k \in AuthRow, auth' = [auth EXCEPT ![c] = k],
         UNCHANGED <<issued, admitted, rows, offered>>, raced \subseteq raced',
         raced' \subseteq AuthStates \cup Owners,
         inCache' \subseteq inCache, inFile' \subseteq inFile,
         exchanged' \subseteq AuthStates, tokenCached' \subseteq AuthStates,
         k.step \notin {"file", "insert"},
         k.step \in Busy => auth[c].step \in Busy /\ k.state = auth[c].state,
         k.step \in Passing => auth[c].step \in Passing,
         k.step = "unlink" => k.state \notin inCache'
  PROVE  AuthInv'
<1>1. AuthTypeOK'
  BY DEF AuthInv, AuthTypeOK
<1>2. \A d \in Callers : auth'[d] = IF d = c THEN k ELSE auth[d]
  BY DEF AuthInv, AuthTypeOK
<1>3. ASSUME NEW d \in Callers PROVE HeldState(d)'
  <2>1. HeldState(d)
    BY DEF AuthInv
  <2> QED
    BY <1>2, <2>1 DEF HeldState, AuthAt, StateOf, PlatformOf, Busy
<1>4. \A d, e \in Callers : auth'[d].step = "file" /\ auth'[e].step = "file"
                            /\ auth'[d].state = auth'[e].state => d = e
  BY <1>2 DEF AuthInv, AuthAt, StateOf
<1>5. ASSUME NEW s \in AuthStates PROVE OneTime(s)' /\ Offered(s)'
  <2>1. OneTime(s) /\ Offered(s)
    BY DEF AuthInv
  <2>2. \A d \in Callers : auth'[d].step \in Passing =>
          auth[d].step \in Passing /\ auth'[d].state = auth[d].state
    BY <1>2 DEF Passing, Busy
  <2>3. \A d \in Callers : auth'[d].step = "unlink" =>
          \/ auth[d].step = "unlink" /\ auth'[d].state = auth[d].state
          \/ auth'[d].state \notin inCache'
    BY <1>2
  <2>4. OneTime(s)'
    BY <2>1, <2>2, <2>3 DEF OneTime, AuthAt, StateOf
  <2> QED
    BY <2>1, <2>4 DEF Offered
<1>6. ASSUME NEW o \in Owners PROVE OneRow(o)'
  <2>1. OneRow(o)
    BY DEF AuthInv
  <2>2. \A d \in Callers : auth'[d].step = "insert" => auth'[d] = auth[d]
    BY <1>2
  <2> QED
    BY <2>1, <2>2 DEF OneRow, AuthAt, OwnerOf, StateOf
<1> QED
  BY <1>1, <1>3, <1>4, <1>5, <1>6 DEF AuthInv, AuthAt, StateOf

LEMMA NoAuthRow == NoAuth \in AuthRow /\ NoAuth.step = "idle"
  BY DEF NoAuth, AuthRow, AuthSteps

(* The steps of a callback that only move it on. *)
LEMMA PlainStepSound ==
  ASSUME AuthInv, NEW c \in Callers,
         \/ DeleteStateFromCache(c) \/ LookUpTokens(c) \/ ExchangeToken(c) \/ SetToken(c)
         \/ RefreshTokenForPlatform(c) \/ UpdateAccountTokens(c) \/ AuthFails(c)
         \/ \E o \in Owners : RefreshToken(c, o)
  PROVE  AuthInv'
<1>1. /\ auth[c] \in AuthRow /\ auth \in [Callers -> AuthRow]
      /\ raced \subseteq AuthStates \cup Owners
      /\ exchanged \subseteq AuthStates /\ tokenCached \subseteq AuthStates
      /\ offered \subseteq AuthStates /\ inCache \subseteq AuthStates
  BY DEF AuthInv, AuthTypeOK
<1>2. auth[c].step \in Busy => auth[c].state \in AuthStates
  BY <1>1 DEF AuthInv, HeldState, StateOf
<1>3. ASSUME NEW step \in {"unlink", "exchange", "cache", "account"}, Turn(c, step),
             auth[c].step \in Busy, step = "unlink" => auth[c].step = "clear",
             UNCHANGED <<issued, admitted, rows, offered, raced, inFile>>,
             inCache' \subseteq inCache, step = "unlink" => auth[c].state \notin inCache',
             exchanged' \subseteq AuthStates, tokenCached' \subseteq AuthStates
      PROVE  AuthInv'
  <2> PICK k : k = [auth[c] EXCEPT !.step = step]
    OBVIOUS
  <2>1. k \in AuthRow /\ k.step = step /\ k.state = auth[c].state
    BY <1>1 DEF AuthRow, AuthSteps
  <2>2. auth' = [auth EXCEPT ![c] = k]
    BY <1>1, <1>3 DEF Turn
  <2> QED
    BY <1>1, <1>3, <2>1, <2>2, CallerGoesOn DEF Passing
<1>4. ASSUME NEW k \in AuthRow, k.step \in {"idle", "refresh", "update"},
             auth' = [auth EXCEPT ![c] = k],
             UNCHANGED <<issued, offered, inCache, inFile, admitted, exchanged, tokenCached, rows, raced>>
      PROVE  AuthInv'
  BY <1>1, <1>4, CallerGoesOn DEF Passing, Busy
<1>5. CASE DeleteStateFromCache(c)
  BY <1>1, <1>3, <1>5 DEF DeleteStateFromCache, AuthAt, StateOf, Busy
<1>6. CASE LookUpTokens(c)
  BY <1>1, <1>3, <1>6 DEF LookUpTokens, AuthAt, Busy
<1>7. CASE ExchangeToken(c)
  BY <1>1, <1>2, <1>3, <1>7 DEF ExchangeToken, AuthAt, StateOf, Busy
<1>8. CASE SetToken(c)
  BY <1>1, <1>2, <1>3, <1>8 DEF SetToken, AuthAt, StateOf, Busy
<1>9. CASE UpdateAccountTokens(c) \/ AuthFails(c)
  BY <1>4, <1>9, NoAuthRow DEF UpdateAccountTokens, AuthFails, Done
<1>10. ASSUME NEW o \in Owners, RefreshToken(c, o) PROVE AuthInv'
  <2> PICK k : k = [step |-> "refresh", state |-> Null]
    OBVIOUS
  <2>1. k \in AuthRow /\ k.step = "refresh"
    BY DEF AuthRow, AuthSteps
  <2> QED
    BY <1>4, <1>10, <2>1 DEF RefreshToken
<1>11. CASE RefreshTokenForPlatform(c)
  <2> PICK k : k = [auth[c] EXCEPT !.step = "update"]
    OBVIOUS
  <2>1. k \in AuthRow /\ k.step = "update"
    BY <1>1 DEF AuthRow, AuthSteps
  <2>2. auth' = [auth EXCEPT ![c] = k]
    BY <1>1, <1>11 DEF RefreshTokenForPlatform, Turn
  <2> QED
    BY <1>4, <1>11, <2>1, <2>2 DEF RefreshTokenForPlatform
<1> QED
  BY <1>5, <1>6, <1>7, <1>8, <1>9, <1>10, <1>11

LEMMA IssueSound ==
  ASSUME AuthInv, NEW c \in Callers, NEW s \in AuthStates, NEW p \in AuthPlatforms, NEW o \in Owners,
         GetAuthorizationUrl(c, s, p, o)
  PROVE  AuthInv'
<1> PICK k : k = [step |-> "file", state |-> s]
  OBVIOUS
<1> PICK i : i = [platform |-> p, owner |-> o]
  OBVIOUS
<1>1. /\ auth' = [auth EXCEPT ![c] = k] /\ issued[s] = Null
      /\ issued' = [issued EXCEPT ![s] = i] /\ inCache' = inCache \cup {s}
      /\ UNCHANGED <<offered, inFile, admitted, exchanged, tokenCached, rows, raced>>
  BY DEF GetAuthorizationUrl
<1>2. k \in AuthRow /\ k.step = "file" /\ k.state = s /\ i \in Authorisation /\ i # Null
  BY AuthAssumption DEF AuthRow, AuthSteps, Authorisation
<1>3. AuthTypeOK'
  BY <1>1, <1>2 DEF AuthInv, AuthTypeOK
<1>4. \A d \in Callers : auth'[d] = IF d = c THEN k ELSE auth[d]
  BY <1>1 DEF AuthInv, AuthTypeOK
<1>5. /\ issued'[s] = i
      /\ \A t \in AuthStates \ {s} : issued'[t] = issued[t]
  BY <1>1 DEF AuthInv, AuthTypeOK
<1>6. s \notin offered /\ admitted[s] = 0 /\ \A d \in Callers : auth[d].step \in Busy => auth[d].state # s
  BY <1>1 DEF AuthInv, Offered, HeldState, StateOf
<1>7. \A d \in Callers : auth'[d].step \in Busy => auth'[d] = auth[d] /\ auth[d].state \in offered
  BY <1>2, <1>4 DEF AuthInv, HeldState, Busy, StateOf
<1>8. ASSUME NEW d \in Callers PROVE HeldState(d)'
  <2>1. HeldState(d) /\ offered \subseteq AuthStates
    BY DEF AuthInv, AuthTypeOK
  <2>2. CASE d = c
    BY <1>1, <1>2, <1>4, <1>5, <1>6, <2>2 DEF HeldState, AuthAt, StateOf, PlatformOf, Busy
  <2>3. CASE d # c
    <3>1. auth'[d] = auth[d]
      BY <1>4, <2>3
    <3>2. AuthAt(d, "insert") => StateOf(d) \in AuthStates \ {s}
      BY <1>6, <2>1 DEF HeldState, AuthAt, StateOf, Busy
    <3> QED
      BY <1>1, <1>2, <1>5, <2>1, <3>1, <3>2 DEF HeldState, AuthAt, StateOf, PlatformOf
  <2> QED
    BY <2>2, <2>3
<1>9. ASSUME NEW d \in Callers, NEW e \in Callers, auth'[d].step = "file", auth'[e].step = "file",
             auth'[d].state = auth'[e].state
      PROVE  d = e
  <2>1. \A f \in Callers \ {c} : auth[f].step = "file" => auth[f].state # s
    BY <1>1 DEF AuthInv, HeldState, AuthAt, StateOf
  <2> QED
    BY <1>2, <1>4, <1>9, <2>1 DEF AuthInv, AuthAt, StateOf
<1>10. ASSUME NEW t \in AuthStates PROVE OneTime(t)' /\ Offered(t)'
  <2>1. OneTime(t) /\ Offered(t)
    BY DEF AuthInv
  <2>2. \A d \in Callers : auth'[d].step \in Passing => auth'[d] = auth[d] /\ auth[d].state # s
    BY <1>6, <1>7 DEF Passing, Busy
  <2>3. OneTime(t)'
    <3>1. CASE t = s
      BY <1>1, <1>6, <2>2, <3>1 DEF OneTime, AuthAt, StateOf, Passing
    <3>2. CASE t # s
      BY <1>1, <2>1, <2>2, <3>2 DEF OneTime, AuthAt, StateOf, Passing
    <3> QED
      BY <3>1, <3>2
  <2> QED
    BY <1>1, <1>2, <1>5, <1>6, <2>1, <2>3 DEF Offered
<1>11. ASSUME NEW v \in Owners PROVE OneRow(v)'
  <2>1. OneRow(v)
    BY DEF AuthInv
  <2>2. \A d \in Callers : auth'[d].step = "insert" =>
          auth'[d] = auth[d] /\ issued'[auth[d].state] = issued[auth[d].state]
    BY <1>5, <1>6, <1>7 DEF Busy, AuthInv, AuthTypeOK
  <2> QED
    BY <1>1, <2>1, <2>2 DEF OneRow, AuthAt, OwnerOf, StateOf
<1> QED
  BY <1>3, <1>8, <1>9, <1>10, <1>11 DEF AuthInv, AuthAt, StateOf

LEMMA StoreSound ==
  ASSUME AuthInv, NEW c \in Callers, NEW written \in BOOLEAN, StoreStateInFile(c, written)
  PROVE  AuthInv'
<1> PICK s : s = auth[c].state
  OBVIOUS
<1>1. /\ auth' = [auth EXCEPT ![c] = NoAuth] /\ auth[c].step = "file"
      /\ offered' = offered \cup {s} /\ inFile' \subseteq inFile \cup {s}
      /\ UNCHANGED <<issued, inCache, admitted, exchanged, tokenCached, rows, raced>>
  BY DEF StoreStateInFile, AuthAt, Done, StateOf
<1>2. s \in AuthStates \ offered /\ issued[s] # Null /\ admitted[s] = 0
  BY <1>1 DEF AuthInv, HeldState, Offered, AuthAt, StateOf
<1>3. AuthTypeOK'
  BY <1>1, <1>2, NoAuthRow DEF AuthInv, AuthTypeOK
<1>4. \A d \in Callers : auth'[d] = IF d = c THEN NoAuth ELSE auth[d]
  BY <1>1 DEF AuthInv, AuthTypeOK
<1>5. ASSUME NEW d \in Callers PROVE HeldState(d)'
  <2>1. HeldState(d)
    BY DEF AuthInv
  <2>2. CASE d = c
    BY <1>4, <2>2, NoAuthRow DEF HeldState, AuthAt, Busy
  <2>3. CASE d # c
    <3>1. auth'[d] = auth[d] /\ (auth[d].step = "file" => auth[d].state # s)
      BY <1>1, <1>4, <2>3 DEF AuthInv, AuthAt, StateOf
    <3> QED
      BY <1>1, <2>1, <3>1 DEF HeldState, AuthAt, StateOf, PlatformOf
  <2> QED
    BY <2>2, <2>3
<1>6. \A d, e \in Callers : auth'[d].step = "file" /\ auth'[e].step = "file"
                            /\ auth'[d].state = auth'[e].state => d = e
  BY <1>4, NoAuthRow DEF AuthInv, AuthAt, StateOf
<1>7. ASSUME NEW t \in AuthStates PROVE OneTime(t)' /\ Offered(t)'
  <2>1. OneTime(t) /\ Offered(t)
    BY DEF AuthInv
  <2>2. \A d \in Callers : auth'[d].step \in Passing => auth'[d] = auth[d] /\ auth[d].state \in offered
    BY <1>4, NoAuthRow DEF Passing, AuthInv, HeldState, Busy, StateOf
  <2>3. OneTime(t)'
    <3>1. CASE t = s
      BY <1>1, <1>2, <2>2, <3>1 DEF OneTime, AuthAt, StateOf, Passing
    <3>2. CASE t # s
      BY <1>1, <2>1, <2>2, <3>2 DEF OneTime, AuthAt, StateOf, Passing
    <3> QED
      BY <3>1, <3>2
  <2> QED
    BY <1>1, <1>2, <2>1, <2>3 DEF Offered
<1>8. ASSUME NEW o \in Owners PROVE OneRow(o)'
  <2>1. OneRow(o) /\ \A d \in Callers : auth'[d].step = "insert" => auth'[d] = auth[d]
    BY <1>4, NoAuthRow DEF AuthInv
  <2> QED
    BY <1>1, <2>1 DEF OneRow, AuthAt, OwnerOf, StateOf
<1> QED
  BY <1>3, <1>5, <1>6, <1>7, <1>8 DEF AuthInv, AuthAt, StateOf

LEMMA TakeSound ==
  ASSUME AuthInv, NEW c \in Callers, NEW s \in AuthStates, GetStoredState(c, s)
  PROVE  AuthInv'
<1> PICK k : k = [step |-> "clear", state |-> s]
  OBVIOUS
<1>1. /\ auth' = [auth EXCEPT ![c] = k] /\ auth[c].step = "idle"
      /\ s \in offered /\ s \in inCache \cup inFile
      /\ raced' = raced \cup {r \in {s} : \E d \in Callers : StateOf(d) = s /\ auth[d].step \in Passing}
      /\ UNCHANGED <<issued, offered, inCache, inFile, admitted, exchanged, tokenCached, rows>>
  BY DEF GetStoredState, AuthAt, Passing
<1>2. k \in AuthRow /\ k.step = "clear" /\ k.state = s
  BY DEF AuthRow, AuthSteps
<1>3. AuthTypeOK' /\ raced \subseteq raced'
  BY <1>1, <1>2 DEF AuthInv, AuthTypeOK
<1>4. \A d \in Callers : auth'[d] = IF d = c THEN k ELSE auth[d]
  BY <1>1 DEF AuthInv, AuthTypeOK
<1>5. ASSUME NEW d \in Callers PROVE HeldState(d)'
  <2>1. HeldState(d)
    BY DEF AuthInv
  <2> QED
    BY <1>1, <1>2, <1>4, <2>1 DEF HeldState, AuthAt, StateOf, PlatformOf
<1>6. \A d, e \in Callers : auth'[d].step = "file" /\ auth'[e].step = "file"
                            /\ auth'[d].state = auth'[e].state => d = e
  BY <1>2, <1>4 DEF AuthInv, AuthAt, StateOf
<1>7. ASSUME NEW t \in AuthStates PROVE OneTime(t)' /\ Offered(t)'
  <2>1. OneTime(t) /\ Offered(t)
    BY DEF AuthInv
  <2>2. CASE t # s
    <3>1. \A d \in Callers : auth'[d].step \in Passing /\ auth'[d].state = t => auth'[d] = auth[d]
      BY <1>2, <1>4, <2>2
    <3>2. \A d \in Callers : auth'[d].step = "unlink" => auth'[d] = auth[d]
      BY <1>2, <1>4
    <3>3. OneTime(t)'
      BY <1>1, <1>3, <2>1, <3>1, <3>2 DEF OneTime, AuthAt, StateOf
    <3> QED
      BY <1>1, <2>1, <3>3 DEF Offered
  <2>3. CASE t = s /\ \E d \in Callers : StateOf(d) = s /\ auth[d].step \in Passing
    BY <1>1, <2>1, <2>3 DEF OneTime, Offered
  <2>4. CASE t = s /\ \A d \in Callers : auth[d].step \in Passing => auth[d].state # s
    <3>1. t \in raced' \/ admitted[t] = 0
      BY <1>1, <1>3, <2>1, <2>4 DEF OneTime
    <3>2. \A d \in Callers : auth'[d].step \in Passing /\ auth'[d].state = s => d = c
      BY <1>4, <2>4
    <3>3. \A d \in Callers : auth'[d].step = "unlink" => auth'[d].state # s
      BY <1>2, <1>4, <2>4 DEF Passing
    <3>4. OneTime(t)'
      BY <1>1, <2>4, <3>1, <3>2, <3>3 DEF OneTime, AuthAt, StateOf
    <3> QED
      BY <1>1, <2>1, <3>4 DEF Offered
  <2> QED
    BY <2>2, <2>3, <2>4 DEF StateOf
<1>8. ASSUME NEW o \in Owners PROVE OneRow(o)'
  <2>1. OneRow(o) /\ \A d \in Callers : auth'[d].step = "insert" => auth'[d] = auth[d]
    BY <1>2, <1>4 DEF AuthInv
  <2> QED
    BY <1>1, <1>3, <2>1 DEF OneRow, AuthAt, OwnerOf, StateOf
<1> QED
  BY <1>3, <1>5, <1>6, <1>7, <1>8 DEF AuthInv, AuthAt, StateOf

LEMMA PassSound ==
  ASSUME AuthInv, NEW c \in Callers, RemoveStateFromFile(c) \/ RemoveStateFromFileFails(c)
  PROVE  AuthInv'
<1> PICK s : s = auth[c].state
  OBVIOUS
<1> PICK k : k = [auth[c] EXCEPT !.step = "lookup"]
  OBVIOUS
<1>1. /\ auth[c].step = "unlink" /\ auth' = [auth EXCEPT ![c].step = "lookup"]
      /\ admitted' = [admitted EXCEPT ![s] = IF @ < 2 THEN @ + 1 ELSE @]
      /\ \/ inFile' = inFile \ {s} /\ raced' = raced
         \/ inFile' = inFile /\ raced' = raced \cup {s}
      /\ UNCHANGED <<issued, offered, inCache, exchanged, tokenCached, rows>>
  BY DEF RemoveStateFromFile, RemoveStateFromFileFails, AuthAt, StateOf, Turn
<1>2. s \in AuthStates /\ s \in offered /\ auth[c] \in AuthRow
  BY <1>1 DEF AuthInv, AuthTypeOK, HeldState, StateOf, Busy
<1>3. k \in AuthRow /\ k.step = "lookup" /\ k.state = s /\ auth' = [auth EXCEPT ![c] = k]
  BY <1>1, <1>2 DEF AuthRow, AuthSteps, AuthInv, AuthTypeOK
<1>4. admitted[s] \in 0 .. 2 /\ admitted \in [AuthStates -> 0 .. 2]
  BY <1>2 DEF AuthInv, AuthTypeOK
<1>5. admitted' \in [AuthStates -> 0 .. 2] /\ (admitted[s] = 0 => admitted'[s] = 1)
      /\ \A t \in AuthStates \ {s} : admitted'[t] = admitted[t]
  BY <1>1, <1>2, <1>4
<1>6. AuthTypeOK' /\ raced \subseteq raced'
  BY <1>1, <1>2, <1>3, <1>5 DEF AuthInv, AuthTypeOK
<1>7. \A d \in Callers : auth'[d] = IF d = c THEN k ELSE auth[d]
  BY <1>3 DEF AuthInv, AuthTypeOK
<1>8. ASSUME NEW d \in Callers PROVE HeldState(d)'
  <2>1. HeldState(d)
    BY DEF AuthInv
  <2> QED
    BY <1>1, <1>2, <1>3, <1>7, <2>1 DEF HeldState, AuthAt, StateOf, PlatformOf
<1>9. \A d, e \in Callers : auth'[d].step = "file" /\ auth'[e].step = "file"
                            /\ auth'[d].state = auth'[e].state => d = e
  BY <1>3, <1>7 DEF AuthInv, AuthAt, StateOf
<1>10. \A d \in Callers : auth'[d].step \in Passing => d # c /\ auth'[d] = auth[d]
  BY <1>3, <1>7 DEF Passing
<1>11. ASSUME NEW t \in AuthStates PROVE OneTime(t)' /\ Offered(t)'
  <2>1. OneTime(t) /\ Offered(t)
    BY DEF AuthInv
  <2>2. CASE t # s
    <3>1. OneTime(t)'
      BY <1>1, <1>5, <1>6, <1>10, <2>1, <2>2 DEF OneTime, AuthAt, StateOf, Passing
    <3> QED
      BY <1>1, <1>5, <2>1, <2>2, <3>1 DEF Offered
  <2>3. CASE t = s /\ s \in raced'
    BY <1>1, <1>2, <2>1, <2>3 DEF OneTime, Offered
  <2>4. CASE t = s /\ s \notin raced'
    <3>1. inFile' = inFile \ {s} /\ s \notin raced
      BY <1>1, <2>4
    <3>2. auth[c].step \in Passing
      BY <1>1 DEF Passing
    <3>3. admitted[s] = 0
      BY <2>1, <2>4, <3>1, <3>2 DEF OneTime, StateOf
    <3>4. /\ \A d \in Callers : auth[d].step \in Passing /\ auth[d].state = s => d = c
          /\ s \notin inCache
      BY <1>1, <2>1, <2>4, <3>1, <3>2, <3>3 DEF OneTime, StateOf, AuthAt
    <3>5. OneTime(s)'
      BY <1>1, <1>5, <1>10, <3>1, <3>3, <3>4 DEF OneTime, StateOf
    <3> QED
      BY <1>1, <1>2, <2>1, <2>4, <3>5 DEF Offered
  <2> QED
    BY <2>2, <2>3, <2>4
<1>12. ASSUME NEW o \in Owners PROVE OneRow(o)'
  <2>1. OneRow(o) /\ \A d \in Callers : auth'[d].step = "insert" => auth'[d] = auth[d]
    BY <1>3, <1>7 DEF AuthInv
  <2> QED
    BY <1>1, <1>6, <2>1 DEF OneRow, AuthAt, OwnerOf, StateOf
<1> QED
  BY <1>6, <1>8, <1>9, <1>11, <1>12 DEF AuthInv, AuthAt, StateOf

(* The owner for whom a caller past the file works is one. *)
LEMMA CallerOwner ==
  ASSUME AuthInv, NEW c \in Callers, auth[c].step \in Busy
  PROVE  /\ auth[c] \in AuthRow /\ auth[c].state \in AuthStates
         /\ OwnerOf(c) \in Owners /\ PlatformOf(c) \in AuthPlatforms
<1>1. auth[c].state \in AuthStates /\ issued[auth[c].state] \in Authorisation /\ auth[c] \in AuthRow
  BY DEF AuthInv, AuthTypeOK, HeldState, Offered, StateOf
<1> QED
  BY <1>1 DEF OwnerOf, PlatformOf, StateOf, Authorisation

LEMMA FindAccountSound ==
  ASSUME AuthInv, NEW c \in Callers, FindTikTokAccount(c)
  PROVE  AuthInv'
<1> PICK o : o = OwnerOf(c)
  OBVIOUS
<1>1. /\ auth[c].step = "account" /\ auth[c].step \in Busy /\ PlatformOf(c) = "tiktok"
      /\ raced' = raced \cup {v \in {o} : \E d \in Callers : AuthAt(d, "insert") /\ OwnerOf(d) = v}
      /\ UNCHANGED <<issued, offered, inCache, inFile, admitted, exchanged, tokenCached, rows>>
  BY DEF FindTikTokAccount, CreatePlatformAccount, AuthAt, Busy
<1>2. o \in Owners /\ auth[c] \in AuthRow
  BY <1>1, CallerOwner
<1>3. raced \subseteq raced' /\ raced' \subseteq AuthStates \cup Owners
  BY <1>1, <1>2 DEF AuthInv, AuthTypeOK
<1>4. CASE rows["tiktok"][o] > 0
  <2>1. auth' = [auth EXCEPT ![c] = NoAuth]
    BY <1>4 DEF FindTikTokAccount, Done
  <2>2. exchanged' \subseteq AuthStates /\ tokenCached' \subseteq AuthStates
    BY <1>1 DEF AuthInv, AuthTypeOK
  <2> QED
    BY <1>1, <1>3, <2>1, <2>2, NoAuthRow, CallerGoesOn DEF Passing, Busy
<1>5. CASE ~(rows["tiktok"][o] > 0)
  <2> PICK k : k = [auth[c] EXCEPT !.step = "insert"]
    OBVIOUS
  <2>1. k \in AuthRow /\ k.step = "insert" /\ k.state = auth[c].state
    BY <1>2 DEF AuthRow, AuthSteps
  <2>2. auth' = [auth EXCEPT ![c] = k]
    BY <1>5 DEF FindTikTokAccount, Turn, AuthInv, AuthTypeOK
  <2>3. AuthTypeOK'
    BY <1>1, <1>3, <2>1, <2>2 DEF AuthInv, AuthTypeOK
  <2>4. \A d \in Callers : auth'[d] = IF d = c THEN k ELSE auth[d]
    BY <2>2 DEF AuthInv, AuthTypeOK
  <2>5. rows["tiktok"][o] = 0
    BY <1>2, <1>5 DEF AuthInv, AuthTypeOK, AuthPlatforms
  <2>6. ASSUME NEW d \in Callers PROVE HeldState(d)'
    <3>1. HeldState(d) /\ HeldState(c)
      BY DEF AuthInv
    <3> QED
      BY <1>1, <2>1, <2>4, <3>1 DEF HeldState, AuthAt, StateOf, PlatformOf
  <2>7. \A d, e \in Callers : auth'[d].step = "file" /\ auth'[e].step = "file"
                              /\ auth'[d].state = auth'[e].state => d = e
    BY <2>1, <2>4 DEF AuthInv, AuthAt, StateOf
  <2>8. ASSUME NEW t \in AuthStates PROVE OneTime(t)' /\ Offered(t)'
    <3>1. OneTime(t) /\ Offered(t)
      BY DEF AuthInv
    <3>2. \A d \in Callers : auth'[d].step \in Passing => auth'[d] = auth[d]
      BY <2>1, <2>4 DEF Passing
    <3>3. OneTime(t)'
      BY <1>1, <1>3, <3>1, <3>2 DEF OneTime, AuthAt, StateOf, Passing
    <3> QED
      BY <1>1, <3>1, <3>3 DEF Offered
  <2>9. ASSUME NEW v \in Owners PROVE OneRow(v)'
    <3>1. OneRow(v)
      BY DEF AuthInv
    <3>2. CASE v # o
      <4>1. \A d \in Callers : auth'[d].step = "insert" /\ issued[auth'[d].state].owner = v =>
              auth'[d] = auth[d]
        BY <2>1, <2>4, <3>2 DEF OwnerOf, StateOf
      <4> QED
        BY <1>1, <1>3, <3>1, <4>1 DEF OneRow, AuthAt, OwnerOf, StateOf
    <3>3. CASE v = o /\ \E d \in Callers : AuthAt(d, "insert") /\ OwnerOf(d) = o
      BY <1>1, <3>3 DEF OneRow
    <3>4. CASE v = o /\ \A d \in Callers : AuthAt(d, "insert") => OwnerOf(d) # o
      <4>1. \A d \in Callers : auth'[d].step = "insert" /\ issued[auth'[d].state].owner = o => d = c
        BY <2>4, <3>4 DEF AuthAt, OwnerOf, StateOf
      <4> QED
        BY <1>1, <2>5, <3>4, <4>1 DEF OneRow, AuthAt, OwnerOf, StateOf
    <3> QED
      BY <3>2, <3>3, <3>4
  <2> QED
    BY <2>3, <2>6, <2>7, <2>8, <2>9 DEF AuthInv, AuthAt, StateOf
<1> QED
  BY <1>4, <1>5

LEMMA CreateAccountSound ==
  ASSUME AuthInv, NEW c \in Callers, CreateAccount(c)
  PROVE  AuthInv'
<1> PICK o : o = OwnerOf(c)
  OBVIOUS
<1> PICK p : p = PlatformOf(c)
  OBVIOUS
<1>1. /\ \/ auth[c].step = "insert" /\ p = "tiktok"
         \/ auth[c].step = "account" /\ p = "facebook"
      /\ auth[c].step \in Busy
      /\ rows[p][o] < MaxRows /\ rows' = [rows EXCEPT ![p][o] = @ + 1]
      /\ auth' = [auth EXCEPT ![c] = NoAuth]
      /\ UNCHANGED <<issued, offered, inCache, inFile, admitted, exchanged, tokenCached, raced>>
  BY DEF CreateAccount, CreatePlatformAccount, AuthAt, Done, Busy, AuthInv, HeldState
<1>2. o \in Owners /\ p \in AuthPlatforms /\ rows \in [AuthPlatforms -> [Owners -> 0 .. MaxRows]]
  BY <1>1, CallerOwner DEF AuthInv, AuthTypeOK
<1>3. /\ rows' \in [AuthPlatforms -> [Owners -> 0 .. MaxRows]]
      /\ rows'["tiktok"] = IF p = "tiktok" THEN [rows["tiktok"] EXCEPT ![o] = @ + 1] ELSE rows["tiktok"]
  BY <1>1, <1>2, AuthAssumption DEF AuthPlatforms
<1>4. AuthTypeOK'
  BY <1>1, <1>3, NoAuthRow DEF AuthInv, AuthTypeOK
<1>5. \A d \in Callers : auth'[d] = IF d = c THEN NoAuth ELSE auth[d]
  BY <1>1 DEF AuthInv, AuthTypeOK
<1>6. ASSUME NEW d \in Callers PROVE HeldState(d)'
  <2>1. HeldState(d)
    BY DEF AuthInv
  <2> QED
    BY <1>1, <1>5, <2>1, NoAuthRow DEF HeldState, AuthAt, StateOf, PlatformOf, Busy
<1>7. \A d, e \in Callers : auth'[d].step = "file" /\ auth'[e].step = "file"
                            /\ auth'[d].state = auth'[e].state => d = e
  BY <1>5, NoAuthRow DEF AuthInv, AuthAt, StateOf
<1>8. ASSUME NEW t \in AuthStates PROVE OneTime(t)' /\ Offered(t)'
  <2>1. OneTime(t) /\ Offered(t)
    BY DEF AuthInv
  <2>2. \A d \in Callers : auth'[d].step \in Passing => auth'[d] = auth[d]
    BY <1>5, NoAuthRow DEF Passing
  <2>3. OneTime(t)'
    BY <1>1, <2>1, <2>2 DEF OneTime, AuthAt, StateOf, Passing
  <2> QED
    BY <1>1, <2>1, <2>3 DEF Offered
<1>9. ASSUME NEW v \in Owners PROVE OneRow(v)'
  <2>1. OneRow(v) /\ \A d \in Callers : auth'[d].step = "insert" => d # c /\ auth'[d] = auth[d]
    BY <1>5, NoAuthRow DEF AuthInv
  <2>2. CASE v # o \/ p # "tiktok"
    <3>1. rows'["tiktok"][v] = rows["tiktok"][v]
      BY <1>2, <1>3, <2>2 DEF AuthPlatforms
    <3> QED
      BY <1>1, <2>1, <3>1 DEF OneRow, AuthAt, OwnerOf, StateOf
  <2>3. CASE v = o /\ p = "tiktok"
    <3>1. rows["tiktok"][o] \in Nat /\ rows'["tiktok"][o] = rows["tiktok"][o] + 1
      BY <1>2, <1>3, <2>3 DEF AuthPlatforms
    <3>2. o \in raced \/ /\ rows["tiktok"][o] = 0
                         /\ \A d \in Callers : AuthAt(d, "insert") /\ OwnerOf(d) = o => d = c
      BY <1>1, <2>1, <2>3 DEF OneRow, AuthAt
    <3>3. CASE o \in raced
      BY <1>1, <2>3, <3>3 DEF OneRow
    <3>4. CASE o \notin raced
      <4>1. \A d \in Callers : auth'[d].step = "insert" => issued[auth'[d].state].owner # o
        BY <2>1, <3>2, <3>4 DEF AuthAt, OwnerOf, StateOf
      <4>2. rows'["tiktok"][o] = 1
        BY <3>1, <3>2, <3>4
      <4> QED
        BY <1>1, <2>3, <4>1, <4>2 DEF OneRow, AuthAt, OwnerOf, StateOf
    <3> QED
      BY <3>3, <3>4
  <2> QED
    BY <2>2, <2>3
<1> QED
  BY <1>4, <1>6, <1>7, <1>8, <1>9 DEF AuthInv, AuthAt, StateOf

LEMMA AuthStepSound == AuthInv /\ [AuthNext]_authVars => AuthInv'
<1> SUFFICES ASSUME AuthInv, [AuthNext]_authVars PROVE AuthInv'
  OBVIOUS
<1>1. ASSUME UNCHANGED <<issued, offered, admitted, exchanged, tokenCached, rows, auth, raced>>,
             inCache' \subseteq inCache, inFile' \subseteq inFile
      PROVE  AuthInv'
  <2>1. AuthTypeOK'
    BY <1>1 DEF AuthInv, AuthTypeOK
  <2>2. \A c \in Callers : HeldState(c)'
    BY <1>1 DEF AuthInv, HeldState, AuthAt, StateOf, PlatformOf
  <2>3. \A s \in AuthStates : OneTime(s)' /\ Offered(s)'
    BY <1>1 DEF AuthInv, OneTime, Offered, AuthAt, StateOf
  <2>4. \A o \in Owners : OneRow(o)'
    BY <1>1 DEF AuthInv, OneRow, AuthAt, OwnerOf, StateOf
  <2> QED
    BY <1>1, <2>1, <2>2, <2>3, <2>4 DEF AuthInv, AuthAt, StateOf
<1>2. ASSUME NEW s \in AuthStates, StateExpires(s) PROVE AuthInv'
  BY <1>1, <1>2 DEF StateExpires
<1>3. CASE UNCHANGED authVars
  BY <1>1, <1>3 DEF authVars
<1> QED
  BY <1>2, <1>3, PlainStepSound, IssueSound, StoreSound, TakeSound, PassSound, FindAccountSound,
     CreateAccountSound
  DEF AuthNext, RefreshInstagramTokens, RefreshLinkedInTokens, RefreshTikTokTokens, RevokeToken

(* What the authorisations rest on: who holds a state, and who is about to *)
(* insert an account.                                                      *)
THEOREM AuthIsSound == ServicesSpec => []AuthInv
<1>1. ServicesInit => AuthInv
  BY AuthInitSound DEF ServicesInit
<1>2. AuthInv /\ [ServicesNext]_servicesVars => AuthInv'
  BY AuthStepSound, PartSteps
<1> QED
  BY <1>1, <1>2, PTL DEF ServicesSpec

(* A state lets one callback pass, for any number of states, callers and   *)
(* users, whatever expires or fails; unless a second one came in time.     *)
THEOREM StatesAdmitOnce == ServicesSpec => []StateAdmitsOnce
  BY AuthInvGives, AuthIsSound, PTL

(* However often a user authorises one TikTok account, there is one row of *)
(* it, unless two callbacks looked for it at once.                         *)
THEOREM TikTokAccountsAreOne == ServicesSpec => []OneTikTokAccount
  BY AuthInvGives, AuthIsSound, PTL

-----------------------------------------------------------------------------
(* Media storage. *)

(* The contents and keys that the rows name. *)
Named == {<<assets[i].hash, assets[i].key>> : i \in DOMAIN assets}

Own == {"put", "save", "sign"}

(* A caller that made a key has it for itself: it is in no row, and no     *)
(* client may write under it.                                              *)
Working(c) ==
  /\ upload[c].step \in {"find", "put", "save", "link"} => upload[c].content \in Contents
  /\ upload[c].step \in Own => /\ upload[c].key \in 1 .. lastKey
                               /\ upload[c].key \notin signed.ever
                               /\ \A n \in Named : n[2] # upload[c].key
  /\ upload[c].step = "save" => object[upload[c].key] = upload[c].content
  /\ upload[c].step = "link" => <<upload[c].content, upload[c].key>> \in Named

StoredName(n) ==
  /\ n[2] \in 1 .. lastKey
  /\ n[1] = Null \/ object[n[2]] = n[1] \/ n[2] \in signed.ever

(* As long as nobody doubled it, a content is uploaded by one caller, and  *)
(* only if it is not there; and what is there has one key.                 *)
Uploads(c, x) == upload[c].step \in {"put", "save"} /\ upload[c].content = x
Single(x) ==
  \/ x \in doubled
  \/ /\ \A c, d \in Callers : Uploads(c, x) /\ Uploads(d, x) => c = d
     /\ \A c \in Callers : Uploads(c, x) => \A n \in Named : n[1] = x => n[2] \in signed.ever
     /\ \A n, m \in Named : n[1] = x /\ m[1] = x =>
          n[2] = m[2] \/ n[2] \in signed.ever \/ m[2] \in signed.ever

MediaInv ==
  /\ MediaTypeOK
  /\ \A c \in Callers : Working(c)
  /\ \A c, d \in Callers : upload[c].step \in Own /\ upload[d].step \in Own
                            /\ upload[c].key = upload[d].key => c = d
  /\ \A n \in Named : StoredName(n)
  /\ signed.ever \subseteq 1 .. lastKey
  /\ answered \subseteq Named
  /\ \A x \in Contents : Single(x)

LEMMA NamedType == MediaTypeOK => Named \subseteq (Contents \cup {Null}) \X Keys
<1> SUFFICES ASSUME MediaTypeOK, NEW i \in DOMAIN assets
             PROVE  assets[i].hash \in Contents \cup {Null} /\ assets[i].key \in Keys
  BY DEF Named
<1>1. assets \in Seq(Asset)
  BY DEF MediaTypeOK
<1>2. assets[i] \in Asset
  BY <1>1
<1> QED
  BY <1>2 DEF Asset

LEMMA NoUploadType == NoUpload \in Upload /\ NoUpload.step = "idle"
  BY MediaAssumption DEF Upload, NoUpload

LEMMA UploadGoesOn ==
  ASSUME NEW u \in Upload, NEW s \in {"put", "link"}, NEW n \in 0 .. MaxKeys
  PROVE  [u EXCEPT !.step = s, !.key = n] = [step |-> s, content |-> u.content, key |-> n]
<1>1. [u EXCEPT !.step = s, !.key = n] = [[u EXCEPT !.step = s] EXCEPT !.key = n]
  OBVIOUS
<1>2. [u EXCEPT !.step = s] = [step |-> s, content |-> u.content, key |-> u.key]
  BY DEF Upload
<1>3. PICK v : v = [step |-> s, content |-> u.content, key |-> u.key]
  OBVIOUS
<1>4. [v EXCEPT !.key = n] = [step |-> s, content |-> u.content, key |-> n]
  BY ONLY <1>3
<1>5. [[u EXCEPT !.step = s] EXCEPT !.key = n] = [v EXCEPT !.key = n]
  BY <1>2, <1>3, Zenon
<1> QED
  BY <1>1, <1>4, <1>5, Zenon

LEMMA RowNamed ==
  ASSUME MediaTypeOK, NEW a \in Asset, assets' = Append(assets, a)
  PROVE  Named' = Named \cup {<<a.hash, a.key>>}
<1>1. /\ assets \in Seq(Asset) /\ DOMAIN assets = 1 .. Len(assets)
      /\ DOMAIN assets' = 1 .. Len(assets) + 1 /\ Len(assets) \in Nat
      /\ assets'[Len(assets) + 1] = a /\ \A i \in 1 .. Len(assets) : assets'[i] = assets[i]
  BY DEF MediaTypeOK
<1>2. \A i \in 1 .. Len(assets) + 1 : i = Len(assets) + 1 \/ i \in 1 .. Len(assets)
  BY <1>1
<1>3. Named' \subseteq Named \cup {<<a.hash, a.key>>}
  BY <1>1, <1>2 DEF Named
<1>4. Named \subseteq Named'
  BY <1>1 DEF Named
<1>5. <<a.hash, a.key>> \in Named'
  BY <1>1 DEF Named
<1> QED
  BY <1>3, <1>4, <1>5

LEMMA MediaInvGives == MediaInv => AnsweredIsStored /\ OneKeyPerContent
<1> SUFFICES ASSUME MediaInv PROVE AnsweredIsStored /\ OneKeyPerContent
  OBVIOUS
<1>1. ASSUME NEW a \in answered PROVE object[a[2]] = a[1] \/ a[2] \in signed.ever
  <2>1. a \in Named /\ a[1] \in Contents
    BY DEF MediaInv, MediaTypeOK
  <2> QED
    BY <2>1, MediaAssumption DEF MediaInv, StoredName
<1>2. ASSUME NEW i \in DOMAIN assets, NEW j \in DOMAIN assets,
             assets[i].hash = assets[j].hash, assets[i].hash # Null, assets[i].key # assets[j].key
      PROVE  assets[i].hash \in doubled \/ {assets[i].key, assets[j].key} \cap signed.ever # {}
  <2> PICK x : x = assets[i].hash
    OBVIOUS
  <2>1. x \in Contents
    <3>1. assets \in Seq(Asset)
      BY DEF MediaInv, MediaTypeOK
    <3>2. assets[i] \in Asset
      BY <3>1
    <3> QED
      BY <1>2, <3>2 DEF Asset
  <2>2. <<x, assets[i].key>> \in Named /\ <<x, assets[j].key>> \in Named
    BY <1>2 DEF Named
  <2> QED
    BY <1>2, <2>1, <2>2 DEF MediaInv, Single
<1> QED
  BY <1>1, <1>2 DEF AnsweredIsStored, OneKeyPerContent

LEMMA MediaInitSound == MediaInit => MediaInv
<1> SUFFICES ASSUME MediaInit PROVE MediaInv
  OBVIOUS
<1> USE MediaAssumption DEF MediaInit
<1>1. Named = {} /\ \A c \in Callers : upload[c].step = "idle"
  BY DEF Named, NoUpload
<1>2. MediaTypeOK
  BY DEF MediaTypeOK, Upload, NoUpload
<1>3. \A c \in Callers : Working(c)
  BY <1>1 DEF Working, Own
<1>4. \A x \in Contents : Single(x)
  BY <1>1 DEF Single, Uploads
<1> QED
  BY <1>1, <1>2, <1>3, <1>4 DEF MediaInv, Own

(* A caller that starts, finds its file, or gives up. *)
LEMMA UploadMoves ==
  ASSUME MediaInv, NEW c \in Callers, NEW k \in Upload, upload' = [upload EXCEPT ![c] = k],
         k.step \in {"idle", "find", "link"},
         k.step # "idle" => k.content \in Contents,
         k.step = "link" => <<k.content, k.key>> \in Named,
         UNCHANGED <<object, lastKey, assets, signed, answered, doubled>>
  PROVE  MediaInv'
<1>1. \A d \in Callers : upload'[d] = IF d = c THEN k ELSE upload[d]
  BY DEF MediaInv, MediaTypeOK
<1>2. MediaTypeOK' /\ Named' = Named
  BY DEF MediaInv, MediaTypeOK, Named
<1>3. ASSUME NEW d \in Callers PROVE Working(d)'
  <2>1. Working(d)
    BY DEF MediaInv
  <2> QED
    BY <1>1, <1>2, <2>1 DEF Working, Own
<1>4. \A d, e \in Callers : upload'[d].step \in Own /\ upload'[e].step \in Own
                            /\ upload'[d].key = upload'[e].key => d = e
  BY <1>1 DEF MediaInv, Own
<1>5. ASSUME NEW x \in Contents PROVE Single(x)'
  <2>1. Single(x) /\ \A d \in Callers : Uploads(d, x)' => Uploads(d, x)
    BY <1>1 DEF MediaInv, Uploads
  <2> QED
    BY <1>2, <2>1 DEF Single, Uploads
<1>6. \A n \in Named' : StoredName(n)'
  BY <1>2 DEF MediaInv, StoredName
<1> QED
  BY <1>2, <1>3, <1>4, <1>5, <1>6 DEF MediaInv

(* A caller that makes a key. *)
LEMMA KeyMade ==
  ASSUME MediaInv, NEW c \in Callers, NEW k \in Upload, upload' = [upload EXCEPT ![c] = k],
         k.step \in {"put", "sign"}, k.key = lastKey + 1, lastKey < MaxKeys, lastKey' = lastKey + 1,
         doubled \subseteq doubled', doubled' \subseteq Contents,
         k.step = "put" =>
           /\ k.content \in Contents
           /\ \/ k.content \in doubled'
              \/ /\ \A d \in Callers : ~Uploads(d, k.content)
                 /\ \A n \in Named : n[1] # k.content,
         UNCHANGED <<object, assets, signed, answered>>
  PROVE  MediaInv'
<1>1. \A d \in Callers : upload'[d] = IF d = c THEN k ELSE upload[d]
  BY DEF MediaInv, MediaTypeOK
<1>2. Named' = Named /\ lastKey \in Nat /\ lastKey + 1 \notin signed.ever
      /\ \A n \in Named : n[2] \in 1 .. lastKey
  BY DEF MediaInv, MediaTypeOK, Named, StoredName
<1>3. MediaTypeOK'
  BY <1>2, MediaAssumption DEF MediaInv, MediaTypeOK
<1>4. ASSUME NEW d \in Callers PROVE Working(d)'
  <2>1. Working(d)
    BY DEF MediaInv
  <2>2. CASE d = c
    <3>1. k.key \notin signed.ever /\ k.key \in 1 .. lastKey' /\ \A n \in Named : n[2] # k.key
      BY <1>2
    <3> QED
      BY <1>1, <1>2, <2>2, <3>1 DEF Working
  <2>3. CASE d # c
    BY <1>1, <1>2, <2>1, <2>3 DEF Working
  <2> QED
    BY <2>2, <2>3
<1>5. ASSUME NEW d \in Callers, NEW e \in Callers, upload'[d].step \in Own, upload'[e].step \in Own,
             upload'[d].key = upload'[e].key
      PROVE  d = e
  <2>1. \A f \in Callers \ {c} : upload'[f].step \in Own =>
          upload'[f] = upload[f] /\ upload[f].key \in 1 .. lastKey
    BY <1>1 DEF MediaInv, Working
  <2> QED
    BY <1>1, <1>2, <1>5, <2>1 DEF MediaInv
<1>6. ASSUME NEW x \in Contents PROVE Single(x)'
  <2>1. Single(x)
    BY DEF MediaInv
  <2>2. CASE x \in doubled'
    BY <2>2 DEF Single
  <2>3. CASE x \notin doubled' /\ k.step = "put" /\ k.content = x
    <3>1. \A d \in Callers : Uploads(d, x)' => d = c
      BY <1>1, <2>3 DEF Uploads
    <3>2. \A n \in Named' : n[1] # x
      BY <1>2, <2>3
    <3> QED
      BY <3>1, <3>2 DEF Single, Uploads
  <2>4. CASE x \notin doubled' /\ ~(k.step = "put" /\ k.content = x)
    <3>1. \A d \in Callers : Uploads(d, x)' => Uploads(d, x)
      BY <1>1, <2>4 DEF Uploads
    <3> QED
      BY <1>2, <2>1, <2>4, <3>1 DEF Single, Uploads
  <2> QED
    BY <2>2, <2>3, <2>4
<1>7. \A n \in Named' : StoredName(n)'
  BY <1>2 DEF MediaInv, StoredName
<1> QED
  BY <1>2, <1>3, <1>4, <1>5, <1>6, <1>7 DEF MediaInv

(* A file is put under its key. *)
LEMMA PutSound ==
  ASSUME MediaInv, NEW c \in Callers, UploadToS3(c)
  PROVE  MediaInv'
<1> PICK k : k = [upload[c] EXCEPT !.step = "save"]
  OBVIOUS
<1>1. /\ upload[c].step = "put" /\ upload[c] \in Upload
      /\ object' = [object EXCEPT ![upload[c].key] = upload[c].content]
      /\ UNCHANGED <<lastKey, assets, signed, answered, doubled>>
  BY DEF UploadToS3, MediaInv, MediaTypeOK
<1>2. /\ k \in Upload /\ k.step = "save" /\ k.content = upload[c].content /\ k.key = upload[c].key
      /\ upload' = [upload EXCEPT ![c] = k]
  BY <1>1 DEF Upload, UploadToS3, MediaInv, MediaTypeOK
<1>3. \A d \in Callers : upload'[d] = IF d = c THEN k ELSE upload[d]
  BY <1>2 DEF MediaInv, MediaTypeOK
<1>4. /\ k.content \in Contents /\ k.key \in 1 .. lastKey /\ k.key \notin signed.ever
      /\ \A n \in Named : n[2] # k.key
      /\ lastKey \in 0 .. MaxKeys /\ object \in [Keys -> Contents \cup {Null}]
  BY <1>1, <1>2 DEF MediaInv, MediaTypeOK, Working, Own
<1>5. k.key \in Keys
  BY <1>4, MediaAssumption DEF Keys
<1>6. object' \in [Keys -> Contents \cup {Null}] /\ object'[k.key] = k.content
      /\ \A i \in Keys \ {k.key} : object'[i] = object[i]
  BY <1>1, <1>2, <1>4, <1>5
<1>7. MediaTypeOK' /\ Named' = Named /\ \A n \in Named : n[2] \in Keys
  BY <1>1, <1>2, <1>6, NamedType DEF MediaInv, MediaTypeOK, Named
<1>8. ASSUME NEW d \in Callers PROVE Working(d)'
  <2>1. Working(d)
    BY DEF MediaInv
  <2>2. CASE d = c
    BY <1>1, <1>2, <1>3, <1>4, <1>6, <1>7, <2>2 DEF Working
  <2>3. CASE d # c
    <3>1. upload'[d] = upload[d] /\ (upload[d].step = "save" => upload[d].key \in Keys \ {k.key})
      <4>1. upload[d].step = "save" => upload[d].key # k.key
        BY <1>1, <1>2, <2>3 DEF MediaInv, Own
      <4>2. upload[d].step = "save" => upload[d].key \in Keys
        BY <1>4, <2>1, MediaAssumption DEF Working, Own, Keys
      <4> QED
        BY <1>3, <2>3, <4>1, <4>2
    <3> QED
      BY <1>1, <1>6, <1>7, <2>1, <3>1 DEF Working
  <2> QED
    BY <2>2, <2>3
<1>9. \A d, e \in Callers : upload'[d].step \in Own /\ upload'[e].step \in Own
                            /\ upload'[d].key = upload'[e].key => d = e
  BY <1>1, <1>2, <1>3 DEF MediaInv, Own
<1>10. ASSUME NEW x \in Contents PROVE Single(x)'
  <2>1. Single(x) /\ \A d \in Callers : Uploads(d, x)' => Uploads(d, x)
    BY <1>1, <1>2, <1>3 DEF MediaInv, Uploads
  <2> QED
    BY <1>1, <1>7, <2>1 DEF Single, Uploads
<1>11. \A n \in Named' : StoredName(n)'
  BY <1>1, <1>4, <1>6, <1>7 DEF MediaInv, StoredName
<1> QED
  BY <1>1, <1>7, <1>8, <1>9, <1>10, <1>11 DEF MediaInv

(* A file is saved: under the key it was found with, or under the key it   *)
(* was put under.                                                          *)
LEMMA SaveSound ==
  ASSUME MediaInv, NEW c \in Callers, SaveFile(c)
  PROVE  MediaInv'
<1> PICK x : x = upload[c].content
  OBVIOUS
<1> PICK k : k = upload[c].key
  OBVIOUS
<1> PICK a : a = [hash |-> x, key |-> k, pending |-> FALSE]
  OBVIOUS
<1>1. /\ upload[c].step \in {"link", "save"} /\ upload[c] \in Upload
      /\ assets' = Append(assets, a) /\ Len(assets) < MaxAssets
      /\ answered' = answered \cup {<<x, k>>}
      /\ upload' = [upload EXCEPT ![c] = NoUpload]
      /\ UNCHANGED <<object, lastKey, signed, doubled>>
  BY DEF SaveFile, MediaInv, MediaTypeOK
<1>2. \A d \in Callers : upload'[d] = IF d = c THEN NoUpload ELSE upload[d]
  BY <1>1 DEF MediaInv, MediaTypeOK
<1>3. Working(c) /\ x \in Contents /\ lastKey \in 0 .. MaxKeys
  BY <1>1 DEF MediaInv, MediaTypeOK, Working
<1>4. upload[c].step = "link" => <<x, k>> \in Named
  BY <1>3 DEF Working
<1>5. upload[c].step = "save" => /\ k \in 1 .. lastKey /\ object[k] = x /\ k \notin signed.ever
                                 /\ \A n \in Named : n[2] # k
  BY <1>3 DEF Working, Own
<1>6. k \in Keys /\ StoredName(<<x, k>>)
  <2>1. CASE upload[c].step = "link"
    BY <1>4, <2>1, NamedType DEF MediaInv
  <2>2. CASE upload[c].step = "save"
    <3>1. <<x, k>>[1] = x /\ <<x, k>>[2] = k
      OBVIOUS
    <3> QED
      BY <1>3, <1>5, <2>2, <3>1, MediaAssumption DEF Keys, StoredName
  <2> QED
    BY <1>1, <2>1, <2>2
<1>7. a \in Asset
  BY <1>3, <1>6 DEF Asset
<1>8. Named' = Named \cup {<<x, k>>}
  <2>1. Named' = Named \cup {<<a.hash, a.key>>}
    BY <1>1, <1>7, RowNamed DEF MediaInv
  <2> QED
    BY <2>1
<1>9. MediaTypeOK'
  <2>1. assets' \in Seq(Asset) /\ Len(assets') <= MaxAssets
    BY <1>1, <1>7, MediaAssumption DEF MediaInv, MediaTypeOK
  <2>2. upload' \in [Callers -> Upload]
    BY <1>1, NoUploadType DEF MediaInv, MediaTypeOK
  <2> QED
    BY <1>1, <1>3, <1>6, <2>1, <2>2 DEF MediaInv, MediaTypeOK
<1>10. ASSUME NEW d \in Callers PROVE Working(d)'
  <2>1. Working(d)
    BY DEF MediaInv
  <2>2. CASE d = c
    BY <1>2, <2>2 DEF Working, Own, NoUpload
  <2>3. CASE d # c
    <3>1. upload[d].step \in Own => \A n \in Named' : n[2] # upload[d].key
      <4>1. upload[d].step \in Own /\ upload[c].step = "save" => upload[d].key # k
        BY <2>3 DEF MediaInv, Own
      <4> QED
        BY <1>1, <1>4, <1>8, <2>1, <4>1 DEF Working
    <3> QED
      BY <1>1, <1>2, <1>8, <2>1, <2>3, <3>1 DEF Working
  <2> QED
    BY <2>2, <2>3
<1>11. \A d, e \in Callers : upload'[d].step \in Own /\ upload'[e].step \in Own
                             /\ upload'[d].key = upload'[e].key => d = e
  BY <1>2 DEF MediaInv, Own, NoUpload
<1>12. ASSUME NEW y \in Contents PROVE Single(y)'
  <2>1. Single(y) /\ \A d \in Callers : Uploads(d, y)' => d # c /\ Uploads(d, y)
    BY <1>2 DEF MediaInv, Uploads, NoUpload
  <2>2. CASE <<x, k>> \in Named \/ x # y
    <3>1. \A n \in Named' : n[1] = y => n \in Named
      BY <1>8, <2>2
    <3> QED
      BY <1>1, <2>1, <3>1 DEF Single
  <2>3. CASE y \in doubled
    BY <1>1, <2>3 DEF Single
  <2>4. CASE x = y /\ y \notin doubled /\ <<x, k>> \notin Named
    <3>1. Uploads(c, y)
      BY <1>1, <1>4, <2>4 DEF Uploads
    <3>2. \A d \in Callers : ~Uploads(d, y)'
      BY <2>1, <2>4, <3>1 DEF Single
    <3>3. \A n \in Named' : n[1] = y => n[2] \in signed.ever \/ n[2] = k
      BY <1>8, <2>1, <2>4, <3>1 DEF Single
    <3> QED
      BY <1>1, <3>2, <3>3 DEF Single
  <2> QED
    BY <2>2, <2>3, <2>4
<1>13. \A n \in Named' : StoredName(n)'
  BY <1>1, <1>6, <1>8 DEF MediaInv, StoredName
<1>14. answered' \subseteq Named'
  BY <1>1, <1>8 DEF MediaInv
<1> QED
  BY <1>1, <1>9, <1>10, <1>11, <1>12, <1>13, <1>14 DEF MediaInv

(* A pre-signed URL: from here on its client may put what it likes.        *)
LEMMA SavePendingSound ==
  ASSUME MediaInv, NEW c \in Callers, SavePendingFile(c)
  PROVE  MediaInv'
<1> PICK x : x = upload[c].content
  OBVIOUS
<1> PICK k : k = upload[c].key
  OBVIOUS
<1> PICK a : a = [hash |-> x, key |-> k, pending |-> TRUE]
  OBVIOUS
<1>1. /\ upload[c].step = "sign" /\ upload[c] \in Upload
      /\ assets' = Append(assets, a) /\ Len(assets) < MaxAssets
      /\ signed' = [ever |-> signed.ever \cup {k}, open |-> signed.open \cup {k}]
      /\ upload' = [upload EXCEPT ![c] = NoUpload]
      /\ UNCHANGED <<object, lastKey, answered, doubled>>
  BY DEF SavePendingFile, MediaInv, MediaTypeOK
<1>2. \A d \in Callers : upload'[d] = IF d = c THEN NoUpload ELSE upload[d]
  BY <1>1 DEF MediaInv, MediaTypeOK
<1>3. k \in 1 .. lastKey /\ lastKey \in 0 .. MaxKeys /\ x \in Contents \cup {Null}
  BY <1>1 DEF MediaInv, MediaTypeOK, Working, Own, Upload
<1>4. k \in Keys
  BY <1>3, MediaAssumption DEF Keys
<1>5. a \in Asset
  BY <1>3, <1>4 DEF Asset
<1>6. Named' = Named \cup {<<x, k>>}
  <2>1. Named' = Named \cup {<<a.hash, a.key>>}
    BY <1>1, <1>5, RowNamed DEF MediaInv
  <2> QED
    BY <2>1
<1>7. signed'.ever = signed.ever \cup {k} /\ signed'.open = signed.open \cup {k}
  BY <1>1
<1>8. MediaTypeOK'
  <2>1. assets' \in Seq(Asset) /\ Len(assets') <= MaxAssets
    BY <1>1, <1>5, MediaAssumption DEF MediaInv, MediaTypeOK
  <2>2. upload' \in [Callers -> Upload]
    BY <1>1, NoUploadType DEF MediaInv, MediaTypeOK
  <2>3. signed.ever \subseteq Keys /\ signed.open \subseteq signed.ever
    BY DEF MediaInv, MediaTypeOK
  <2>4. signed' \in [ever : SUBSET Keys, open : SUBSET Keys] /\ signed'.open \subseteq signed'.ever
    BY <1>1, <1>4, <2>3
  <2> QED
    BY <1>1, <2>1, <2>2, <2>4 DEF MediaInv, MediaTypeOK
<1>9. ASSUME NEW d \in Callers PROVE Working(d)'
  <2>1. Working(d)
    BY DEF MediaInv
  <2>2. CASE d = c
    BY <1>2, <2>2 DEF Working, Own, NoUpload
  <2>3. CASE d # c
    <3>1. upload[d].step \in Own => upload[d].key # k
      BY <1>1, <2>3 DEF MediaInv, Own
    <3> QED
      BY <1>1, <1>2, <1>6, <1>7, <2>1, <2>3, <3>1 DEF Working
  <2> QED
    BY <2>2, <2>3
<1>10. \A d, e \in Callers : upload'[d].step \in Own /\ upload'[e].step \in Own
                             /\ upload'[d].key = upload'[e].key => d = e
  BY <1>2 DEF MediaInv, Own, NoUpload
<1>11. ASSUME NEW y \in Contents PROVE Single(y)'
  <2>1. Single(y) /\ \A d \in Callers : Uploads(d, y)' => Uploads(d, y)
    BY <1>2 DEF MediaInv, Uploads, NoUpload
  <2>2. \A n \in Named' : n \in Named \/ n[2] \in signed'.ever
    BY <1>6, <1>7
  <2> QED
    BY <1>1, <1>7, <2>1, <2>2 DEF Single
<1>12. \A n \in Named' : StoredName(n)'
  BY <1>1, <1>3, <1>6, <1>7 DEF MediaInv, StoredName
<1>13. signed'.ever \subseteq 1 .. lastKey' /\ answered' \subseteq Named'
  BY <1>1, <1>3, <1>6, <1>7 DEF MediaInv
<1> QED
  BY <1>8, <1>9, <1>10, <1>11, <1>12, <1>13 DEF MediaInv

(* What the clients of pre-signed URLs do touches no key of an upload.     *)
LEMMA OutsideSound ==
  ASSUME MediaInv, Named' = Named, assets' \in Seq(Asset), Len(assets') <= MaxAssets,
         signed' \in [ever : SUBSET Keys, open : SUBSET Keys], signed'.ever = signed.ever,
         signed'.open \subseteq signed.open,
         object' \in [Keys -> Contents \cup {Null}],
         \A k \in Keys \ signed.ever : object'[k] = object[k],
         UNCHANGED <<lastKey, upload, answered, doubled>>
  PROVE  MediaInv'
<1>1. MediaTypeOK'
  BY DEF MediaInv, MediaTypeOK
<1>2. \A n \in Named : n[2] \in Keys
  BY NamedType DEF MediaInv
<1>3. ASSUME NEW c \in Callers PROVE Working(c)'
  <2>1. Working(c)
    BY DEF MediaInv
  <2>2. upload[c].step \in Own => upload[c].key \in Keys \ signed.ever
    BY <2>1, MediaAssumption DEF MediaInv, MediaTypeOK, Working, Keys
  <2> QED
    BY <2>1, <2>2 DEF Working, Own
<1>4. \A x \in Contents : Single(x)'
  BY DEF MediaInv, Single, Uploads
<1>5. \A n \in Named' : StoredName(n)'
  BY <1>2 DEF MediaInv, StoredName
<1> QED
  BY <1>1, <1>3, <1>4, <1>5 DEF MediaInv

LEMMA MediaStepSound == MediaInv /\ [MediaNext]_mediaVars => MediaInv'
<1> SUFFICES ASSUME MediaInv, [MediaNext]_mediaVars PROVE MediaInv'
  OBVIOUS
<1>1. upload \in [Callers -> Upload] /\ assets \in Seq(Asset) /\ Len(assets) <= MaxAssets
      /\ lastKey \in 0 .. MaxKeys /\ signed \in [ever : SUBSET Keys, open : SUBSET Keys]
      /\ object \in [Keys -> Contents \cup {Null}] /\ doubled \subseteq Contents
      /\ signed.open \subseteq signed.ever
  BY DEF MediaInv, MediaTypeOK
<1>2. ASSUME NEW c \in Callers, NEW x \in Contents, UploadPostMedia(c, x) PROVE MediaInv'
  <2> PICK k : k = [step |-> "find", content |-> x, key |-> 0]
    OBVIOUS
  <2>1. k \in Upload /\ k.step = "find" /\ k.content \in Contents
    BY MediaAssumption DEF Upload
  <2> QED
    BY <1>2, <2>1, UploadMoves DEF UploadPostMedia
<1>3. ASSUME NEW c \in Callers, FindMediaByHash(c) PROVE MediaInv'
  <2>1. PICK i \in WithHash(upload[c].content) :
          upload' = [upload EXCEPT ![c].step = "link", ![c].key = assets[i].key]
    BY <1>3 DEF FindMediaByHash
  <2> PICK k : k = [step |-> "link", content |-> upload[c].content, key |-> assets[i].key]
    OBVIOUS
  <2>2. i \in DOMAIN assets /\ <<upload[c].content, assets[i].key>> \in Named
    BY DEF WithHash, Named
  <2>3. assets[i].key \in Keys /\ upload[c] \in Upload
    BY <1>1, <2>2, NamedType DEF MediaInv
  <2>4. /\ k \in Upload /\ k.step = "link" /\ k.content = upload[c].content
        /\ k.key = assets[i].key
        /\ upload' = [upload EXCEPT ![c] = k]
    <3>1. /\ k \in Upload /\ k.step = "link" /\ k.content = upload[c].content
          /\ k.key = assets[i].key
      <4>1. assets[i].key \in 0 .. MaxKeys
        BY <2>3, MediaAssumption DEF Keys
      <4> QED
        BY <2>3, <4>1 DEF Upload
    <3>2. upload' = [upload EXCEPT ![c] = [upload[c] EXCEPT !.step = "link", !.key = assets[i].key]]
      BY <1>1, <2>1
    <3>3. assets[i].key \in 0 .. MaxKeys
      BY <2>3, MediaAssumption DEF Keys
    <3>4. upload' = [upload EXCEPT ![c] = k]
      BY <2>3, <3>2, <3>3, UploadGoesOn
    <3> QED
      BY <3>1, <3>4
  <2>5. upload[c].content \in Contents
    BY <1>3 DEF FindMediaByHash, MediaInv, Working
  <2> QED
    BY <1>3, <2>2, <2>4, <2>5, UploadMoves DEF FindMediaByHash
<1>4. ASSUME NEW c \in Callers, FindNoMedia(c) \/ FindMediaFails(c) PROVE MediaInv'
  <2> PICK k : k = [step |-> "put", content |-> upload[c].content, key |-> lastKey + 1]
    OBVIOUS
  <2>1. /\ upload[c].step = "find" /\ upload[c] \in Upload /\ upload[c].content \in Contents
        /\ lastKey < MaxKeys /\ lastKey' = lastKey + 1
        /\ UNCHANGED <<object, assets, signed, answered>>
    BY <1>1, <1>4 DEF FindNoMedia, FindMediaFails, GeneratePostMediaKey, MediaInv, Working
  <2>2. /\ k \in Upload /\ k.step = "put" /\ k.content = upload[c].content /\ k.key = lastKey + 1
        /\ upload' = [upload EXCEPT ![c] = k]
    <3>1. k \in Upload /\ k.step = "put" /\ k.content = upload[c].content /\ k.key = lastKey + 1
      <4>1. lastKey + 1 \in 0 .. MaxKeys
        BY <1>1, <2>1, MediaAssumption
      <4> QED
        BY <2>1, <4>1 DEF Upload
    <3>2. upload' = [upload EXCEPT ![c].step = "put", ![c].key = lastKey + 1]
      BY <1>4 DEF FindNoMedia, FindMediaFails, GeneratePostMediaKey
    <3>3. upload' = [upload EXCEPT ![c] = [upload[c] EXCEPT !.step = "put", !.key = lastKey + 1]]
      BY <1>1, <3>2
    <3>4. lastKey + 1 \in 0 .. MaxKeys
      BY <1>1, <2>1, MediaAssumption
    <3>5. upload' = [upload EXCEPT ![c] = k]
      BY <2>1, <3>3, <3>4, UploadGoesOn
    <3> QED
      BY <3>1, <3>5
  <2>3. doubled \subseteq doubled' /\ doubled' \subseteq Contents
    BY <1>1, <1>4, <2>1 DEF FindNoMedia, FindMediaFails
  <2>4. \/ k.content \in doubled'
        \/ /\ \A d \in Callers : ~Uploads(d, k.content)
           /\ \A n \in Named : n[1] # k.content
    BY <1>4, <2>2 DEF FindNoMedia, FindMediaFails, Uploads, WithHash, Named
  <2> QED
    BY <2>1, <2>2, <2>3, <2>4, KeyMade
<1>5. ASSUME NEW c \in Callers, NEW x \in Contents \cup {Null}, GeneratePreSignedUrl(c, x)
      PROVE  MediaInv'
  <2> PICK k : k = [step |-> "sign", content |-> x, key |-> lastKey + 1]
    OBVIOUS
  <2>1. k \in Upload /\ k.step = "sign" /\ k.key = lastKey + 1
    BY <1>1, <1>5, MediaAssumption DEF Upload, GeneratePreSignedUrl
  <2> QED
    BY <1>1, <1>5, <2>1, KeyMade DEF GeneratePreSignedUrl
<1>6. ASSUME NEW c \in Callers, UploadFails(c) PROVE MediaInv'
  BY <1>6, NoUploadType, UploadMoves DEF UploadFails
<1>7. ASSUME NEW k \in Keys, NEW x \in Contents, ClientPuts(k, x) PROVE MediaInv'
  <2>1. /\ object' \in [Keys -> Contents \cup {Null}]
        /\ \A i \in Keys \ signed.ever : object'[i] = object[i]
    BY <1>1, <1>7 DEF ClientPuts
  <2> QED
    BY <1>1, <1>7, <2>1, OutsideSound DEF ClientPuts, Named
<1>8. ASSUME NEW k \in Keys, UrlExpires(k) PROVE MediaInv'
  <2>1. signed'.ever = signed.ever /\ signed'.open = signed.open \ {k}
        /\ signed' \in [ever : SUBSET Keys, open : SUBSET Keys]
    BY <1>1, <1>8 DEF UrlExpires
  <2> QED
    BY <1>1, <1>8, <2>1, OutsideSound DEF UrlExpires, Named
<1>9. ASSUME NEW i \in DOMAIN assets, FinalizePendingUpload(i) PROVE MediaInv'
  <2> PICK a : a = [assets[i] EXCEPT !.pending = FALSE]
    OBVIOUS
  <2>1. assets[i] \in Asset /\ assets' = [assets EXCEPT ![i] = a]
    BY <1>1, <1>9 DEF FinalizePendingUpload
  <2>2. a \in Asset /\ a.hash = assets[i].hash /\ a.key = assets[i].key
    BY <2>1 DEF Asset
  <2>3. /\ assets' \in Seq(Asset) /\ Len(assets') = Len(assets) /\ DOMAIN assets' = DOMAIN assets
        /\ \A j \in DOMAIN assets : assets'[j] = IF j = i THEN a ELSE assets[j]
    BY <1>1, <2>1, <2>2
  <2>4. \A j \in DOMAIN assets :
          <<assets'[j].hash, assets'[j].key>> = <<assets[j].hash, assets[j].key>>
    BY <2>2, <2>3
  <2>5. Named' = Named
    BY <2>3, <2>4, Zenon DEF Named
  <2> QED
    BY <1>1, <1>9, <2>3, <2>5, OutsideSound DEF FinalizePendingUpload
<1>10. CASE UNCHANGED mediaVars
  BY <1>1, <1>10, OutsideSound DEF mediaVars, Named
<1> QED
  BY <1>2, <1>3, <1>4, <1>5, <1>6, <1>7, <1>8, <1>9, <1>10, PutSound, SaveSound, SavePendingSound
  DEF MediaNext, UploadMediaFromUrl

(* What uploads rest on: what the rows name is stored, and a key in use is *)
(* one caller's.                                                           *)
THEOREM MediaIsSound == ServicesSpec => []MediaInv
<1>1. ServicesInit => MediaInv
  BY MediaInitSound DEF ServicesInit
<1>2. MediaInv /\ [ServicesNext]_servicesVars => MediaInv'
  BY MediaStepSound, PartSteps
<1> QED
  BY <1>1, <1>2, PTL DEF ServicesSpec

(* The key a caller is answered holds the caller's content for ever, for   *)
(* any number of callers and contents, unless a URL was signed for it.     *)
THEOREM AnswersAreStored == ServicesSpec => []AnsweredIsStored
  BY MediaInvGives, MediaIsSound, PTL

(* All rows of a content name one key, whatever fails, unless two callers  *)
(* uploaded it at once, the lookup failed or a URL was signed for it.      *)
THEOREM ContentsAreStoredOnce == ServicesSpec => []OneKeyPerContent
  BY MediaInvGives, MediaIsSound, PTL
-----------------------------------------------------------------------------
(* Facebook pages. *)

SyncRow == [step : {"idle", "find", "fetch", "save", "edit", "loaded"},
            account : Accounts \cup {Null}, tenant : Tenants \cup {Null},
            found : [Pages -> 0 .. MaxPageRows], fetched : [Pages -> PageTokens],
            todo : SUBSET Pages, held : SUBSET Pages,
            id : 0 .. MaxPageRows, token : PageTokens]

(* What a caller holds: rows that are there, and tokens that were issued.  *)
GoodSync(c) ==
  /\ sync[c].step \in {"find", "fetch", "save"} => sync[c].account \in Accounts
  /\ sync[c].step \in {"fetch", "save"} =>
       \A p \in Pages : sync[c].found[p] # 0 => sync[c].found[p] \in RowsOf(sync[c].account, p)
  /\ sync[c].step = "save" => \A p \in Pages : sync[c].fetched[p] <= pageToken[p]
  /\ sync[c].step \in {"edit", "loaded"} => sync[c].id \in DOMAIN pages
  /\ sync[c].step = "loaded" => sync[c].token <= pageToken[pages[sync[c].id].page]

(* As long as nobody else was busy with the page and its rows were shown,  *)
(* a caller that found none makes the only one.                            *)
Missing(c, p) ==
  \/ p \in overlapped \cup hidden
  \/ \/ sync[c].step = "fetch"
     \/ sync[c].step = "save" /\ p \in sync[c].todo
     => (sync[c].found[p] = 0 => RowsOf(sync[c].account, p) = {})

(* As long as nobody else was busy with the page, the tokens that a caller *)
(* holds are no older than those of the rows.                              *)
InTime(c, p) ==
  \/ p \in overlapped
  \/ /\ sync[c].step = "save" /\ p \in sync[c].todo =>
          \A i \in DOMAIN pages : pages[i].page = p => pages[i].token <= sync[c].fetched[p]
     /\ sync[c].step = "loaded" /\ pages[sync[c].id].page = p =>
          pages[sync[c].id].token = sync[c].token

PagesInv ==
  /\ PagesTypeOK
  /\ \A i \in DOMAIN pages : pages[i].token <= pageToken[pages[i].page]
  /\ \A c \in Callers : GoodSync(c)
  /\ \A c \in Callers : \A p \in Pages : Missing(c, p) /\ InTime(c, p)
  /\ OneRowPerPage

LEMMA PagesTyped ==
  PagesTypeOK =>
    /\ pageToken \in [Pages -> PageTokens] /\ sync \in [Callers -> SyncRow]
    /\ pages \in Seq(PageRow) /\ Len(pages) \in 0 .. MaxPageRows /\ DOMAIN pages = 1 .. Len(pages)
    /\ \A i \in DOMAIN pages : pages[i] \in PageRow /\ pages[i].page \in Pages /\ pages[i].token \in PageTokens
    /\ overlapped \subseteq Pages /\ hidden \subseteq Pages
<1> SUFFICES ASSUME PagesTypeOK
    PROVE /\ pageToken \in [Pages -> PageTokens] /\ sync \in [Callers -> SyncRow]
          /\ pages \in Seq(PageRow) /\ Len(pages) \in 0 .. MaxPageRows /\ DOMAIN pages = 1 .. Len(pages)
          /\ \A i \in DOMAIN pages : pages[i] \in PageRow /\ pages[i].page \in Pages /\ pages[i].token \in PageTokens
          /\ overlapped \subseteq Pages /\ hidden \subseteq Pages
  OBVIOUS
<1>1. pages \in Seq(PageRow) /\ Len(pages) <= MaxPageRows
  BY DEF PagesTypeOK
<1>2. \A i \in DOMAIN pages : pages[i] \in PageRow
  BY <1>1
<1>3. \A i \in DOMAIN pages : pages[i].page \in Pages /\ pages[i].token \in PageTokens
  BY <1>2 DEF PageRow
<1> QED
  BY <1>1, <1>2, <1>3, PagesAssumption DEF PagesTypeOK, SyncRow

LEMMA NoSyncType == NoSync \in SyncRow /\ NoSync.step = "idle"
  BY PagesAssumption DEF SyncRow, NoSync, PageTokens

LEMMA PagesInitSound == PagesInit => PagesInv
<1> SUFFICES ASSUME PagesInit PROVE PagesInv
  OBVIOUS
<1>1. /\ DOMAIN pages = {} /\ Len(pages) = 0 /\ pages \in Seq(PageRow)
      /\ \A c \in Callers : sync[c] = NoSync
  BY DEF PagesInit
<1>2. PagesTypeOK
  BY <1>1, NoSyncType, PagesAssumption DEF PagesInit, PagesTypeOK, SyncRow, PageTokens
<1>3. \A c \in Callers : GoodSync(c) /\ \A p \in Pages : Missing(c, p) /\ InTime(c, p)
  BY <1>1, NoSyncType DEF GoodSync, Missing, InTime
<1> QED
  BY <1>1, <1>2, <1>3 DEF PagesInv, OneRowPerPage

(* A caller goes on, and writes no row. *)
LEMMA SyncMoves ==
  ASSUME PagesInv, NEW c \in Callers, NEW k \in SyncRow, sync' = [sync EXCEPT ![c] = k],
         UNCHANGED <<pageToken, pages, overlapped>>, hidden \subseteq hidden', hidden' \subseteq Pages,
         GoodSync(c)', \A p \in Pages : (Missing(c, p) /\ InTime(c, p))'
  PROVE  PagesInv'
<1>1. \A d \in Callers : sync'[d] = IF d = c THEN k ELSE sync[d]
  BY PagesTyped DEF PagesInv
<1>2. PagesTypeOK'
  BY PagesTyped DEF PagesInv, PagesTypeOK, SyncRow
<1>3. ASSUME NEW d \in Callers PROVE GoodSync(d)' /\ \A p \in Pages : (Missing(d, p) /\ InTime(d, p))'
  <2>1. CASE d = c
    BY <2>1
  <2>2. CASE d # c
    BY <1>1, <2>2 DEF PagesInv, GoodSync, Missing, InTime, RowsOf
  <2> QED
    BY <2>1, <2>2
<1> QED
  BY <1>2, <1>3 DEF PagesInv, OneRowPerPage

(* A caller writes the row of a page and is done with it: whoever else     *)
(* holds something of the page is noted.                                   *)
LEMMA RowWritten ==
  ASSUME PagesInv, NEW c \in Callers, NEW p \in Pages, NEW k \in SyncRow,
         sync' = [sync EXCEPT ![c] = k], UNCHANGED <<pageToken, hidden>>,
         \/ k = NoSync
         \/ /\ sync[c].step = "save" /\ k.step = "save" /\ k.account = sync[c].account
            /\ k.found = sync[c].found /\ k.fetched = sync[c].fetched
            /\ k.todo = sync[c].todo \ {p},
         overlapped' = IF BusyWith(c, p) THEN overlapped \cup {p} ELSE overlapped,
         pages' \in Seq(PageRow), Len(pages') <= MaxPageRows, DOMAIN pages \subseteq DOMAIN pages',
         \A i \in DOMAIN pages : pages'[i].account = pages[i].account /\ pages'[i].page = pages[i].page,
         \A i \in DOMAIN pages' :
           \/ pages'[i].page = p /\ pages'[i].token <= pageToken[p]
           \/ i \in DOMAIN pages /\ pages'[i] = pages[i],
         OneRowPerPage'
  PROVE  PagesInv'
<1>1. \A d \in Callers : sync'[d] = IF d = c THEN k ELSE sync[d]
  BY PagesTyped DEF PagesInv
<1>2. PagesTypeOK'
  BY PagesTyped DEF PagesInv, PagesTypeOK, SyncRow
<1>3. \A i \in DOMAIN pages' : pages'[i].token <= pageToken'[pages'[i].page]
  BY DEF PagesInv
<1>4. \A a, q : RowsOf(a, q) \subseteq RowsOf(a, q)'
  BY DEF RowsOf
<1>5. \A a : \A q \in Pages \ {p} : RowsOf(a, q)' = RowsOf(a, q)
  BY DEF RowsOf
<1>6. \A i \in DOMAIN pages' : pages'[i].page # p => i \in DOMAIN pages /\ pages'[i] = pages[i]
  OBVIOUS
<1>7. k.step # "save" => k.step = "idle"
  BY NoSyncType
<1>8. ASSUME NEW d \in Callers PROVE GoodSync(d)'
  <2>1. GoodSync(d)
    BY DEF PagesInv
  <2>2. CASE d = c /\ k.step = "idle"
    BY <1>1, <2>2 DEF GoodSync
  <2>3. CASE d = c /\ k.step = "save"
    <3>1. /\ sync[c].step = "save" /\ k.account = sync[c].account
          /\ k.found = sync[c].found /\ k.fetched = sync[c].fetched
      BY <2>3, NoSyncType
    <3> QED
      BY <1>1, <1>4, <2>1, <2>3, <3>1 DEF GoodSync
  <2>4. CASE d # c
    <3>1. sync'[d] = sync[d]
      BY <1>1, <2>4
    <3> QED
      BY <1>4, <2>1, <3>1 DEF GoodSync
  <2> QED
    BY <1>7, <2>2, <2>3, <2>4
<1>9. ASSUME NEW d \in Callers, NEW q \in Pages PROVE (Missing(d, q) /\ InTime(d, q))'
  <2>1. Missing(d, q) /\ InTime(d, q) /\ GoodSync(d) /\ overlapped \subseteq overlapped'
    BY DEF PagesInv
  <2>2. CASE d # c /\ q = p
    <3>1. sync'[d] = sync[d] /\ (BusyWith(c, p) => p \in overlapped')
      BY <1>1, <2>2
    <3>2. ~BusyWith(c, p) => /\ sync[d].step # "fetch"
                             /\ ~(sync[d].step = "save" /\ p \in sync[d].todo)
                             /\ ~(sync[d].step = "loaded" /\ pages[sync[d].id].page = p)
      BY <2>2 DEF BusyWith
    <3>3. sync[d].step = "loaded" => pages'[sync[d].id].page = pages[sync[d].id].page
      BY <2>1 DEF GoodSync
    <3> QED
      BY <2>2, <3>1, <3>2, <3>3 DEF Missing, InTime
  <2>3. CASE d # c /\ q # p
    <3>1. sync'[d] = sync[d]
      BY <1>1, <2>3
    <3>2. sync[d].step = "loaded" => /\ sync[d].id \in DOMAIN pages /\ sync[d].id \in DOMAIN pages'
                                     /\ pages'[sync[d].id].page = pages[sync[d].id].page
      BY <2>1 DEF GoodSync
    <3> QED
      BY <1>5, <1>6, <2>1, <2>3, <3>1, <3>2 DEF Missing, InTime
  <2>4. CASE d = c /\ k.step = "idle"
    BY <1>1, <2>4 DEF Missing, InTime
  <2>5. CASE d = c /\ k.step = "save"
    <3>1. /\ sync[c].step = "save" /\ k.account = sync[c].account /\ k.todo = sync[c].todo \ {p}
          /\ k.found = sync[c].found /\ k.fetched = sync[c].fetched
      BY <2>5, NoSyncType
    <3>2. q \in k.todo => q # p /\ q \in sync[c].todo
      BY <3>1
    <3> QED
      BY <1>1, <1>5, <1>6, <2>1, <2>5, <3>1, <3>2 DEF Missing, InTime
  <2> QED
    BY <1>7, <2>2, <2>3, <2>4, <2>5
<1> QED
  BY <1>2, <1>3, <1>8, <1>9 DEF PagesInv
LEMMA SyncRows ==
  ASSUME NEW s \in SyncRow, NEW f \in [Pages -> PageTokens], NEW w \in SUBSET Pages, NEW p
  PROVE  /\ [s EXCEPT !.step = "save", !.todo = w, !.fetched = f] \in SyncRow
         /\ [s EXCEPT !.todo = @ \ {p}] \in SyncRow
         /\ [s EXCEPT !.todo = @ \ {p}, !.held = @ \ {p}] \in SyncRow
  BY DEF SyncRow

LEMMA FetchFields ==
  ASSUME NEW s \in SyncRow, NEW f, NEW w
  PROVE  /\ [s EXCEPT !.step = "save", !.todo = w, !.fetched = f].step = "save"
         /\ [s EXCEPT !.step = "save", !.todo = w, !.fetched = f].account = s.account
         /\ [s EXCEPT !.step = "save", !.todo = w, !.fetched = f].found = s.found
         /\ [s EXCEPT !.step = "save", !.todo = w, !.fetched = f].fetched = f
         /\ [s EXCEPT !.step = "save", !.todo = w, !.fetched = f].todo = w
  BY DEF SyncRow

LEMMA TodoFields ==
  ASSUME NEW s \in SyncRow, NEW p, NEW k, k = [s EXCEPT !.todo = @ \ {p}]
  PROVE  /\ k.step = s.step /\ k.account = s.account /\ k.found = s.found /\ k.fetched = s.fetched
         /\ k.todo = s.todo \ {p}
  BY DEF SyncRow

LEMMA HeldFields ==
  ASSUME NEW s \in SyncRow, NEW p
  PROVE  /\ [s EXCEPT !.todo = @ \ {p}, !.held = @ \ {p}].step = s.step
         /\ [s EXCEPT !.todo = @ \ {p}, !.held = @ \ {p}].account = s.account
         /\ [s EXCEPT !.todo = @ \ {p}, !.held = @ \ {p}].found = s.found
         /\ [s EXCEPT !.todo = @ \ {p}, !.held = @ \ {p}].fetched = s.fetched
         /\ [s EXCEPT !.todo = @ \ {p}, !.held = @ \ {p}].todo = s.todo \ {p}
  BY DEF SyncRow

LEMMA StartType ==
  ASSUME NEW a \in Accounts, NEW u \in Tenants \cup {Null}
  PROVE  /\ [NoSync EXCEPT !.step = "find", !.account = a, !.tenant = u] \in SyncRow
         /\ [NoSync EXCEPT !.step = "find", !.account = a, !.tenant = u].step = "find"
         /\ [NoSync EXCEPT !.step = "find", !.account = a, !.tenant = u].account = a
  BY NoSyncType DEF SyncRow

LEMMA FoundType ==
  ASSUME NEW s \in SyncRow, NEW found \in [Pages -> 0 .. MaxPageRows]
  PROVE  /\ [s EXCEPT !.step = "fetch", !.found = found] \in SyncRow
         /\ [s EXCEPT !.step = "fetch", !.found = found].step = "fetch"
         /\ [s EXCEPT !.step = "fetch", !.found = found].account = s.account
         /\ [s EXCEPT !.step = "fetch", !.found = found].found = found
  BY DEF SyncRow

LEMMA HeldType ==
  ASSUME NEW s \in SyncRow, NEW p \in Pages, NEW k, k = [s EXCEPT !.held = @ \cup {p}]
  PROVE  /\ k \in SyncRow /\ k.step = s.step /\ k.account = s.account /\ k.found = s.found
         /\ k.fetched = s.fetched /\ k.todo = s.todo /\ k.id = s.id /\ k.token = s.token
  BY DEF SyncRow

LEMMA EditType ==
  ASSUME NEW i \in 0 .. MaxPageRows
  PROVE  /\ [NoSync EXCEPT !.step = "edit", !.id = i] \in SyncRow
         /\ [NoSync EXCEPT !.step = "edit", !.id = i].step = "edit"
         /\ [NoSync EXCEPT !.step = "edit", !.id = i].id = i
  BY NoSyncType DEF SyncRow

LEMMA LoadType ==
  ASSUME NEW s \in SyncRow, NEW t \in PageTokens
  PROVE  /\ [s EXCEPT !.step = "loaded", !.token = t] \in SyncRow
         /\ [s EXCEPT !.step = "loaded", !.token = t].step = "loaded"
         /\ [s EXCEPT !.step = "loaded", !.token = t].id = s.id
         /\ [s EXCEPT !.step = "loaded", !.token = t].token = t
  BY DEF SyncRow

(* The steps that read.                                                    *)
LEMMA ReadSound ==
  ASSUME PagesInv, TenantTypeOK, NEW c \in Callers,
         \/ \E a \in Accounts : GetUserPages(c, a)
         \/ \E found \in [Pages -> 0 .. Len(pages)] : GetAccountPages(c, found)
         \/ FetchPages(c)
         \/ \E p \in Pages : FindPage(c, p) \/ PageOperationFails(c, p)
         \/ GotUserPages(c)
         \/ \E i \in DOMAIN pages : EditPage(c, i) \/ CollectPageInsights(c, i)
         \/ LoadPage(c) \/ SyncFails(c)
  PROVE  PagesInv'
<1>1. /\ sync[c] \in SyncRow /\ sync \in [Callers -> SyncRow] /\ pageToken \in [Pages -> PageTokens]
      /\ Len(pages) \in 0 .. MaxPageRows /\ DOMAIN pages = 1 .. Len(pages)
      /\ \A i \in DOMAIN pages : pages[i].page \in Pages /\ pages[i].token \in PageTokens
      /\ hidden \subseteq Pages
  BY PagesTyped DEF PagesInv
<1>2. GoodSync(c) /\ \A p \in Pages : Missing(c, p) /\ InTime(c, p)
  BY DEF PagesInv
<1>3. ASSUME NEW a \in Accounts, GetUserPages(c, a) PROVE PagesInv'
  <2> PICK k : k = [NoSync EXCEPT !.step = "find", !.account = a, !.tenant = tenantId]
    OBVIOUS
  <2>1. k \in SyncRow /\ k.step = "find" /\ k.account = a
    BY StartType DEF TenantTypeOK
  <2>2. sync' = [sync EXCEPT ![c] = k] /\ UNCHANGED <<pageToken, pages, overlapped, hidden>>
    BY <1>3 DEF GetUserPages
  <2>3. sync'[c] = k
    BY <1>1, <2>2
  <2>4. GoodSync(c)' /\ \A p \in Pages : (Missing(c, p) /\ InTime(c, p))'
    BY <2>1, <2>3 DEF GoodSync, Missing, InTime
  <2> QED
    BY <1>1, <2>1, <2>2, <2>4, SyncMoves
<1>9. ASSUME NEW found \in [Pages -> 0 .. Len(pages)], GetAccountPages(c, found)
      PROVE  PagesInv'
  <2> PICK k : k = [sync[c] EXCEPT !.step = "fetch", !.found = found]
    OBVIOUS
  <2> PICK a : a = sync[c].account
    OBVIOUS
  <2>1. found \in [Pages -> 0 .. MaxPageRows]
    BY <1>1, PagesAssumption
  <2>2. k \in SyncRow /\ k.step = "fetch" /\ k.account = a /\ k.found = found
    BY <1>1, <2>1, FoundType
  <2>3. /\ sync[c].step = "find" /\ UNCHANGED <<pageToken, pages, overlapped>>
        /\ hidden' = IF Shows(a) THEN hidden ELSE hidden \cup {p \in Pages : RowsOf(a, p) # {}}
        /\ \A p \in Pages : found[p] \in (IF Shows(a) /\ p \in {q \in Pages : RowsOf(a, q) # {}}
                                           THEN RowsOf(a, p) ELSE {0})
    BY <1>9 DEF GetAccountPages
  <2>4. sync' = [sync EXCEPT ![c] = k]
    BY <1>1, <1>9 DEF GetAccountPages
  <2>5. sync'[c] = k
    BY <1>1, <2>4
  <2>6. \A p \in Pages : /\ found[p] # 0 => found[p] \in RowsOf(a, p)
                         /\ found[p] = 0 => RowsOf(a, p) = {} \/ p \in hidden'
    <3>1. \A p \in Pages : 0 \notin RowsOf(a, p)
      BY <1>1 DEF RowsOf
    <3> QED
      BY <2>3, <3>1
  <2>7. \A p \in Pages : RowsOf(a, p)' = RowsOf(a, p)
    BY <2>3 DEF RowsOf
  <2>8. hidden \subseteq hidden' /\ hidden' \subseteq Pages
    BY <1>1, <2>3
  <2>9. GoodSync(c)'
    BY <1>2, <2>2, <2>3, <2>5, <2>6, <2>7 DEF GoodSync
  <2>10. \A p \in Pages : (Missing(c, p) /\ InTime(c, p))'
    BY <2>2, <2>5, <2>6, <2>7 DEF Missing, InTime
  <2> QED
    BY <2>2, <2>3, <2>4, <2>8, <2>9, <2>10, SyncMoves
<1>4. CASE FetchPages(c)
  <2> PICK k : k = [sync[c] EXCEPT !.step = "save", !.todo = Writable(c), !.fetched = pageToken]
    OBVIOUS
  <2>1. k \in SyncRow
    BY <1>1, SyncRows DEF Writable
  <2>2. k.step = "save" /\ k.account = sync[c].account /\ k.found = sync[c].found
        /\ k.fetched = pageToken /\ k.todo = Writable(c)
    BY <1>1, FetchFields
  <2>3. sync[c].step = "fetch" /\ UNCHANGED <<pageToken, pages, overlapped, hidden>>
    BY <1>4 DEF FetchPages
  <2>4. sync' = [sync EXCEPT ![c] = k]
    BY <1>1, <1>4 DEF FetchPages
  <2>5. sync'[c] = k
    BY <1>1, <2>4
  <2>6. \A a, p : RowsOf(a, p)' = RowsOf(a, p)
    BY <2>3 DEF RowsOf
  <2>7. GoodSync(c)'
    BY <1>1, <1>2, <2>2, <2>3, <2>5, <2>6 DEF GoodSync, PageTokens
  <2>8. \A i \in DOMAIN pages : pages[i].token <= pageToken[pages[i].page]
    BY DEF PagesInv
  <2>9. \A p \in Pages : (Missing(c, p) /\ InTime(c, p))'
    BY <1>2, <2>2, <2>3, <2>5, <2>6, <2>8 DEF Missing, InTime, Writable
  <2> QED
    BY <1>1, <2>1, <2>3, <2>4, <2>7, <2>9, SyncMoves
<1>5. ASSUME NEW p \in Pages, PageOperationFails(c, p) PROVE PagesInv'
  <2> PICK k : k = [sync[c] EXCEPT !.todo = @ \ {p}, !.held = @ \ {p}]
    OBVIOUS
  <2>1. k \in SyncRow
    BY <1>1, SyncRows
  <2>2. /\ k.step = sync[c].step /\ k.account = sync[c].account /\ k.found = sync[c].found
        /\ k.fetched = sync[c].fetched /\ k.todo = sync[c].todo \ {p}
    BY <1>1, HeldFields
  <2>3. sync[c].step = "save" /\ UNCHANGED <<pageToken, pages, overlapped, hidden>>
    BY <1>5 DEF PageOperationFails
  <2>4. sync' = [sync EXCEPT ![c] = k]
    BY <1>1, <1>5 DEF PageOperationFails
  <2>5. sync'[c] = k
    BY <1>1, <2>4
  <2>6. \A a, q : RowsOf(a, q)' = RowsOf(a, q)
    BY <2>3 DEF RowsOf
  <2>7. GoodSync(c)'
    BY <1>2, <2>2, <2>3, <2>5, <2>6 DEF GoodSync
  <2>8. \A q \in Pages : (Missing(c, q) /\ InTime(c, q))'
    BY <1>2, <2>2, <2>3, <2>5, <2>6 DEF Missing, InTime
  <2> QED
    BY <1>1, <2>1, <2>3, <2>4, <2>7, <2>8, SyncMoves
<1>10. ASSUME NEW p \in Pages, FindPage(c, p) PROVE PagesInv'
  <2> PICK k : k = [sync[c] EXCEPT !.held = @ \cup {p}]
    OBVIOUS
  <2>1. /\ k \in SyncRow /\ k.step = sync[c].step /\ k.account = sync[c].account /\ k.found = sync[c].found
        /\ k.fetched = sync[c].fetched /\ k.todo = sync[c].todo
    BY <1>1, HeldType
  <2>2. sync[c].step = "save" /\ UNCHANGED <<pageToken, pages, overlapped, hidden>>
    BY <1>10 DEF FindPage
  <2>3. sync' = [sync EXCEPT ![c] = k]
    BY <1>1, <1>10 DEF FindPage
  <2>4. sync'[c] = k
    BY <1>1, <2>3
  <2>5. \A a, q : RowsOf(a, q)' = RowsOf(a, q)
    BY <2>2 DEF RowsOf
  <2>6. GoodSync(c)' /\ \A q \in Pages : (Missing(c, q) /\ InTime(c, q))'
    BY <1>2, <2>1, <2>2, <2>4, <2>5 DEF GoodSync, Missing, InTime
  <2> QED
    BY <1>1, <2>1, <2>2, <2>3, <2>6, SyncMoves
<1>6. CASE GotUserPages(c) \/ SyncFails(c)
  <2>1. sync' = [sync EXCEPT ![c] = NoSync] /\ UNCHANGED <<pageToken, pages, overlapped, hidden>>
    BY <1>6 DEF GotUserPages, SyncFails
  <2>2. sync'[c] = NoSync
    BY <1>1, <2>1
  <2>3. GoodSync(c)' /\ \A p \in Pages : (Missing(c, p) /\ InTime(c, p))'
    BY <2>2, NoSyncType DEF GoodSync, Missing, InTime
  <2> QED
    BY <1>1, <2>1, <2>3, NoSyncType, SyncMoves
<1>7. ASSUME NEW i \in DOMAIN pages, EditPage(c, i) PROVE PagesInv'
  <2> PICK k : k = [NoSync EXCEPT !.step = "edit", !.id = i]
    OBVIOUS
  <2>1. i \in 0 .. MaxPageRows
    BY <1>1, PagesAssumption
  <2>2. k \in SyncRow /\ k.step = "edit" /\ k.id = i
    BY <2>1, EditType
  <2>3. sync' = [sync EXCEPT ![c] = k] /\ UNCHANGED <<pageToken, pages, overlapped, hidden>>
    BY <1>7 DEF EditPage
  <2>4. sync'[c] = k
    BY <1>1, <2>3
  <2>5. GoodSync(c)' /\ \A p \in Pages : (Missing(c, p) /\ InTime(c, p))'
    BY <2>2, <2>3, <2>4 DEF GoodSync, Missing, InTime
  <2> QED
    BY <1>1, <2>2, <2>3, <2>5, SyncMoves
<1>8. CASE LoadPage(c)
  <2> PICK k : k = [sync[c] EXCEPT !.step = "loaded", !.token = pages[sync[c].id].token]
    OBVIOUS
  <2>1. sync[c].step = "edit" /\ UNCHANGED <<pageToken, pages, overlapped, hidden>>
    BY <1>8 DEF LoadPage
  <2>2. sync[c].id \in DOMAIN pages
    BY <1>2, <2>1 DEF GoodSync
  <2>3. k \in SyncRow /\ k.step = "loaded" /\ k.id = sync[c].id /\ k.token = pages[sync[c].id].token
    <3>1. pages[sync[c].id].token \in PageTokens
      BY <1>1, <2>2
    <3> QED
      BY <1>1, <3>1, LoadType
  <2>4. sync' = [sync EXCEPT ![c] = k]
    BY <1>1, <1>8 DEF LoadPage
  <2>5. sync'[c] = k
    BY <1>1, <2>4
  <2>6. \A i \in DOMAIN pages : pages[i].token <= pageToken[pages[i].page]
    BY DEF PagesInv
  <2>7. GoodSync(c)' /\ \A p \in Pages : (Missing(c, p) /\ InTime(c, p))'
    BY <2>1, <2>2, <2>3, <2>5, <2>6 DEF GoodSync, Missing, InTime
  <2> QED
    BY <1>1, <2>1, <2>3, <2>4, <2>7, SyncMoves
<1> QED
  BY <1>3, <1>4, <1>5, <1>6, <1>7, <1>8, <1>9, <1>10 DEF CollectPageInsights

(* A page is made: there was none.                                         *)
LEMMA CreatePageSound ==
  ASSUME PagesInv, NEW c \in Callers, NEW p \in Pages, CreatePage(c, p)
  PROVE  PagesInv'
<1> PICK k : k = [sync[c] EXCEPT !.todo = @ \ {p}]
  OBVIOUS
<1> PICK r : r = [account |-> sync[c].account, page |-> p, token |-> sync[c].fetched[p]]
  OBVIOUS
<1>1. /\ sync[c] \in SyncRow /\ sync \in [Callers -> SyncRow] /\ pageToken \in [Pages -> PageTokens]
      /\ pages \in Seq(PageRow) /\ DOMAIN pages = 1 .. Len(pages) /\ Len(pages) \in Nat
  BY PagesTyped DEF PagesInv
<1>2. /\ sync[c].step = "save" /\ p \in sync[c].todo /\ sync[c].found[p] = 0
      /\ Len(pages) < MaxPageRows /\ pages' = Append(pages, r) /\ UNCHANGED <<pageToken, hidden>>
      /\ overlapped' = IF BusyWith(c, p) THEN overlapped \cup {p} ELSE overlapped
  BY DEF CreatePage
<1>3. sync' = [sync EXCEPT ![c] = k]
  BY <1>1 DEF CreatePage
<1>4. k \in SyncRow
  BY <1>1, SyncRows
<1>5. /\ k.step = sync[c].step /\ k.account = sync[c].account /\ k.found = sync[c].found
      /\ k.fetched = sync[c].fetched /\ k.todo = sync[c].todo \ {p}
  BY <1>1, TodoFields
<1>6. /\ sync[c].account \in Accounts /\ sync[c].fetched[p] \in PageTokens
      /\ sync[c].fetched[p] <= pageToken[p]
  BY <1>1, <1>2 DEF PagesInv, GoodSync, SyncRow
<1>7. r \in PageRow /\ r.page = p /\ r.token <= pageToken[p] /\ r.account = sync[c].account
  BY <1>6 DEF PageRow
<1>8. /\ pages' \in Seq(PageRow) /\ Len(pages') <= MaxPageRows
      /\ DOMAIN pages' = 1 .. Len(pages) + 1 /\ pages'[Len(pages) + 1] = r
      /\ \A i \in DOMAIN pages : pages'[i] = pages[i]
      /\ \A i \in DOMAIN pages' : i \in DOMAIN pages \/ i = Len(pages) + 1
      /\ DOMAIN pages \subseteq DOMAIN pages'
  BY <1>1, <1>2, <1>7, PagesAssumption
<1>9. p \in overlapped \cup hidden \/ \A i \in DOMAIN pages : ~(pages[i].account = r.account /\ pages[i].page = p)
  BY <1>2, <1>7 DEF PagesInv, Missing, RowsOf
<1>10. overlapped \subseteq overlapped'
  BY <1>2
<1>16. hidden' = hidden
  BY <1>2
<1>11. ASSUME NEW i \in DOMAIN pages', NEW j \in DOMAIN pages',
              pages'[i].account = pages'[j].account, pages'[i].page = pages'[j].page
       PROVE  i = j \/ pages'[i].page \in overlapped' \cup hidden'
  BY <1>7, <1>8, <1>9, <1>10, <1>11, <1>16 DEF PagesInv, OneRowPerPage
<1>12. OneRowPerPage'
  BY <1>11 DEF OneRowPerPage
<1>13. /\ sync[c].step = "save" /\ k.step = "save" /\ k.account = sync[c].account
       /\ k.found = sync[c].found /\ k.fetched = sync[c].fetched /\ k.todo = sync[c].todo \ {p}
  BY <1>2, <1>5
<1>14. \A i \in DOMAIN pages' :
         \/ pages'[i].page = p /\ pages'[i].token <= pageToken[p]
         \/ i \in DOMAIN pages /\ pages'[i] = pages[i]
  BY <1>7, <1>8
<1>15. \A i \in DOMAIN pages : pages'[i].account = pages[i].account /\ pages'[i].page = pages[i].page
  BY <1>8
<1> QED
  BY <1>2, <1>3, <1>4, <1>8, <1>12, <1>13, <1>14, <1>15, RowWritten, Zenon

(* The row of a page is overwritten: with what Facebook answered, or with  *)
(* what it was loaded with.                                                *)
LEMMA OverwriteSound ==
  ASSUME PagesInv, NEW c \in Callers, NEW i \in DOMAIN pages, NEW t \in PageTokens,
         NEW p \in Pages, NEW k \in SyncRow,
         pages[i].page = p, t <= pageToken[p], pages' = [pages EXCEPT ![i].token = t],
         sync' = [sync EXCEPT ![c] = k], UNCHANGED <<pageToken, hidden>>,
         \/ k = NoSync
         \/ /\ sync[c].step = "save" /\ k.step = "save" /\ k.account = sync[c].account
            /\ k.found = sync[c].found /\ k.fetched = sync[c].fetched
            /\ k.todo = sync[c].todo \ {p},
         overlapped' = IF BusyWith(c, p) THEN overlapped \cup {p} ELSE overlapped
  PROVE  PagesInv'
<1> PICK r : r = [pages[i] EXCEPT !.token = t]
  OBVIOUS
<1>1. /\ pages \in Seq(PageRow) /\ DOMAIN pages = 1 .. Len(pages) /\ pages[i] \in PageRow
      /\ Len(pages) <= MaxPageRows
  BY PagesTyped DEF PagesInv, PagesTypeOK
<1>2. r \in PageRow /\ r.token = t /\ r.page = p /\ r.account = pages[i].account
  BY <1>1 DEF PageRow
<1>3. pages' = [pages EXCEPT ![i] = r]
  BY <1>1
<1>4. /\ pages' \in Seq(PageRow) /\ Len(pages') = Len(pages) /\ DOMAIN pages' = DOMAIN pages
      /\ \A j \in DOMAIN pages : pages'[j] = IF j = i THEN r ELSE pages[j]
  BY <1>1, <1>2, <1>3
<1>5. \A j \in DOMAIN pages : pages'[j].account = pages[j].account /\ pages'[j].page = pages[j].page
  BY <1>2, <1>4
<1>6. OneRowPerPage'
  <2>1. overlapped \subseteq overlapped'
    OBVIOUS
  <2> QED
    BY <1>4, <1>5, <2>1 DEF PagesInv, OneRowPerPage
<1>7. \A j \in DOMAIN pages' :
        \/ pages'[j].page = p /\ pages'[j].token <= pageToken[p]
        \/ j \in DOMAIN pages /\ pages'[j] = pages[j]
  BY <1>2, <1>4
<1>8. Len(pages') <= MaxPageRows /\ DOMAIN pages \subseteq DOMAIN pages'
  BY <1>1, <1>4
<1>9. /\ PagesInv /\ c \in Callers /\ p \in Pages /\ k \in SyncRow
      /\ sync' = [sync EXCEPT ![c] = k] /\ UNCHANGED <<pageToken, hidden>>
      /\ \/ k = NoSync
         \/ /\ sync[c].step = "save" /\ k.step = "save" /\ k.account = sync[c].account
            /\ k.found = sync[c].found /\ k.fetched = sync[c].fetched
            /\ k.todo = sync[c].todo \ {p}
      /\ overlapped' = IF BusyWith(c, p) THEN overlapped \cup {p} ELSE overlapped
  OBVIOUS
<1>10. pages' \in Seq(PageRow)
  BY <1>4
<1> QED
  BY ONLY <1>5, <1>6, <1>7, <1>8, <1>9, <1>10, RowWritten

LEMMA UpdatePageSound ==
  ASSUME PagesInv, NEW c \in Callers, NEW p \in Pages, UpdatePage(c, p)
  PROVE  PagesInv'
<1> PICK k : k = [sync[c] EXCEPT !.todo = @ \ {p}, !.held = @ \ {p}]
  OBVIOUS
<1>1. sync[c] \in SyncRow /\ sync \in [Callers -> SyncRow] /\ pageToken \in [Pages -> PageTokens]
  BY PagesTyped DEF PagesInv
<1>3. sync' = [sync EXCEPT ![c] = k]
  BY <1>1 DEF UpdatePage
<1>4. k \in SyncRow
  BY <1>1, SyncRows
<1>5. /\ k.step = sync[c].step /\ k.account = sync[c].account /\ k.found = sync[c].found
      /\ k.fetched = sync[c].fetched /\ k.todo = sync[c].todo \ {p}
  BY <1>1, HeldFields
<1> PICK i : i = sync[c].found[p]
  OBVIOUS
<1> PICK t : t = sync[c].fetched[p]
  OBVIOUS
<1>2. /\ sync[c].step = "save" /\ i # 0 /\ pages' = [pages EXCEPT ![i].token = t]
      /\ UNCHANGED <<pageToken, hidden>>
      /\ overlapped' = IF BusyWith(c, p) THEN overlapped \cup {p} ELSE overlapped
  BY DEF UpdatePage
<1>6. i \in DOMAIN pages /\ pages[i].page = p /\ t <= pageToken[p]
  BY <1>2 DEF PagesInv, GoodSync, RowsOf
<1>7. t \in PageTokens
  BY <1>1 DEF SyncRow
<1> QED
  BY <1>2, <1>3, <1>4, <1>5, <1>6, <1>7, OverwriteSound

LEMMA SavePageSound ==
  ASSUME PagesInv, NEW c \in Callers, SavePage(c)
  PROVE  PagesInv'
<1> PICK i : i = sync[c].id
  OBVIOUS
<1> PICK t : t = sync[c].token
  OBVIOUS
<1>1. sync[c] \in SyncRow
  BY PagesTyped DEF PagesInv
<1>2. /\ sync[c].step = "loaded" /\ pages' = [pages EXCEPT ![i].token = t]
      /\ sync' = [sync EXCEPT ![c] = NoSync] /\ UNCHANGED <<pageToken, hidden>>
      /\ overlapped' = IF BusyWith(c, pages[i].page) THEN overlapped \cup {pages[i].page} ELSE overlapped
  BY DEF SavePage
<1>3. i \in DOMAIN pages /\ t <= pageToken[pages[i].page]
  BY <1>2 DEF PagesInv, GoodSync
<1>4. t \in PageTokens /\ pages[i].page \in Pages
  BY <1>1, <1>3, PagesTyped DEF PagesInv, SyncRow
<1> QED
  BY <1>2, <1>3, <1>4, NoSyncType, OverwriteSound

(* A page gets a new token: what was issued before is no newer.            *)
LEMMA RotateSound ==
  ASSUME PagesInv, NEW p \in Pages, RotatePageToken(p)
  PROVE  PagesInv'
<1>1. /\ pageToken[p] < MaxPageToken /\ pageToken' = [pageToken EXCEPT ![p] = @ + 1]
      /\ UNCHANGED <<pages, sync, overlapped, hidden>>
  BY DEF RotatePageToken
<1>2. /\ pageToken \in [Pages -> PageTokens] /\ sync \in [Callers -> SyncRow]
      /\ \A i \in DOMAIN pages : pages[i].page \in Pages /\ pages[i].token \in PageTokens
  BY PagesTyped DEF PagesInv
<1>3. /\ pageToken' \in [Pages -> PageTokens]
      /\ \A q \in Pages : \A t \in PageTokens : t <= pageToken[q] => t <= pageToken'[q]
  BY <1>1, <1>2, PagesAssumption DEF PageTokens
<1>4. PagesTypeOK'
  BY <1>1, <1>3 DEF PagesInv, PagesTypeOK
<1>5. \A i \in DOMAIN pages' : pages'[i].token <= pageToken'[pages'[i].page]
  BY <1>1, <1>2, <1>3 DEF PagesInv
<1>6. ASSUME NEW c \in Callers PROVE GoodSync(c)'
  <2>1. GoodSync(c) /\ sync[c] \in SyncRow
    BY <1>2 DEF PagesInv
  <2>2. sync[c].token \in PageTokens /\ \A q \in Pages : sync[c].fetched[q] \in PageTokens
    BY <2>1 DEF SyncRow
  <2>3. \A a, q : RowsOf(a, q)' = RowsOf(a, q)
    BY <1>1 DEF RowsOf
  <2> QED
    BY <1>1, <1>2, <1>3, <2>1, <2>2, <2>3 DEF GoodSync
<1>7. \A c \in Callers : \A q \in Pages : (Missing(c, q) /\ InTime(c, q))'
  BY <1>1 DEF PagesInv, Missing, InTime, RowsOf
<1> QED
  BY <1>1, <1>4, <1>5, <1>6, <1>7 DEF PagesInv, OneRowPerPage

LEMMA PagesStepSound == PagesInv /\ TenantTypeOK /\ [PagesNext]_pageVars => PagesInv'
<1> SUFFICES ASSUME PagesInv, TenantTypeOK, [PagesNext]_pageVars PROVE PagesInv'
  OBVIOUS
<1>1. CASE UNCHANGED pageVars
  <2>1. PagesTypeOK' /\ OneRowPerPage'
    BY <1>1 DEF pageVars, PagesInv, PagesTypeOK, OneRowPerPage
  <2>2. \A c \in Callers : GoodSync(c)' /\ \A p \in Pages : (Missing(c, p) /\ InTime(c, p))'
    BY <1>1 DEF pageVars, PagesInv, GoodSync, Missing, InTime, RowsOf
  <2> QED
    BY <1>1, <2>1, <2>2 DEF pageVars, PagesInv
<1> QED
  BY <1>1, ReadSound, CreatePageSound, UpdatePageSound, SavePageSound, RotateSound DEF PagesNext, PagesStep

(* A row gets an older token only from a caller that was not alone.        *)
LEMMA TokenStandsStep ==
  PagesInv /\ [PagesNext]_pageVars =>
    [\A i \in DOMAIN pages : pages'[i].token < pages[i].token => pages[i].page \in overlapped']_pageVars
<1> SUFFICES ASSUME PagesInv, PagesNext, NEW i \in DOMAIN pages, pages'[i].token < pages[i].token
             PROVE  pages[i].page \in overlapped'
  BY DEF pageVars
<1>1. /\ pages \in Seq(PageRow) /\ DOMAIN pages = 1 .. Len(pages) /\ pages[i] \in PageRow
      /\ pages[i].token \in Nat
  BY PagesTyped, PagesAssumption DEF PagesInv, PageTokens
<1>2. pages' # pages
  BY <1>1
<1>3. ASSUME NEW c \in Callers, NEW p \in Pages, CreatePage(c, p) PROVE FALSE
  <2>1. pages'[i] = pages[i]
    BY <1>1, <1>3 DEF CreatePage
  <2> QED
    BY <1>1, <2>1
<1>4. ASSUME NEW c \in Callers, NEW p \in Pages, UpdatePage(c, p) PROVE pages[i].page \in overlapped'
  <2>1. /\ sync[c].step = "save" /\ p \in sync[c].todo /\ sync[c].found[p] # 0
        /\ pages' = [pages EXCEPT ![sync[c].found[p]].token = sync[c].fetched[p]]
        /\ overlapped \subseteq overlapped'
    BY <1>4 DEF UpdatePage
  <2>2. GoodSync(c) /\ InTime(c, p) /\ sync[c] \in SyncRow
    BY PagesTyped DEF PagesInv
  <2>3. sync[c].found[p] \in DOMAIN pages /\ pages[sync[c].found[p]].page = p
    BY <2>1, <2>2 DEF GoodSync, RowsOf
  <2>4. i = sync[c].found[p] /\ pages'[i].token = sync[c].fetched[p]
    BY <1>1, <2>1, <2>3 DEF PageRow
  <2>5. sync[c].fetched[p] \in Nat
    BY <2>2, PagesAssumption DEF SyncRow, PageTokens
  <2> QED
    BY <1>1, <2>1, <2>2, <2>3, <2>4, <2>5 DEF InTime
<1>5. ASSUME NEW c \in Callers, SavePage(c) PROVE pages[i].page \in overlapped'
  <2>1. /\ sync[c].step = "loaded" /\ pages' = [pages EXCEPT ![sync[c].id].token = sync[c].token]
        /\ overlapped \subseteq overlapped'
    BY <1>5 DEF SavePage
  <2>2. GoodSync(c) /\ pages[i].page \in Pages
    BY PagesTyped DEF PagesInv
  <2>3. i = sync[c].id /\ pages'[i].token = sync[c].token
    BY <1>1, <2>1, <2>2 DEF GoodSync, PageRow
  <2>4. InTime(c, pages[i].page)
    BY <2>2 DEF PagesInv
  <2> QED
    BY <1>1, <2>1, <2>3, <2>4 DEF Missing, InTime
<1> QED
  BY <1>2, <1>3, <1>4, <1>5
  DEF PagesNext, PagesStep, pageVars, GetUserPages, GetAccountPages, FetchPages, FindPage, PageOperationFails, GotUserPages, EditPage,
      CollectPageInsights, LoadPage, SyncFails, RotatePageToken

(* What the callers hold of pages is there, and is what the rows are as    *)
(* long as nobody else was busy with the page.                             *)
THEOREM PagesAreSound == ServicesSpec => []PagesInv
<1>1. ServicesInit => PagesInv /\ TenantTypeOK
  BY PagesInitSound, TenantInitTyped DEF ServicesInit
<1>2. PagesInv /\ TenantTypeOK /\ [ServicesNext]_servicesVars => (PagesInv /\ TenantTypeOK)'
  BY PagesStepSound, TenantStepTyped, PartSteps
<1> QED
  BY <1>1, <1>2, PTL DEF ServicesSpec

(* However often the pages of an account are read, it has one row for each *)
(* page, unless two callers were busy with the page at once, or another    *)
(* tenant's request came before a look-up that there was something to find *)
(* for.                                                                    *)
THEOREM PagesAreOne == ServicesSpec => []OneRowPerPage
<1>1. PagesInv => OneRowPerPage
  BY DEF PagesInv
<1> QED
  BY <1>1, PagesAreSound, PTL

(* No save puts an older token back, for any number of callers and tokens, *)
(* unless another caller was busy with the page.                           *)
THEOREM TokensStand == ServicesSpec => TokenStands
<1>1. PagesInv /\ [ServicesNext]_servicesVars =>
        [\A i \in DOMAIN pages : pages'[i].token < pages[i].token => pages[i].page \in overlapped']_pageVars
  BY TokenStandsStep, PartSteps
<1> QED
  BY <1>1, PagesAreSound, PTL DEF ServicesSpec, TokenStands
-----------------------------------------------------------------------------
(* Types. *)

(* The parts keep their types, for all values of the bounds.               *)
THEOREM ServicesAreTyped == ServicesSpec => []ServicesTypeOK
<1>1. ServicesInit => part \in Parts /\ RateInv /\ TenantTypeOK
  BY RateInitSound, TenantInitTyped DEF ServicesInit
<1>2. part \in Parts /\ RateInv /\ TenantTypeOK /\ [ServicesNext]_servicesVars =>
        (part \in Parts /\ RateInv /\ TenantTypeOK)'
  BY RateStepSound, TenantStepTyped, PartSteps
<1>3. part \in Parts /\ RateInv /\ TenantTypeOK /\ AuthInv /\ PagesInv /\ MediaInv /\ SyncInv =>
        ServicesTypeOK
  BY DEF ServicesTypeOK, RateInv, AuthInv, PagesInv, MediaInv, SyncInv
<1> QED
  BY <1>1, <1>2, <1>3, AuthIsSound, PagesAreSound, MediaIsSound, SyncIsSound, PTL DEF ServicesSpec

-----------------------------------------------------------------------------
(* Taking turns.  Each exception that the properties above make is met     *)
(* only where two callers overlap, another tenant's request comes between, *)
(* the file or a look-up fails, or an event names a strange tenant:        *)
(* behaviours in which that does not happen keep the properties without.   *)

(* No worker saves what somebody else has changed, and no event names a    *)
(* tenant that is none of the user's.                                      *)
WorkersTakeTurns ==
  [][\A w \in Callers : Saves(w) /\ user' # user => ~Outdated(w) /\ ~Crossed(w)]_syncVars

EventsNameMembers ==
  [][\A w \in Callers, u \in Members, t \in Tenants :
       NamesTenant(w, u, t) => t \in user[u].tenants]_syncVars

NobodyBare == \A u \in Members : ~Bare(user[u])

(* UserTenantService, UserService: the active tenant of every user is one  *)
(* of the user's, or none, at all times, if workers take turns and events  *)
(* about users name no strange tenant; in whatever order, however late and *)
(* however often the events come, and whichever jobs fail.                 *)
THEOREM TurnsKeepActive ==
  ServicesSpec /\ WorkersTakeTurns /\ EventsNameMembers => []NobodyBare
<1>1. ServicesInit => NobodyBare
  BY DEF ServicesInit, SyncInit, NoUser, NobodyBare, Bare
<1>2. ASSUME SyncInv, NobodyBare, [SyncNext]_syncVars,
             [\A w \in Callers : Saves(w) /\ user' # user => ~Outdated(w) /\ ~Crossed(w)]_syncVars,
             [\A w \in Callers, u \in Members, t \in Tenants :
                NamesTenant(w, u, t) => t \in user[u].tenants]_syncVars
      PROVE  NobodyBare'
  <2> SUFFICES ASSUME NEW u \in Members, Bare(user'[u]) PROVE FALSE
    BY DEF NobodyBare
  <2>1. ~Bare(user[u])
    BY <1>2 DEF NobodyBare
  <2>2. user' # user
    BY <2>1
  <2>3. ~UNCHANGED syncVars
    BY <2>2 DEF syncVars
  <2>4. PICK w \in Callers :
          \/ \E t \in Tenants \ user[u].tenants : NamesTenant(w, u, t)
          \/ Saves(w) /\ Outdated(w)
          \/ Saves(w) /\ Crossed(w)
    BY <1>2, <2>1, ActiveStep
  <2>5. Saves(w) => ~Outdated(w) /\ ~Crossed(w)
    BY <1>2, <2>2, <2>3
  <2>6. \A t \in Tenants : NamesTenant(w, u, t) => t \in user[u].tenants
    BY <1>2, <2>3
  <2> QED
    BY <2>4, <2>5, <2>6
<1>3. SyncInv /\ NobodyBare /\ [ServicesNext]_servicesVars
      /\ [\A w \in Callers : Saves(w) /\ user' # user => ~Outdated(w) /\ ~Crossed(w)]_syncVars
      /\ [\A w \in Callers, u \in Members, t \in Tenants :
            NamesTenant(w, u, t) => t \in user[u].tenants]_syncVars
      => NobodyBare'
  BY <1>2, PartSteps
<1> QED
  BY <1>1, <1>3, SyncIsSound, PTL DEF ServicesSpec, WorkersTakeTurns, EventsNameMembers

(* No two callbacks take the same state out at once, the file lets go of   *)
(* the states it is told to remove, and no two callbacks are about to      *)
(* insert a row for one user's TikTok account.                             *)
CallbacksTakeTurns ==
  /\ \A c, d \in Callers : auth[c].step \in Passing /\ auth[d].step \in Passing
                            /\ StateOf(c) = StateOf(d) => c = d
  /\ \A s \in AuthStates : admitted[s] > 0 => s \notin inFile
  /\ \A c, d \in Callers : AuthAt(c, "insert") /\ AuthAt(d, "insert")
                            /\ OwnerOf(c) = OwnerOf(d) => c = d

NobodyRaced == raced = {}

LEMMA RacedStep ==
  ASSUME AuthInv, NobodyRaced, CallbacksTakeTurns, CallbacksTakeTurns', [AuthNext]_authVars
  PROVE  NobodyRaced'
<1>1. AuthInv'
  BY AuthStepSound
<1>2. ASSUME NEW c \in Callers, NEW s \in AuthStates, GetStoredState(c, s) PROVE raced' = {}
  <2>1. ASSUME NEW d \in Callers, StateOf(d) = s, auth[d].step \in Passing PROVE FALSE
    <3>1. auth[c].step = "idle" /\ auth' = [auth EXCEPT ![c] = [step |-> "clear", state |-> s]]
      BY <1>2 DEF GetStoredState, AuthAt
    <3>2. c # d
      BY <2>1, <3>1 DEF Passing
    <3>3. auth'[c] = [step |-> "clear", state |-> s] /\ auth'[d] = auth[d]
      BY <3>1, <3>2 DEF AuthInv, AuthTypeOK
    <3> QED
      BY <2>1, <3>2, <3>3 DEF CallbacksTakeTurns, Passing, StateOf
  <2> QED
    BY <1>2, <2>1 DEF GetStoredState, NobodyRaced, Passing
<1>3. ASSUME NEW c \in Callers, RemoveStateFromFileFails(c) PROVE FALSE
  <2> PICK s : s = StateOf(c)
    OBVIOUS
  <2>1. /\ auth[c].step = "unlink" /\ s \in inFile /\ inFile' = inFile
        /\ admitted' = [admitted EXCEPT ![s] = IF @ < 2 THEN @ + 1 ELSE @]
    BY <1>3 DEF RemoveStateFromFileFails, AuthAt
  <2>2. s \in AuthStates /\ admitted \in [AuthStates -> 0 .. 2]
    BY <2>1 DEF AuthInv, AuthTypeOK
  <2>3. admitted'[s] > 0
    BY <2>1, <2>2
  <2> QED
    BY <2>1, <2>2, <2>3 DEF CallbacksTakeTurns
<1>4. ASSUME NEW c \in Callers, FindTikTokAccount(c) PROVE raced' = {}
  <2> PICK o : o = OwnerOf(c)
    OBVIOUS
  <2>1. auth[c].step = "account" /\ auth[c].step \in Busy
    BY <1>4 DEF FindTikTokAccount, CreatePlatformAccount, AuthAt, Busy
  <2>2. o \in Owners /\ auth[c] \in AuthRow
    BY <2>1, CallerOwner
  <2>3. ASSUME NEW d \in Callers, AuthAt(d, "insert"), OwnerOf(d) = o PROVE FALSE
    <3>1. rows["tiktok"][o] = 0
      BY <2>2, <2>3 DEF AuthInv, OneRow, NobodyRaced
    <3>2. auth' = [auth EXCEPT ![c].step = "insert"] /\ issued' = issued
      BY <1>4, <3>1 DEF FindTikTokAccount, Turn
    <3>3. c # d
      BY <2>1, <2>3 DEF AuthAt
    <3>4. auth'[c].step = "insert" /\ auth'[c].state = auth[c].state /\ auth'[d] = auth[d]
      BY <2>2, <3>2, <3>3 DEF AuthInv, AuthTypeOK, AuthRow
    <3> QED
      BY <2>3, <3>2, <3>3, <3>4 DEF CallbacksTakeTurns, AuthAt, OwnerOf, StateOf
  <2> QED
    BY <1>4, <2>3 DEF FindTikTokAccount, NobodyRaced
<1>5. ASSUME NEW c \in Callers,
             \/ \E s \in AuthStates, p \in AuthPlatforms, o \in Owners : GetAuthorizationUrl(c, s, p, o)
             \/ \E written \in BOOLEAN : StoreStateInFile(c, written)
             \/ \E o \in Owners : RefreshToken(c, o)
             \/ DeleteStateFromCache(c) \/ RemoveStateFromFile(c)
             \/ LookUpTokens(c) \/ ExchangeToken(c) \/ SetToken(c) \/ CreateAccount(c)
             \/ RefreshTokenForPlatform(c) \/ UpdateAccountTokens(c) \/ AuthFails(c)
      PROVE  raced' = raced
  BY <1>5 DEF GetAuthorizationUrl, StoreStateInFile, RefreshToken, DeleteStateFromCache,
     RemoveStateFromFile, LookUpTokens, ExchangeToken, SetToken, CreateAccount,
     RefreshTokenForPlatform, UpdateAccountTokens, AuthFails
<1>6. ASSUME NEW s \in AuthStates, StateExpires(s) PROVE raced' = raced
  BY <1>6 DEF StateExpires
<1>7. UNCHANGED authVars => raced' = raced
  BY DEF authVars
<1> QED
  BY <1>2, <1>3, <1>4, <1>5, <1>6, <1>7
  DEF NobodyRaced, AuthNext, RefreshInstagramTokens, RefreshLinkedInTokens, RefreshTikTokTokens, RevokeToken

(* PlatformAuthService: a state lets at most one callback pass and each    *)
(* TikTok account of a user has at most one row, without exception, if     *)
(* callbacks take turns and the file can be written; whatever else         *)
(* expires, fails or dies.                                                 *)
THEOREM TurnsAdmitOnce ==
  ServicesSpec /\ []CallbacksTakeTurns =>
    [](/\ \A s \in AuthStates : admitted[s] <= 1
       /\ \A o \in Owners : rows["tiktok"][o] <= 1)
<1>1. ServicesInit => NobodyRaced
  BY DEF ServicesInit, AuthInit, NobodyRaced
<1>2. AuthInv /\ NobodyRaced /\ CallbacksTakeTurns /\ CallbacksTakeTurns' /\ [ServicesNext]_servicesVars
      => NobodyRaced'
  BY RacedStep, PartSteps
<1>3. AuthInv /\ NobodyRaced => /\ \A s \in AuthStates : admitted[s] <= 1
                                /\ \A o \in Owners : rows["tiktok"][o] <= 1
  BY DEF AuthInv, NobodyRaced, OneTime, OneRow
<1> QED
  BY <1>1, <1>2, <1>3, AuthIsSound, PTL DEF ServicesSpec

(* Media. *)

(* No two callers upload one content at once. *)
UploadsTakeTurns ==
  \A c, d \in Callers : /\ upload[c].step \in {"put", "save"} /\ upload[d].step \in {"put", "save"}
                        /\ upload[c].content = upload[d].content => c = d

(* No lookup fails. *)
LookupsAnswer ==
  [][\A c \in Callers : ~FindMediaFails(c)]_mediaVars

NothingDoubled == doubled = {}

LEMMA DoubledStep ==
  ASSUME MediaTypeOK, NothingDoubled, UploadsTakeTurns', [MediaNext]_mediaVars,
         [\A c \in Callers : ~FindMediaFails(c)]_mediaVars
  PROVE  NothingDoubled'
<1>1. ASSUME NEW c \in Callers, FindMediaFails(c) PROVE FALSE
  <2>1. lastKey' = lastKey + 1
    BY <1>1 DEF FindMediaFails, GeneratePostMediaKey
  <2>2. lastKey \in Nat
    BY MediaAssumption DEF MediaTypeOK
  <2>3. lastKey' # lastKey
    BY <2>1, <2>2
  <2> QED
    BY <1>1, <2>3 DEF mediaVars
<1>2. ASSUME NEW c \in Callers, FindNoMedia(c) PROVE doubled' = {}
  <2>1. ASSUME NEW d \in Callers, upload[d].content = upload[c].content,
               upload[d].step \in {"put", "save"}
        PROVE  FALSE
    <3>1. upload[c].step = "find" /\ d # c
          /\ upload' = [upload EXCEPT ![c].step = "put", ![c].key = lastKey + 1]
      BY <1>2, <2>1 DEF FindNoMedia, GeneratePostMediaKey
    <3>2. upload'[d] = upload[d] /\ upload'[c].step = "put" /\ upload'[c].content = upload[c].content
      BY <3>1 DEF MediaTypeOK, Upload
    <3> QED
      BY <2>1, <3>1, <3>2 DEF UploadsTakeTurns
  <2> QED
    BY <1>2, <2>1 DEF FindNoMedia, NothingDoubled
<1>3. doubled' = doubled \/ \E c \in Callers : FindMediaFails(c) \/ FindNoMedia(c)
  BY DEF MediaNext, mediaVars, UploadPostMedia, UploadMediaFromUrl, FindMediaByHash, UploadToS3,
     SaveFile, GeneratePreSignedUrl, SavePendingFile, UploadFails, UrlExpires, ClientPuts,
     FinalizePendingUpload
<1> QED
  BY <1>1, <1>2, <1>3 DEF NothingDoubled

(* MediaStorageService: the rows of one content name one key, but for the  *)
(* keys of pre-signed URLs, if no two callers upload it at once and the    *)
(* lookups do not fail.                                                    *)
THEOREM TurnsStoreOnce ==
  ServicesSpec /\ []UploadsTakeTurns /\ LookupsAnswer =>
    [](\A i, j \in DOMAIN assets :
         assets[i].hash = assets[j].hash /\ assets[i].hash # Null /\ assets[i].key # assets[j].key =>
           {assets[i].key, assets[j].key} \cap signed.ever # {})
<1>1. ServicesInit => NothingDoubled
  BY DEF ServicesInit, MediaInit, NothingDoubled
<1>2. MediaInv /\ NothingDoubled /\ UploadsTakeTurns' /\ [ServicesNext]_servicesVars
      /\ [\A c \in Callers : ~FindMediaFails(c)]_mediaVars
      => NothingDoubled'
  BY DoubledStep, PartSteps DEF MediaInv
<1>3. OneKeyPerContent /\ NothingDoubled =>
        \A i, j \in DOMAIN assets :
          assets[i].hash = assets[j].hash /\ assets[i].hash # Null /\ assets[i].key # assets[j].key =>
            {assets[i].key, assets[j].key} \cap signed.ever # {}
  BY DEF OneKeyPerContent, NothingDoubled
<1> QED
  BY <1>1, <1>2, <1>3, MediaIsSound, ContentsAreStoredOnce, PTL DEF ServicesSpec, LookupsAnswer

(* Pages. *)

(* While a caller is about to write a page nobody else is busy with it.    *)
PagesTakeTurns ==
  \A c \in Callers, p \in Pages :
    \/ sync[c].step = "save" /\ p \in sync[c].todo
    \/ sync[c].step = "loaded" /\ pages[sync[c].id].page = p
    => ~BusyWith(c, p)

(* Nobody changes the tenant between the start of getUserPages and its     *)
(* look-up.                                                                *)
LookUpsShow == \A c \in Callers : sync[c].step = "find" => Shows(sync[c].account)

NothingMissed == overlapped = {} /\ hidden = {}

LEMMA MissedStep ==
  ASSUME PagesInv, NothingMissed, PagesTakeTurns, LookUpsShow, [PagesNext]_pageVars
  PROVE  NothingMissed'
<1>1. ASSUME NEW c \in Callers, NEW p \in Pages, CreatePage(c, p) \/ UpdatePage(c, p)
      PROVE  overlapped' = {} /\ hidden' = {}
  <2>1. ~BusyWith(c, p)
    BY <1>1 DEF CreatePage, UpdatePage, PagesTakeTurns
  <2> QED
    BY <1>1, <2>1 DEF CreatePage, UpdatePage, NothingMissed
<1>2. ASSUME NEW c \in Callers, SavePage(c) PROVE overlapped' = {} /\ hidden' = {}
  <2> PICK p : p = pages[sync[c].id].page
    OBVIOUS
  <2>1. p \in Pages
    <3>1. sync[c].id \in DOMAIN pages
      BY <1>2 DEF SavePage, PagesInv, GoodSync
    <3>2. pages \in Seq(PageRow)
      BY DEF PagesInv, PagesTypeOK
    <3>3. pages[sync[c].id] \in PageRow
      BY <3>1, <3>2
    <3> QED
      BY <3>3 DEF PageRow
  <2>2. sync[c].step = "loaded" /\ ~BusyWith(c, p)
    BY <1>2, <2>1 DEF SavePage, PagesTakeTurns
  <2> QED
    BY <1>2, <2>2 DEF SavePage, NothingMissed
<1>4. ASSUME NEW c \in Callers, NEW found, GetAccountPages(c, found)
      PROVE  overlapped' = {} /\ hidden' = {}
  BY <1>4 DEF GetAccountPages, LookUpsShow, NothingMissed
<1>3. \/ UNCHANGED <<overlapped, hidden>>
      \/ \E c \in Callers : \/ SavePage(c) \/ \E found : GetAccountPages(c, found)
                           \/ \E p \in Pages : CreatePage(c, p) \/ UpdatePage(c, p)
  BY DEF PagesNext, PagesStep, pageVars, GetUserPages, FindPage, FetchPages, PageOperationFails, GotUserPages, EditPage,
     CollectPageInsights, LoadPage, SyncFails, RotatePageToken
<1> QED
  BY <1>1, <1>2, <1>3, <1>4 DEF NothingMissed

(* getUserPages, updatePage: an account has one row for a page, and no     *)
(* save puts an older token back, if nobody else is busy with a page that  *)
(* a caller is about to write, and nobody changes the tenant before the    *)
(* look-up for rows; whatever tenant is set at any other time.             *)
THEOREM TurnsKeepPages ==
  ServicesSpec /\ []PagesTakeTurns /\ []LookUpsShow =>
    /\ [](\A i, j \in DOMAIN pages :
            pages[i].account = pages[j].account /\ pages[i].page = pages[j].page => i = j)
    /\ [][\A i \in DOMAIN pages : ~(pages'[i].token < pages[i].token)]_pageVars
<1>1. ServicesInit => NothingMissed
  BY DEF ServicesInit, PagesInit, NothingMissed
<1>2. PagesInv /\ NothingMissed /\ PagesTakeTurns /\ LookUpsShow /\ [ServicesNext]_servicesVars
      => NothingMissed'
  BY MissedStep, PartSteps
<1>3. OneRowPerPage /\ NothingMissed =>
        \A i, j \in DOMAIN pages :
          pages[i].account = pages[j].account /\ pages[i].page = pages[j].page => i = j
  BY DEF OneRowPerPage, NothingMissed
<1>4. NothingMissed'
      /\ [\A i \in DOMAIN pages : pages'[i].token < pages[i].token => pages[i].page \in overlapped']_pageVars
      => [\A i \in DOMAIN pages : ~(pages'[i].token < pages[i].token)]_pageVars
  BY DEF NothingMissed
<1> QED
  BY <1>1, <1>2, <1>3, <1>4, PagesAreSound, PagesAreOne, TokensStand, PTL DEF ServicesSpec, TokenStands
=============================================================================
