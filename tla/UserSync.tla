------------------------------ MODULE UserSync ------------------------------
(***************************************************************************)
(* Clerk's events about users, organizations and memberships come through  *)
(* a queue, late, twice, and in any order, and are applied by one worker   *)
(* in each process: UserService, TenantService and UserTenantService load  *)
(* a row and save it.                                                      *)
(***************************************************************************)
EXTENDS Callers

CONSTANT Members   \* the users Clerk tells of

VARIABLES
  tenants,   \* the rows of tbl_tenants
  user,      \* the rows of tbl_users, with those of tbl_user_tenants
  job,       \* what each worker has loaded
  late       \* tenants whose creation was started and not awaited

syncVars == <<tenants, user, job, late>>

Operations == {"ADD", "UPDATE", "REMOVE"}
UserRow == [exists : BOOLEAN, tenants : SUBSET Tenants, activeTenantId : Tenants \cup {Null}]
NoUser == [exists |-> FALSE, tenants |-> {}, activeTenantId |-> Null]
NoJob == [step |-> "idle", member |-> Null, tenant |-> Null, operation |-> Null,
          users |-> {}, row |-> NoUser]

(* The users of a tenant, and the row of a user without its memberships.   *)
UsersOf(t) == {v \in Members : t \in user[v].tenants}
Columns(u) == [user[u] EXCEPT !.tenants = {}]

SyncInit ==
  /\ tenants = {}
  /\ user = [u \in Members |-> NoUser]
  /\ job = [w \in Callers |-> NoJob]
  /\ late = {}

(* createUser saves the row without looking, and without its memberships:  *)
(* the active tenant is the one that the event names, or none.             *)
CreateUser(w, u, t) ==
  /\ job[w].step = "idle"
  /\ user' = [user EXCEPT ![u].exists = TRUE, ![u].activeTenantId = t]
  /\ UNCHANGED <<tenants, job, late>>

(* updateUser, updateUserRole: the row without its memberships.            *)
FindUser(w, u) ==
  /\ job[w].step = "idle"
  /\ job' = [job EXCEPT ![w] = [NoJob EXCEPT !.step = "user", !.member = u, !.row = Columns(u)]]
  /\ UNCHANGED <<tenants, user, late>>

(* A user who was not there is made, with the event's tenant.              *)
UpdateUser(w, t) ==
  LET u == job[w].member
      row == job[w].row IN
  /\ job[w].step = "user"
  /\ user' = [user EXCEPT ![u].exists = TRUE,
                          ![u].activeTenantId = IF row.exists THEN row.activeTenantId ELSE t]
  /\ job' = [job EXCEPT ![w] = NoJob]
  /\ UNCHANGED <<tenants, late>>

(* deleteUser: the memberships go with the row.                            *)
DeleteUser(w, u) ==
  /\ job[w].step = "idle"
  /\ user[u].exists
  /\ user' = [user EXCEPT ![u] = NoUser]
  /\ UNCHANGED <<tenants, job, late>>

CreateTenant(w, t) ==
  /\ job[w].step = "idle"
  /\ tenants' = tenants \cup {t}
  /\ UNCHANGED <<user, job, late>>

(* updateTenant does not wait for the creation of one that is missing.     *)
UpdateTenant(w, t) ==
  /\ job[w].step = "idle"
  /\ late' = IF t \in tenants THEN late ELSE late \cup {t}
  /\ UNCHANGED <<tenants, user, job>>

CreateTenantLate(t) ==
  /\ t \in late
  /\ late' = late \ {t}
  /\ tenants' \in {tenants, tenants \cup {t}}
  /\ UNCHANGED <<user, job>>

(* deleteTenant: refused by the table while it has members; the job fails. *)
DeleteTenant(w, t) ==
  /\ job[w].step = "idle"
  /\ t \in tenants
  /\ \A u \in Members : t \notin user[u].tenants
  /\ tenants' = tenants \ {t}
  /\ UNCHANGED <<user, job, late>>

(* executeOperation, in a transaction: the tenant is loaded with its users *)
(* ...                                                                     *)
LoadTenant(w, op, u, t) ==
  /\ job[w].step = "idle"
  /\ t \in tenants
  /\ job' = [job EXCEPT ![w] = [NoJob EXCEPT !.step = "tenant", !.member = u, !.tenant = t,
                                           !.operation = op, !.users = UsersOf(t)]]
  /\ UNCHANGED <<tenants, user, late>>

(* ... and the user with the tenants; both must be there, except that ADD  *)
(* makes a user.  Otherwise the operation is logged as failed, and the job *)
(* counts as done.                                                         *)
LoadMember(w) ==
  /\ job[w].step = "tenant"
  /\ job[w].operation = "ADD" \/ user[job[w].member].exists
  /\ job' = [job EXCEPT ![w].step = "membership", ![w].row = user[job[w].member]]
  /\ UNCHANGED <<tenants, user, late>>

(* MUTATION: the tenant takes the place of the others. *)
JoinedAlone(r, t) == [exists |-> TRUE, tenants |-> {t}, activeTenantId |-> t]

(* addMembership, updateMembership: the tenant becomes the active one.     *)
Joined(r, t) == [exists |-> TRUE, tenants |-> r.tenants \cup {t}, activeTenantId |-> t]

(* MUTATION: the active tenant stays. *)
LeftButActive(r, t, next) == [r EXCEPT !.tenants = @ \ {t}, !.exists = TRUE]

(* deleteMembership: any other one becomes the active one.                 *)
Left(r, t, next) == [exists |-> TRUE, tenants |-> r.tenants \ {t},
                     activeTenantId |-> IF r.activeTenantId = t THEN next ELSE r.activeTenantId]

Nexts(r, t) == IF r.tenants \subseteq {t} THEN {Null} ELSE r.tenants \ {t}

(* A tenant that the user joins is saved with the user, and with the users *)
(* that it was loaded with: they are members again, and nobody else is,    *)
(* not even the user if another worker was faster.                         *)
Cascaded(j, row) ==
  [v \in Members |->
     LET own == IF v = j.member THEN row ELSE user[v] IN
     IF v = j.member /\ j.tenant \notin user[v].tenants THEN own
     ELSE [own EXCEPT !.tenants = IF v \in j.users THEN @ \cup {j.tenant} ELSE @ \ {j.tenant}]]

(* The row is saved whole: memberships that it was loaded without are      *)
(* deleted, and a tenant that is gone comes back.  A tenant's user who is  *)
(* gone, or a membership that is made twice, is refused.                   *)
SaveMembership(w) ==
  LET j == job[w]
      joins == j.operation # "REMOVE"
      cascades == joins /\ j.tenant \notin j.row.tenants IN
  /\ j.step = "membership"
  /\ cascades => \A v \in j.users : IF v = j.member THEN j.tenant \in user[v].tenants ELSE user[v].exists
  /\ \E row \in IF joins THEN {Joined(j.row, j.tenant)}
                ELSE {Left(j.row, j.tenant, next) : next \in Nexts(j.row, j.tenant)} :
       /\ user' = IF cascades THEN Cascaded(j, row) ELSE [user EXCEPT ![j.member] = row]
       /\ tenants' = tenants \cup row.tenants
  /\ job' = [job EXCEPT ![w] = NoJob]
  /\ UNCHANGED late

(* The database refuses, or the process dies: the transaction is rolled    *)
(* back, and the job may come again.                                       *)
JobFails(w) ==
  /\ job[w].step # "idle"
  /\ job' = [job EXCEPT ![w] = NoJob]
  /\ UNCHANGED <<tenants, user, late>>

SyncNext ==
  \/ \E w \in Callers :
       \/ \E u \in Members : FindUser(w, u) \/ DeleteUser(w, u)
       \/ \E u \in Members, t \in Tenants \cup {Null} : CreateUser(w, u, t)
       \/ \E t \in Tenants \cup {Null} : UpdateUser(w, t)
       \/ \E t \in Tenants : CreateTenant(w, t) \/ UpdateTenant(w, t) \/ DeleteTenant(w, t)
       \/ \E op \in Operations, u \in Members, t \in Tenants : LoadTenant(w, op, u, t)
       \/ LoadMember(w) \/ SaveMembership(w) \/ JobFails(w)
  \/ \E t \in Tenants : CreateTenantLate(t)

SyncSpec == SyncInit /\ [][SyncNext]_syncVars

-----------------------------------------------------------------------------
(* Properties. *)

SyncTypeOK ==
  /\ tenants \subseteq Tenants
  /\ user \in [Members -> UserRow]
  /\ job \in [Callers -> [step : {"idle", "user", "tenant", "membership"},
                member : Members \cup {Null}, tenant : Tenants \cup {Null},
                operation : Operations \cup {Null}, users : SUBSET Members, row : UserRow]]
  /\ late \subseteq Tenants

(* Somebody changed what a worker has loaded of the user, or of the users  *)
(* of the tenant that it saves.                                            *)
Outdated(w) ==
  \/ job[w].step = "user" /\ job[w].row # Columns(job[w].member)
  \/ job[w].step = "membership" /\ job[w].row # user[job[w].member]

Crossed(w) ==
  /\ job[w].step = "membership" /\ job[w].operation # "REMOVE"
  /\ job[w].users # UsersOf(job[w].tenant)

Saves(w) == job[w].step # "idle" /\ job'[w] = NoJob

(* An event about a user sets the active tenant. *)
NamesTenant(w, u, t) ==
  \/ CreateUser(w, u, t)
  \/ job[w].member = u /\ ~job[w].row.exists /\ UpdateUser(w, t)

(* An active tenant that is none of the user's. *)
Bare(row) == row.activeTenantId \notin row.tenants \cup {Null}

(* addMembership, deleteMembership, createUser, updateUser: in whatever    *)
(* order the events come, and however often, the active tenant of a user   *)
(* does not cease to be one of the user's; unless an event about the user  *)
(* names another one, the user's row changed under the worker that saves   *)
(* it, or the users of the tenant under the one that saves those.          *)
ActiveStaysMember ==
  [][\A u \in Members : Bare(user'[u]) /\ ~Bare(user[u]) =>
       \E w \in Callers :
         \/ \E t \in Tenants \ user[u].tenants : NamesTenant(w, u, t)
         \/ Saves(w) /\ job[w].member = u /\ Outdated(w)
         \/ Saves(w) /\ job[w].tenant = user'[u].activeTenantId /\ Crossed(w)]_syncVars

(* executeOperation saves all memberships of a user, and all users of a    *)
(* tenant: an event about one user and one tenant leaves the memberships   *)
(* of others, and in others, alone; unless the row of the user, or the     *)
(* users of the tenant, changed under the worker that saves them.          *)
MembershipsStand ==
  [][\A u \in Members, t \in Tenants :
       /\ user[u].exists /\ user'[u].exists
       /\ (t \in user[u].tenants) # (t \in user'[u].tenants)
       => \E w \in Callers :
            /\ Saves(w)
            /\ \/ job[w].member = u /\ (job[w].tenant = t \/ Outdated(w))
               \/ job[w].tenant = t /\ Crossed(w)]_syncVars
=============================================================================
