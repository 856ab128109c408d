---------------------------- MODULE PlatformAuth ----------------------------
(***************************************************************************)
(* PlatformAuthService and the states it keeps in TokenCacheService.  The  *)
(* state of an authorisation lies in the cache and in a file; a callback   *)
(* takes it out of both and exchanges the code it was called with for      *)
(* tokens, which are cached and stored with a new account.                 *)
(***************************************************************************)
EXTENDS Callers

CONSTANTS Users,
          OpenIds,      \* the accounts that people have on a platform
          AuthStates,   \* the random states; a platform hands out one code
                        \* for each of them
          MaxRows       \* bound: rows of accounts of an owner on a platform

AuthPlatforms == {"facebook", "tiktok", "other"}   \* other: Instagram, LinkedIn

(* Whose a row is: the user, and the account on the platform that the user *)
(* logs in with.  A user may have several there, and two may share one.    *)
Owners == Users \X OpenIds

(* For whom, and for which platform, a state is made. *)
Authorisation == [platform : AuthPlatforms, owner : Owners]

ASSUME AuthAssumption == MaxRows \in Nat \ {0} /\ Null \notin Authorisation \cup AuthStates

VARIABLES
  issued,      \* for whom, and for which platform, each state was made
  offered,     \* states whose URL was returned: their callbacks may come
  inCache,     \* states in the cache
  inFile,      \* states in the backup file
  admitted,    \* how many callbacks passed with each state (up to 2); not in
               \* the code
  exchanged,   \* states whose code was exchanged; a platform does that once
  tokenCached, \* states whose tokens are cached by their code
  rows,        \* number of account rows of each owner on each platform
  auth,        \* what each caller is about to do
  raced        \* states and owners that two callers were busy with at once,
               \* and states the file kept; not in the code

authVars == <<issued, offered, inCache, inFile, admitted, exchanged,
              tokenCached, rows, auth, raced>>

AuthSteps == {"idle", "file", "clear", "unlink", "lookup", "exchange", "cache",
              "account", "insert", "refresh", "update"}
AuthRow == [step : AuthSteps, state : AuthStates \cup {Null}]
NoAuth == [step |-> "idle", state |-> Null]

AuthInit ==
  /\ issued = [s \in AuthStates |-> Null]
  /\ offered = {} /\ inCache = {} /\ inFile = {}
  /\ admitted = [s \in AuthStates |-> 0]
  /\ exchanged = {} /\ tokenCached = {}
  /\ rows = [p \in AuthPlatforms |-> [o \in Owners |-> 0]]
  /\ auth = [c \in Callers |-> NoAuth]
  /\ raced = {}

AuthAt(c, step) == auth[c].step = step
StateOf(c) == auth[c].state
OwnerOf(c) == issued[StateOf(c)].owner
PlatformOf(c) == issued[StateOf(c)].platform

Turn(c, step) == auth' = [auth EXCEPT ![c].step = step]
Done(c) == auth' = [auth EXCEPT ![c] = NoAuth]

(* getAuthorizationUrl, storeState: the cache first, then the file.  Who   *)
(* logs in on the platform is seen in the callback only.                   *)
GetAuthorizationUrl(c, s, p, o) ==
  /\ AuthAt(c, "idle")
  /\ issued[s] = Null
  /\ issued' = [issued EXCEPT ![s] = [platform |-> p, owner |-> o]]
  /\ inCache' = inCache \cup {s}
  /\ auth' = [auth EXCEPT ![c] = [step |-> "file", state |-> s]]
  /\ UNCHANGED <<offered, inFile, admitted, exchanged, tokenCached, rows, raced>>

(* A file that cannot be written is let go. *)
StoreStateInFile(c, written) ==
  /\ AuthAt(c, "file")
  /\ inFile' = IF written THEN inFile \cup {StateOf(c)} ELSE inFile
  /\ offered' = offered \cup {StateOf(c)}
  /\ Done(c)
  /\ UNCHANGED <<issued, inCache, admitted, exchanged, tokenCached, rows, raced>>

(* The entries of the cache and of the file expire; the cache may lose one *)
(* before its time.                                                        *)
StateExpires(s) ==
  \/ /\ s \in inCache
     /\ inCache' = inCache \ {s}
     /\ UNCHANGED <<issued, offered, inFile, admitted, exchanged, tokenCached, rows, auth, raced>>
  \/ /\ s \in inFile
     /\ inFile' = inFile \ {s}
     /\ UNCHANGED <<issued, offered, inCache, admitted, exchanged, tokenCached, rows, auth, raced>>

(* handleCallback, getStoredState: the state is read, ...                  *)
GetStoredState(c, s) ==
  /\ AuthAt(c, "idle")
  /\ s \in offered
  /\ s \in inCache \cup inFile
  /\ auth' = [auth EXCEPT ![c] = [step |-> "clear", state |-> s]]
  /\ raced' = raced \cup {r \in {s} : \E d \in Callers :
                            StateOf(d) = s /\ auth[d].step \in {"clear", "unlink"}}
  /\ UNCHANGED <<issued, offered, inCache, inFile, admitted, exchanged, tokenCached, rows>>

(* ... deleted from the cache, ...                                         *)
DeleteStateFromCache(c) ==
  /\ AuthAt(c, "clear")
  /\ inCache' = inCache \ {StateOf(c)}
  /\ Turn(c, "unlink")
  /\ UNCHANGED <<issued, offered, inFile, admitted, exchanged, tokenCached, rows, raced>>

(* MUTATION: the file keeps its states. *)
KeepStateInFile(c) ==
  /\ AuthAt(c, "unlink")
  /\ admitted' = [admitted EXCEPT ![StateOf(c)] = IF @ < 2 THEN @ + 1 ELSE @]
  /\ Turn(c, "lookup")
  /\ UNCHANGED <<issued, offered, inCache, inFile, exchanged, tokenCached, rows, raced>>

(* ... and removed from the file; with that the callback has passed.       *)
RemoveStateFromFile(c) ==
  /\ AuthAt(c, "unlink")
  /\ inFile' = inFile \ {StateOf(c)}
  /\ admitted' = [admitted EXCEPT ![StateOf(c)] = IF @ < 2 THEN @ + 1 ELSE @]
  /\ Turn(c, "lookup")
  /\ UNCHANGED <<issued, offered, inCache, exchanged, tokenCached, rows, raced>>

(* A file that cannot be written keeps the state, and nobody is told.      *)
RemoveStateFromFileFails(c) ==
  /\ AuthAt(c, "unlink")
  /\ StateOf(c) \in inFile
  /\ admitted' = [admitted EXCEPT ![StateOf(c)] = IF @ < 2 THEN @ + 1 ELSE @]
  /\ raced' = raced \cup {StateOf(c)}
  /\ Turn(c, "lookup")
  /\ UNCHANGED <<issued, offered, inCache, inFile, exchanged, tokenCached, rows>>

(* Tokens cached for this code spare the exchange. *)
LookUpTokens(c) ==
  /\ AuthAt(c, "lookup")
  /\ Turn(c, IF StateOf(c) \in tokenCached THEN "account" ELSE "exchange")
  /\ UNCHANGED <<issued, offered, inCache, inFile, admitted, exchanged, tokenCached, rows, raced>>

ExchangeToken(c) ==
  /\ AuthAt(c, "exchange")
  /\ StateOf(c) \notin exchanged
  /\ exchanged' = exchanged \cup {StateOf(c)}
  /\ Turn(c, "cache")
  /\ UNCHANGED <<issued, offered, inCache, inFile, admitted, tokenCached, rows, raced>>

SetToken(c) ==
  /\ AuthAt(c, "cache")
  /\ tokenCached' = tokenCached \cup {StateOf(c)}
  /\ Turn(c, "account")
  /\ UNCHANGED <<issued, offered, inCache, inFile, admitted, exchanged, rows, raced>>

(* createPlatformAccount asks the platform for the user and then the       *)
(* repository for an account.  Those of Instagram and LinkedIn have no     *)
(* createAccount: AuthFails.                                               *)
CreatePlatformAccount(c, p) == AuthAt(c, "account") /\ PlatformOf(c) = p

(* MUTATION: TikTok's rows are not looked for. *)
FindNoTikTokAccount(c) ==
  /\ CreatePlatformAccount(c, "tiktok")
  /\ Turn(c, "insert")
  /\ raced' = raced \cup {o \in {OwnerOf(c)} : \E d \in Callers :
                /\ AuthAt(d, "insert") /\ OwnerOf(d) = o}
  /\ UNCHANGED <<issued, offered, inCache, inFile, admitted, exchanged, tokenCached, rows>>

(* TikTok's repository looks for a row of the user and the openId first,   *)
(* in the transaction that inserts one, and returns the row that it finds. *)
FindTikTokAccount(c) ==
  /\ CreatePlatformAccount(c, "tiktok")
  /\ IF rows["tiktok"][OwnerOf(c)] > 0 THEN Done(c) ELSE Turn(c, "insert")
  /\ raced' = raced \cup {o \in {OwnerOf(c)} : \E d \in Callers :
                /\ AuthAt(d, "insert") /\ OwnerOf(d) = o}
  /\ UNCHANGED <<issued, offered, inCache, inFile, admitted, exchanged, tokenCached, rows>>

(* Facebook's inserts whatever is there. *)
CreateAccount(c) ==
  /\ \/ AuthAt(c, "insert")
     \/ CreatePlatformAccount(c, "facebook")
  /\ rows[PlatformOf(c)][OwnerOf(c)] < MaxRows
  /\ rows' = [rows EXCEPT ![PlatformOf(c)][OwnerOf(c)] = @ + 1]
  /\ Done(c)
  /\ UNCHANGED <<issued, offered, inCache, inFile, admitted, exchanged, tokenCached, raced>>

(* refreshToken: only Facebook's repository has a getAccountById that loads *)
(* the social account with its tokens, so that it fails at once for the     *)
(* others.  The platform is asked for a new token, which the row of the     *)
(* account takes.                                                           *)
RefreshToken(c, o) ==
  /\ AuthAt(c, "idle")
  /\ rows["facebook"][o] > 0
  /\ auth' = [auth EXCEPT ![c] = [step |-> "refresh", state |-> Null]]
  /\ UNCHANGED <<issued, offered, inCache, inFile, admitted, exchanged, tokenCached, rows, raced>>

(* The jobs that refresh tokens about to expire log that it failed, for    *)
(* every account: Instagram's has no service to call, and the service      *)
(* refuses LinkedIn's and TikTok's accounts.                               *)
RefreshInstagramTokens(c) == AuthAt(c, "idle") /\ UNCHANGED authVars
RefreshLinkedInTokens(c) == AuthAt(c, "idle") /\ UNCHANGED authVars
RefreshTikTokTokens(c) == AuthAt(c, "idle") /\ UNCHANGED authVars

RefreshTokenForPlatform(c) ==
  /\ AuthAt(c, "refresh")
  /\ Turn(c, "update")
  /\ UNCHANGED <<issued, offered, inCache, inFile, admitted, exchanged, tokenCached, rows, raced>>

UpdateAccountTokens(c) ==
  /\ AuthAt(c, "update")
  /\ Done(c)
  /\ UNCHANGED <<issued, offered, inCache, inFile, admitted, exchanged, tokenCached, rows, raced>>

(* revokeToken deletes cache entries under the token; those of handleCallback *)
(* lie under the code and stay.                                             *)
RevokeToken(c) == AuthAt(c, "idle") /\ UNCHANGED authVars

(* The platform, the cache or the database refuses, or the process dies.   *)
AuthFails(c) ==
  /\ ~AuthAt(c, "idle")
  /\ Done(c)
  /\ UNCHANGED <<issued, offered, inCache, inFile, admitted, exchanged, tokenCached, rows, raced>>

AuthNext ==
  \/ \E c \in Callers :
       \/ \E s \in AuthStates, p \in AuthPlatforms, o \in Owners : GetAuthorizationUrl(c, s, p, o)
       \/ \E written \in BOOLEAN : StoreStateInFile(c, written)
       \/ \E s \in AuthStates : GetStoredState(c, s)
       \/ DeleteStateFromCache(c) \/ RemoveStateFromFile(c) \/ RemoveStateFromFileFails(c)
       \/ LookUpTokens(c) \/ ExchangeToken(c) \/ SetToken(c)
       \/ FindTikTokAccount(c) \/ CreateAccount(c)
       \/ \E o \in Owners : RefreshToken(c, o)
       \/ RefreshInstagramTokens(c) \/ RefreshLinkedInTokens(c) \/ RefreshTikTokTokens(c)
       \/ RefreshTokenForPlatform(c) \/ UpdateAccountTokens(c) \/ RevokeToken(c)
       \/ AuthFails(c)
  \/ \E s \in AuthStates : StateExpires(s)

AuthSpec == AuthInit /\ [][AuthNext]_authVars

-----------------------------------------------------------------------------
(* Properties. *)

AuthTypeOK ==
  /\ issued \in [AuthStates -> Authorisation \cup {Null}]
  /\ offered \subseteq AuthStates /\ inCache \subseteq AuthStates
  /\ inFile \subseteq AuthStates
  /\ admitted \in [AuthStates -> 0 .. 2]
  /\ exchanged \subseteq AuthStates /\ tokenCached \subseteq AuthStates
  /\ rows \in [AuthPlatforms -> [Owners -> 0 .. MaxRows]]
  /\ auth \in [Callers -> AuthRow]
  /\ raced \subseteq AuthStates \cup Owners

(* getStoredState: a state, kept in two places and deleted from one after  *)
(* the other, lets one callback pass, whatever expires or dies in between; *)
(* unless a second callback came before it was out of the file, or the     *)
(* file kept it.                                                           *)
StateAdmitsOnce == \A s \in AuthStates : admitted[s] > 1 => s \in raced

(* createAccount of TikTok: a user who authorises the same TikTok account  *)
(* several times has one row for it, whatever else is authorised, fails or *)
(* comes again, unless two callbacks looked for it at once.                *)
OneTikTokAccount == \A o \in Owners : rows["tiktok"][o] > 1 => o \in raced
=============================================================================
