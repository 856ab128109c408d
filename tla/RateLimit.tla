----------------------------- MODULE RateLimit ------------------------------
(***************************************************************************)
(* The rate limits of the platforms: the calls of the last hour are        *)
(* counted, compared with the limit, and another one is recorded later;    *)
(* Instagram's and TikTok's interceptors record before they go on,         *)
(* withRateLimit records after a call that went well, and on Facebook the  *)
(* post itself is the record.                                              *)
(***************************************************************************)
EXTENDS Callers

CONSTANTS Limit,       \* the limit of an action; 0 for one that has none
          MaxDirect    \* bound: posts past the interceptor

ASSUME RateAssumption ==
  Limit \in Nat /\ MaxDirect \in Nat /\ IsFiniteSet(Callers) /\ Callers # {}

VARIABLES
  recorded,   \* records of the last hour whose calls were checked
  direct,     \* posts of a page in the last hour that were not: the publisher
              \* calls the service, not the controller
  checked     \* callers that were let through and have no record yet

rateVars == <<recorded, direct, checked>>

RateInit == recorded = 0 /\ direct = 0 /\ checked = {}

(* MUTATION: one more than the limit. *)
CheckRateLimitLate(c) ==
  /\ c \notin checked
  /\ recorded + direct <= Limit
  /\ checked' = checked \cup {c}
  /\ UNCHANGED <<recorded, direct>>

CheckRateLimit(c) ==
  /\ c \notin checked
  /\ recorded + direct < Limit
  /\ checked' = checked \cup {c}
  /\ UNCHANGED <<recorded, direct>>

RecordRateLimitUsage(c) ==
  /\ c \in checked
  /\ recorded' = recorded + 1
  /\ checked' = checked \ {c}
  /\ UNCHANGED direct

(* The call, or the record, fails. *)
RateCallFails(c) ==
  /\ c \in checked
  /\ checked' = checked \ {c}
  /\ UNCHANGED <<recorded, direct>>

PostDirectly ==
  /\ direct < MaxDirect
  /\ direct' = direct + 1
  /\ UNCHANGED <<recorded, checked>>

(* A record becomes older than an hour. *)
RecordAges ==
  \/ recorded > 0 /\ recorded' = recorded - 1 /\ UNCHANGED <<direct, checked>>
  \/ direct > 0 /\ direct' = direct - 1 /\ UNCHANGED <<recorded, checked>>

RateNext ==
  \/ \E c \in Callers : CheckRateLimit(c) \/ RecordRateLimitUsage(c) \/ RateCallFails(c)
  \/ PostDirectly \/ RecordAges

RateSpec == RateInit /\ [][RateNext]_rateVars

-----------------------------------------------------------------------------
(* Properties. *)

RateTypeOK == recorded \in Nat /\ direct \in 0 .. MaxDirect /\ checked \subseteq Callers

(* checkRateLimit, recordRateLimitUsage: what was checked exceeds the      *)
(* limit only by the calls that were checked before the last one was       *)
(* recorded: one less than there are callers at a time.                    *)
RateIsBounded == recorded < Limit + Cardinality(Callers)
=============================================================================
