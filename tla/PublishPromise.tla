--------------------------- MODULE PublishPromise ---------------------------
(***************************************************************************)
(* What a call of publishContentWithMedia promises its caller, without the *)
(* publish record, the media and the retry queue it works with: while the  *)
(* call is open it may put the content on more and more of its targets;    *)
(* then it settles once, with a verdict computed from targets it really    *)
(* reached, or it breaks off without a verdict (it throws, or its process  *)
(* dies).  Nothing is put on a target after that, and no verdict changes.  *)
(***************************************************************************)
EXTENDS PublishVerdict

CONSTANTS Calls, Targets

VARIABLES phase,    \* "open", "settled" or "broken", per call
          reached,  \* the targets the content is on, per call
          verdict   \* the status returned, "none" before that

promiseVars == <<phase, reached, verdict>>

PromiseInit ==
  /\ phase = [c \in Calls |-> "open"]
  /\ reached = [c \in Calls |-> {}]
  /\ verdict = [c \in Calls |-> "none"]

Reach(c, t) ==
  /\ phase[c] = "open"
  /\ reached' = [reached EXCEPT ![c] = @ \cup {t}]
  /\ UNCHANGED <<phase, verdict>>

(* Only targets that were reached count as successes.  The converse does   *)
(* not hold: a platform may have taken the post although its answer never  *)
(* arrived.                                                                *)
Settle(c) ==
  /\ phase[c] = "open"
  /\ \E successes \in SUBSET reached[c] :
        verdict' = [verdict EXCEPT ![c] = Verdict(successes, Targets)]
  /\ phase' = [phase EXCEPT ![c] = "settled"]
  /\ UNCHANGED reached

Break(c) ==
  /\ phase[c] = "open"
  /\ phase' = [phase EXCEPT ![c] = "broken"]
  /\ UNCHANGED <<reached, verdict>>

PromiseNext ==
  \E c \in Calls :
    \/ \E t \in Targets : Reach(c, t)
    \/ Settle(c)
    \/ Break(c)

PromiseSpec == PromiseInit /\ [][PromiseNext]_promiseVars
=============================================================================
