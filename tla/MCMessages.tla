----------------------------- MODULE MCMessages -----------------------------
(***************************************************************************)
(* MessageFeed, and with it Messages, for TLC: one message (a request      *)
(* works on one), two requests that overlap on it, two users of whom one   *)
(* is the sender, two texts that are stored as they are sent and two that  *)
(* are not.                                                                *)
(***************************************************************************)
EXTENDS MessageFeed, TLC

CONSTANTS a, b,            \* texts that are clean
          rawA, rawB       \* texts of which sanitising makes a and b

SanitizeTexts == (rawA :> a) @@ (rawB :> b) @@ [content \in Contents |-> content]

(* The texts change places in pairs. *)
Exchange == (a :> b) @@ (b :> a) @@ (rawA :> rawB) @@ (rawB :> rawA)

Symmetry == Permutations(Clients) \cup Permutations(Users) \cup {Exchange}
=============================================================================
