------------------------- MODULE MCContentPublisher -------------------------
(***************************************************************************)
(* ContentPublisher for TLC: one call (calls share nothing but the queue,  *)
(* and their jobs are apart) to a target that needs media and to two that  *)
(* do not, so that the read-modify-writes of three tasks interleave.       *)
(***************************************************************************)
EXTENDS ContentPublisher
=============================================================================
