------------------------------ MODULE Callers -------------------------------
(***************************************************************************)
(* The requests and jobs that call the services at the same time, and the  *)
(* tenants they work for.                                                  *)
(***************************************************************************)
EXTENDS Naturals, FiniteSets

CONSTANTS Callers, Tenants, Null

ASSUME CallersAssumption == Null \notin Callers \cup Tenants
=============================================================================
