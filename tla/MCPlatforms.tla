---------------------------- MODULE MCPlatforms -----------------------------
(* Two clients and two posts on one account at a time. *)
EXTENDS Platforms
=============================================================================
