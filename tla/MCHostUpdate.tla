---------------------------- MODULE MCHostUpdate ----------------------------
(***************************************************************************)
(* HostUpdate alone, for TLC; MCPlatform checks the same instance for what *)
(* update.sh keeps.                                                        *)
(***************************************************************************)
EXTENDS HostUpdate
=============================================================================
