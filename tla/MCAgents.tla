------------------------------- MODULE MCAgents -------------------------------
(***************************************************************************)
(* An instance of Agents for TLC.                                          *)
(***************************************************************************)
EXTENDS Agents

CONSTANTS c1, u1, i1

=============================================================================
