-------------------------- MODULE MCMessageHandling --------------------------
(***************************************************************************)
(* An instance of MessageHandling for TLC.                                 *)
(***************************************************************************)
EXTENDS MessageHandling

CONSTANTS m1, m2, public, direct

\* Every message may go to either channel.
TwoMessages == {m1, m2}
TwoChannels == {public, direct}
OneDirect == {direct}

=============================================================================
