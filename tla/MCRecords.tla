------------------------------ MODULE MCRecords ------------------------------
(***************************************************************************)
(* An instance of Records for TLC: one record of each kind.                *)
(***************************************************************************)
EXTENDS Records, TLC

CONSTANTS t1, t2, c1, u1, ch1

Interchangeable == Permutations(Tasks)

=============================================================================
