----------------------------- MODULE ExclusiveUse -----------------------------
(***************************************************************************)
(* What the cognitive lock promises its callers: a resource used by at     *)
(* most one task at a time.  Who uses it may stop at any point (it is      *)
(* done, it panicked, or the whole service went down).                     *)
(***************************************************************************)
CONSTANT Users

VARIABLE inside     \* the users inside their heavy section

Init == inside = {}

\* A user enters an unused resource only.
Enter(u) == inside = {} /\ inside' = {u}

Leave(u) == u \in inside /\ inside' = inside \ {u}

Next == \E u \in Users : Enter(u) \/ Leave(u)

Spec == Init /\ [][Next]_inside

=============================================================================
