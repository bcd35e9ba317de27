---------------------------- MODULE MCCognitiveLock ----------------------------
(***************************************************************************)
(* Instances of CognitiveLock for TLC: one task per name, a guardian run,  *)
(* a context summary, a response and a simulated message that bypasses the *)
(* lock.                                                                   *)
(***************************************************************************)
EXTENDS CognitiveLock

DistinctNameOf ==
    [t \in Tasks |-> CASE t = "guardian" -> "Guardian"
                       [] t = "summary"  -> "Context Summary"
                       [] t = "response" -> "Response Generation"
                       [] OTHER          -> "Vision Analysis"]

DistinctKindOf ==
    [t \in Tasks |-> CASE t = "guardian" -> "agent"
                       [] t = "summary"  -> "summary"
                       [] OTHER          -> "handler"]

=============================================================================
