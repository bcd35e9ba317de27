----------------------------- MODULE MCEventStore -----------------------------
(***************************************************************************)
(* Instances of EventStore for TLC.                                        *)
(***************************************************************************)
EXTENDS EventStore

CONSTANTS c1, c2, msg, ch

OneClient  == {c1}
TwoClients == {c1, c2}
OneType    == {msg}
OneChannel == {ch}

Everything == AllOperations \union {"fail"}
Creations  == {"create", "fail"}

\* Clients are interchangeable.
Alike == Permutations(Clients)

===============================================================================
