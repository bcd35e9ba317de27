--------------------------- MODULE MCProcessRegistry ---------------------------
(***************************************************************************)
(* Instances of ProcessRegistry for TLC: who runs which operations.        *)
(***************************************************************************)
EXTENDS ProcessRegistry

\* A channel's handler, an external service ("tts") that registers, unregisters
\* and dies, the reaper, and the guardian cleaning up the count.
CountServes   == [a \in Actors |-> IF a \in {"tts", "reaper"} THEN {"tts"}
                                                              ELSE {"channel"}]
CountPerforms == [a \in Actors |->
                   CASE a = "chat"   -> {"report", "clear", "outcome"}
                     [] a = "tts"    -> {"register", "unregister"}
                     [] a = "reaper" -> {"reap"}
                     [] OTHER        -> {"cleanup"}]
CountOps == [a \in Actors |-> IF a \in {"chat", "tts"} THEN 2 ELSE 1]

\* Requests to pause and to resume, a process that is reported and cleared, a
\* second goroutine that judges or clears it too, and the status loop.
SyncServes   == [a \in Actors |-> {"channel"}]
SyncPerforms == [a \in Actors |->
                  CASE a = "chat"    -> {"report", "clear"}
                    [] a = "late"    -> {"outcome"}
                    [] a = "pauser"  -> {"pause"}
                    [] a = "resumer" -> {"resume"}
                    [] OTHER         -> {"sync"}]
SyncOps == [a \in Actors |-> IF a = "chat" THEN 2 ELSE 1]

=============================================================================
