----------------------------- MODULE MCIngestLock -----------------------------
(***************************************************************************)
(* Instances of IngestLock for TLC.                                        *)
(***************************************************************************)
EXTENDS IngestLock

CONSTANTS e1, e2, e3, e4, d1, d2

\* Two events of ordinary services, a malformed one and a privileged one; two
\* replays may run at once.
FourEvents == {e1, e2, e3, e4}
ThreeEvents == {e1, e2, e3}
OneMalformed == {e3}
OnePrivileged == {e4}
OneDrain == {d1}
TwoDrains == {d1, d2}

=============================================================================
