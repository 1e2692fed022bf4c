---------------------------- MODULE MCSyncFaults ----------------------------
(* Sync where the object may be deleted, against a backend of either kind.  *)
EXTENDS MCSync

\* A backend that ignores If-Match lets the writers go on overwriting each
\* other, and each fault multiplies that: one fault of the two is spent.
FaultyInit == Init /\ faults = IF honours THEN 0 ELSE 1

FaultySpec == FaultyInit /\ [][Next]_vars
=============================================================================
