----------------------------- MODULE MCEventLog -----------------------------
(* Two emitters, short records, and a limit that the second record reaches.  *)
EXTENDS EventLog

CONSTANTS g1, g2

\* The third event is too long for a file and is cut.
MCFullLength == [e \in 1..MaxEvents |-> IF e = 3 THEN MaxBytes + 1 ELSE 1 + (e % 2)]
MCCutLength == [e \in 1..MaxEvents |-> 2]
=============================================================================
