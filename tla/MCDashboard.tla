---------------------------- MODULE MCDashboard ----------------------------
(* One emitter, records of two lengths, a tail shorter than a file, a window  *)
(* of two sessions of which two events are kept, and a page of one: with one  *)
(* viewer, or with two for one slot of the listener.                          *)
EXTENDS Dashboard, TLC

CONSTANTS g1, c1, c2

MCFullLength == [e \in 1..MaxEvents |-> 2 + ((e + 1) % 2)]
MCCutLength == [e \in 1..MaxEvents |-> 2]

MCSessionOf == SubSeq(<<"s1", "s2", "s1", "s3", "s1">>, 1, MaxEvents)
MCKindOf == SubSeq(<<"connect", "command", "limit", "connect", "disconnect">>, 1, MaxEvents)

\* The third event has the time of the second, the fourth is written late.
MCTimeOf == SubSeq(<<1, 3, 3, 2, 4>>, 1, MaxEvents)

Viewers == Permutations(Conns)
=============================================================================
