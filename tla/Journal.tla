------------------------------ MODULE Journal ------------------------------
(***************************************************************************)
(* What the event log promises to its callers and to a reader of its       *)
(* files, without locks, files or steps: a bounded buffer in front of a    *)
(* bounded journal.  Events are stored in the order in which they were     *)
(* accepted; the buffer may be lost as a whole; old entries may be         *)
(* discarded, oldest first, while at least Floor bytes remain; a failure   *)
(* may leave one shortened entry.                                          *)
(***************************************************************************)
EXTENDS Integers, Sequences

CONSTANTS
  Events,     \* the events that may be accepted
  Length,     \* the length of each event's record
  Capacity,   \* how many events may be pending
  Floor       \* the bytes that a discard leaves at least

VARIABLES
  pending,  \* events that are accepted and not yet stored
  kept      \* the entries a reader finds: an event, and the bytes of it

jvars == <<pending, kept>>

Entry(x, n) == [event |-> x, bytes |-> n]

\* The bytes of a sequence of entries.
Size(s) ==
  LET sum[i \in 0..Len(s)] == IF i = 0 THEN 0 ELSE sum[i - 1] + s[i].bytes
  IN  sum[Len(s)]

JInit == pending = <<>> /\ kept = <<>>

Accept(x) ==
  /\ Len(pending) < Capacity
  /\ pending' = Append(pending, x)
  /\ UNCHANGED kept

Store ==
  /\ pending # <<>>
  /\ kept' = Append(kept, Entry(Head(pending), Length[Head(pending)]))
  /\ pending' = Tail(pending)

Discard ==
  /\ \E k \in 1..Len(kept) :
       /\ Size(SubSeq(kept, k, Len(kept))) >= Floor
       /\ kept' = SubSeq(kept, k, Len(kept))
  /\ UNCHANGED pending

Lose ==
  /\ pending' = <<>>
  /\ \/ UNCHANGED kept
     \/ /\ pending # <<>>
        /\ \E n \in 1..Length[Head(pending)] - 1 : kept' = Append(kept, Entry(Head(pending), n))

JNext == (\E x \in Events : Accept(x)) \/ Store \/ Discard \/ Lose

JSpec == JInit /\ [][JNext]_jvars
=============================================================================
