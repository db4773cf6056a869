--------------------------- MODULE EventLogProofs ---------------------------
(***************************************************************************)
(* Proofs about EventLog, for any emitters, queue, limit and records: its  *)
(* locking, its bounds, what a reader finds, what Close leaves, and that   *)
(* it implements Journal.                                                  *)
(***************************************************************************)
EXTENDS EventLog, FiniteSetTheorems, SequenceTheorems, SetInduction

(***************************************************************************)
(* The locking of Emit and Close: the channel is closed with the flag,     *)
(* under the write lock, when no emitter stands between its check and its  *)
(* send.                                                                   *)
(***************************************************************************)
Locking ==
  /\ emitter \in [Emitters -> {"idle", "locked", "sending"}]
  /\ qClosed => closed
  /\ closer = "locked" => Readers = {}
  /\ \A g \in Emitters : emitter[g] = "sending" => ~ closed

\* Every action keeps the discipline.
LEMMA NextLocking ==
  ASSUME Locking, [Next]_vars
  PROVE  Locking'
<1> USE DEF Locking, Readers, callVars, writerVars, diskVars
<1>1. ASSUME NEW g \in Emitters, BeginEmit(g) PROVE Locking'
  BY <1>1 DEF BeginEmit
<1>2. ASSUME NEW g \in Emitters, CheckOpen(g) PROVE Locking'
  BY <1>2 DEF CheckOpen
<1>3. ASSUME NEW g \in Emitters, Send(g) PROVE Locking'
  BY <1>3 DEF Send
<1>4. CASE BeginClose
  BY <1>4 DEF BeginClose
<1>5. CASE LockClose
  BY <1>5 DEF LockClose
<1>6. CASE CloseQueue
  BY <1>6 DEF CloseQueue
<1>7. CASE Closed
  BY <1>7 DEF Closed
<1>8. CASE Stat
  BY <1>8 DEF Stat
<1>9. CASE Receive
  BY <1>9 DEF Receive
<1>10. CASE ReceiveClosed
  BY <1>10 DEF ReceiveClosed
<1>11. CASE CloseFile
  BY <1>11 DEF CloseFile
<1>12. CASE Remove
  BY <1>12 DEF Remove
<1>13. CASE Rename
  BY <1>13 DEF Rename
<1>14. CASE Create
  BY <1>14 DEF Create
<1>15. CASE Write
  BY <1>15 DEF Write
<1>16. CASE Sync
  BY <1>16 DEF Sync
<1>17. CASE TakeError
  BY <1>17 DEF TakeError
<1>18. CASE Crash
  BY <1>18 DEF Crash, Gone
<1>19. CASE Exit
  BY <1>19 DEF Exit, Gone
<1>20. CASE Start
  BY <1>20 DEF Start
<1>21. CASE UNCHANGED vars
  BY <1>21 DEF vars
<1> QED
  BY <1>1, <1>2, <1>3, <1>4, <1>5, <1>6, <1>7, <1>8, <1>9,
     <1>10, <1>11, <1>12, <1>13, <1>14, <1>15, <1>16, <1>17, <1>18,
     <1>19, <1>20, <1>21
  DEF Next, EmitStep, CloseStep, WriterStep

\* No emitter ever sends on a closed channel.
THEOREM SendCorrect == Spec => []NoSendOnClosed
<1>1. Init => Locking
  BY DEF Init, Locking, Readers
<1>2. Locking /\ [Next]_vars => Locking'
  BY NextLocking
<1>3. Locking => NoSendOnClosed
  BY DEF Locking, NoSendOnClosed
<1> QED BY <1>1, <1>2, <1>3, PTL DEF Spec

(***************************************************************************)
(* Types.  The counter of events stays within its bound because an emitter *)
(* in Emit is counted before it begins.                                    *)
(***************************************************************************)
LEMMA FileTypes ==
  /\ EmptyFile \in Files /\ NoFile \notin Files
  /\ \A f \in Files, e \in Events, n \in Nat : Extended(f, Entry(e, n)) \in Files
<1>1. EmptyFile \in Files
  BY DEF EmptyFile, Files
<1>2. NoFile \notin Files
  BY EventLogAssumption DEF Files, Events
<1>3. ASSUME NEW f \in Files, NEW e \in Events, NEW n \in Nat
      PROVE  Extended(f, Entry(e, n)) \in Files
  <2>1. Entry(e, n) \in [event : Events, bytes : Nat]
    BY DEF Entry
  <2>2. f.bytes \in Nat /\ f.entries \in Seq([event : Events, bytes : Nat])
    BY DEF Files
  <2>3. Append(f.entries, Entry(e, n)) \in Seq([event : Events, bytes : Nat])
    BY <2>1, <2>2
  <2>4. f.bytes + n \in Nat /\ Entry(e, n).bytes = n
    BY <2>2 DEF Entry
  <2> QED BY <2>3, <2>4 DEF Extended, Files
<1> QED BY <1>1, <1>2, <1>3

LEMMA LengthType ==
  /\ Length \in [Events -> Nat \ {0}]
  /\ \A e \in Events : Length[e] <= MaxBytes
BY EventLogAssumption DEF Length, Events

Counted == emitted + Cardinality(Readers) <= MaxEvents

InHandStates == {"closing", "removing", "renaming", "creating", "writing"}

LEMMA ReadersFinite ==
  IsFiniteSet(Readers) /\ Cardinality(Readers) \in Nat
BY EventLogAssumption, FS_Subset, FS_CardinalityType DEF Readers

\* Every action keeps the count of events within its bound.
LEMMA NextCounted ==
  ASSUME TypeOK, Counted, [Next]_vars
  PROVE  Counted'
<1> USE EventLogAssumption
<1>1. ASSUME NEW g \in Emitters, BeginEmit(g) PROVE Counted'
  <2>1. Readers' = Readers \cup {g} /\ emitted' = emitted
    BY <1>1 DEF BeginEmit, Readers, TypeOK
  <2>2. Cardinality(Readers \cup {g}) \in {Cardinality(Readers), Cardinality(Readers) + 1}
    BY ReadersFinite, FS_AddElement
  <2> QED BY <1>1, <2>1, <2>2, ReadersFinite DEF BeginEmit, Counted, TypeOK
<1>2. ASSUME NEW g \in Emitters, CheckOpen(g) PROVE Counted'
  <2>1. Readers' \in SUBSET Readers /\ emitted' = emitted
    BY <1>2 DEF CheckOpen, Readers, TypeOK
  <2>2. Cardinality(Readers') <= Cardinality(Readers) /\ Cardinality(Readers') \in Nat
    BY <2>1, ReadersFinite, FS_Subset, FS_CardinalityType
  <2> QED BY <2>1, <2>2, ReadersFinite DEF Counted, TypeOK
<1>3. ASSUME NEW g \in Emitters, Send(g) PROVE Counted'
  <2>1. Readers' = Readers \ {g} /\ g \in Readers /\ emitted' = emitted + 1
    BY <1>3 DEF Send, Readers, TypeOK
  <2>2. Cardinality(Readers') = Cardinality(Readers) - 1
    BY <2>1, ReadersFinite, FS_RemoveElement
  <2> QED BY <2>1, <2>2, ReadersFinite DEF Counted, TypeOK
<1>4. CASE BeginClose
  <2>1. Readers' = Readers /\ emitted' = emitted
    BY <1>4 DEF BeginClose, Readers, callVars
  <2> QED BY <2>1 DEF Counted
<1>5. CASE LockClose
  <2>1. Readers' = Readers /\ emitted' = emitted
    BY <1>5 DEF LockClose, Readers, callVars
  <2> QED BY <2>1 DEF Counted
<1>6. CASE CloseQueue
  <2>1. Readers' = Readers /\ emitted' = emitted
    BY <1>6 DEF CloseQueue, Readers, callVars
  <2> QED BY <2>1 DEF Counted
<1>7. CASE Closed
  <2>1. Readers' = Readers /\ emitted' = emitted
    BY <1>7 DEF Closed, Readers, callVars
  <2> QED BY <2>1 DEF Counted
<1>8. CASE Stat
  <2>1. Readers' = Readers /\ emitted' = emitted
    BY <1>8 DEF Stat, Readers, callVars
  <2> QED BY <2>1 DEF Counted
<1>9. CASE Receive
  <2>1. Readers' = Readers /\ emitted' = emitted
    BY <1>9 DEF Receive, Readers, callVars
  <2> QED BY <2>1 DEF Counted
<1>10. CASE ReceiveClosed
  <2>1. Readers' = Readers /\ emitted' = emitted
    BY <1>10 DEF ReceiveClosed, Readers, callVars
  <2> QED BY <2>1 DEF Counted
<1>11. CASE CloseFile
  <2>1. Readers' = Readers /\ emitted' = emitted
    BY <1>11 DEF CloseFile, Readers, callVars
  <2> QED BY <2>1 DEF Counted
<1>12. CASE Remove
  <2>1. Readers' = Readers /\ emitted' = emitted
    BY <1>12 DEF Remove, Readers, callVars
  <2> QED BY <2>1 DEF Counted
<1>13. CASE Rename
  <2>1. Readers' = Readers /\ emitted' = emitted
    BY <1>13 DEF Rename, Readers, callVars
  <2> QED BY <2>1 DEF Counted
<1>14. CASE Create
  <2>1. Readers' = Readers /\ emitted' = emitted
    BY <1>14 DEF Create, Readers, callVars
  <2> QED BY <2>1 DEF Counted
<1>15. CASE Write
  <2>1. Readers' = Readers /\ emitted' = emitted
    BY <1>15 DEF Write, Readers, callVars
  <2> QED BY <2>1 DEF Counted
<1>16. CASE Sync
  <2>1. Readers' = Readers /\ emitted' = emitted
    BY <1>16 DEF Sync, Readers, callVars
  <2> QED BY <2>1 DEF Counted
<1>17. CASE TakeError
  <2>1. Readers' = Readers /\ emitted' = emitted
    BY <1>17 DEF TakeError, Readers, callVars
  <2> QED BY <2>1 DEF Counted
<1>18. CASE Crash
  <2>1. Readers' = {} /\ emitted' = emitted
    BY <1>18 DEF Crash, Gone, Readers
  <2>2. emitted' \in Nat /\ Cardinality(Readers') = 0 /\ emitted <= MaxEvents
    BY <2>1, FS_EmptySet, EventLogAssumption DEF TypeOK
  <2> QED BY <2>1, <2>2 DEF Counted
<1>19. CASE Exit
  <2>1. Readers' = {} /\ emitted' = emitted
    BY <1>19 DEF Exit, Gone, Readers
  <2>2. emitted' \in Nat /\ Cardinality(Readers') = 0 /\ emitted <= MaxEvents
    BY <2>1, FS_EmptySet, EventLogAssumption DEF TypeOK
  <2> QED BY <2>1, <2>2 DEF Counted
<1>20. CASE Start
  <2>1. Readers' = Readers /\ emitted' = emitted
    BY <1>20 DEF Start, Readers, callVars
  <2> QED BY <2>1 DEF Counted
<1>21. CASE UNCHANGED vars
  <2>1. Readers' = Readers /\ emitted' = emitted
    BY <1>21 DEF vars, Readers, callVars
  <2> QED BY <2>1 DEF Counted
<1> QED
  BY <1>1, <1>2, <1>3, <1>4, <1>5, <1>6, <1>7, <1>8, <1>9,
     <1>10, <1>11, <1>12, <1>13, <1>14, <1>15, <1>16, <1>17, <1>18,
     <1>19, <1>20, <1>21
  DEF Next, EmitStep, CloseStep, WriterStep

CallTypes ==
  /\ emitter \in [Emitters -> {"idle", "locked", "sending"}]
  /\ closer \in {"idle", "waiting", "locked", "draining", "closed"}
  /\ closed \in BOOLEAN /\ qClosed \in BOOLEAN

WriterTypes ==
  /\ writer \in {"stat", "receiving", "closing", "removing", "renaming", "creating", "writing",
                 "syncing", "exited", "down"}
  /\ failed \in BOOLEAN /\ errors \in 0..1
  /\ restarts \in 0..MaxRestarts

QueueTypes ==
  /\ queue \in Seq(Events) /\ Len(queue) <= QueueCap
  /\ dropped \in Nat /\ emitted \in 0..MaxEvents /\ accepted \subseteq Events
  /\ current \in Events \cup {0}
  /\ writer \in InHandStates => current \in Events

DiskTypes ==
  /\ size \in Nat
  /\ live \in Files \cup {NoFile} /\ backup \in Files \cup {NoFile}
  /\ live = NoFile => writer \in {"creating", "exited", "down"}
  /\ stored \in Seq([event : Events, bytes : Nat])

\* Every action keeps the types of the callers.
LEMMA NextCallTypes ==
  ASSUME CallTypes, [Next]_vars
  PROVE  CallTypes'
<1> USE DEF CallTypes, callVars, writerVars, diskVars
<1>1. ASSUME NEW g \in Emitters, BeginEmit(g) PROVE CallTypes'
  BY <1>1 DEF BeginEmit
<1>2. ASSUME NEW g \in Emitters, CheckOpen(g) PROVE CallTypes'
  BY <1>2 DEF CheckOpen
<1>3. ASSUME NEW g \in Emitters, Send(g) PROVE CallTypes'
  BY <1>3 DEF Send
<1>4. CASE BeginClose
  BY <1>4 DEF BeginClose
<1>5. CASE LockClose
  BY <1>5 DEF LockClose
<1>6. CASE CloseQueue
  BY <1>6 DEF CloseQueue
<1>7. CASE Closed
  BY <1>7 DEF Closed
<1>8. CASE Stat
  BY <1>8 DEF Stat
<1>9. CASE Receive
  BY <1>9 DEF Receive
<1>10. CASE ReceiveClosed
  BY <1>10 DEF ReceiveClosed
<1>11. CASE CloseFile
  BY <1>11 DEF CloseFile
<1>12. CASE Remove
  BY <1>12 DEF Remove
<1>13. CASE Rename
  BY <1>13 DEF Rename
<1>14. CASE Create
  BY <1>14 DEF Create
<1>15. CASE Write
  BY <1>15 DEF Write
<1>16. CASE Sync
  BY <1>16 DEF Sync
<1>17. CASE TakeError
  BY <1>17 DEF TakeError
<1>18. CASE Crash
  BY <1>18 DEF Crash, Gone
<1>19. CASE Exit
  BY <1>19 DEF Exit, Gone
<1>20. CASE Start
  BY <1>20 DEF Start
<1>21. CASE UNCHANGED vars
  BY <1>21 DEF vars
<1> QED
  BY <1>1, <1>2, <1>3, <1>4, <1>5, <1>6, <1>7, <1>8, <1>9,
     <1>10, <1>11, <1>12, <1>13, <1>14, <1>15, <1>16, <1>17, <1>18,
     <1>19, <1>20, <1>21
  DEF Next, EmitStep, CloseStep, WriterStep

WriterStates == {"stat", "receiving", "closing", "removing", "renaming", "creating", "writing",
                 "syncing", "exited", "down"}

\* A step of the writer goes on to another state or fails.
LEMMA GotoTypes ==
  ASSUME WriterTypes, UNCHANGED restarts, NEW label \in WriterStates, Goto(label)
  PROVE  WriterTypes'
BY DEF WriterTypes, WriterStates, Goto

LEMMA FailTypes ==
  ASSUME WriterTypes, UNCHANGED restarts, Fail
  PROVE  WriterTypes'
BY DEF WriterTypes, Fail

\* Every action keeps the types of the writer.
LEMMA NextWriterTypes ==
  ASSUME WriterTypes, [Next]_vars
  PROVE  WriterTypes'
<1> USE EventLogAssumption DEF callVars, writerVars, diskVars
<1>1. ASSUME NEW g \in Emitters, BeginEmit(g) PROVE WriterTypes'
  BY <1>1 DEF BeginEmit, WriterTypes
<1>2. ASSUME NEW g \in Emitters, CheckOpen(g) PROVE WriterTypes'
  BY <1>2 DEF CheckOpen, WriterTypes
<1>3. ASSUME NEW g \in Emitters, Send(g) PROVE WriterTypes'
  BY <1>3 DEF Send, WriterTypes
<1>4. CASE BeginClose
  BY <1>4 DEF BeginClose, WriterTypes
<1>5. CASE LockClose
  BY <1>5 DEF LockClose, WriterTypes
<1>6. CASE CloseQueue
  BY <1>6 DEF CloseQueue, WriterTypes
<1>7. CASE Closed
  BY <1>7 DEF Closed, WriterTypes
<1>8. CASE Stat
  BY <1>8, GotoTypes, FailTypes DEF Stat, WriterStates
<1>9. CASE Receive
  BY <1>9, GotoTypes, FailTypes DEF Receive, WriterStates
<1>10. CASE ReceiveClosed
  BY <1>10, GotoTypes, FailTypes DEF ReceiveClosed, WriterStates
<1>11. CASE CloseFile
  BY <1>11, GotoTypes, FailTypes DEF CloseFile, WriterStates
<1>12. CASE Remove
  BY <1>12, GotoTypes, FailTypes DEF Remove, WriterStates
<1>13. CASE Rename
  BY <1>13, GotoTypes, FailTypes DEF Rename, WriterStates
<1>14. CASE Create
  BY <1>14, GotoTypes, FailTypes DEF Create, WriterStates
<1>15. CASE Write
  BY <1>15, GotoTypes, FailTypes DEF Write, WriterStates
<1>16. CASE Sync
  BY <1>16, GotoTypes, FailTypes DEF Sync, WriterStates
<1>17. CASE TakeError
  BY <1>17 DEF TakeError, WriterTypes
<1>18. CASE Crash
  <2>1. writer' = "down" /\ errors' = 0 /\ restarts' = restarts
    BY <1>18 DEF Crash, Gone
  <2>2. failed' \in BOOLEAN
    BY <1>18 DEF Crash, Exit, Gone
  <2> QED BY <2>1, <2>2 DEF WriterTypes
<1>19. CASE Exit
  <2>1. writer' = "down" /\ errors' = 0 /\ restarts' = restarts
    BY <1>19 DEF Exit, Gone
  <2>2. failed' \in BOOLEAN
    BY <1>19 DEF Crash, Exit, Gone
  <2> QED BY <2>1, <2>2 DEF WriterTypes
<1>20. CASE Start
  BY <1>20 DEF Start, WriterTypes
<1>21. CASE UNCHANGED vars
  BY <1>21 DEF vars, WriterTypes
<1> QED
  BY <1>1, <1>2, <1>3, <1>4, <1>5, <1>6, <1>7, <1>8, <1>9,
     <1>10, <1>11, <1>12, <1>13, <1>14, <1>15, <1>16, <1>17, <1>18,
     <1>19, <1>20, <1>21
  DEF Next, EmitStep, CloseStep, WriterStep

\* Every action keeps the types of the queue.
LEMMA NextQueueTypes ==
  ASSUME Counted, QueueTypes, [Next]_vars
  PROVE  QueueTypes'
<1> USE EventLogAssumption DEF QueueTypes, InHandStates, callVars, writerVars, diskVars
<1>1. ASSUME NEW g \in Emitters, BeginEmit(g) PROVE QueueTypes'
  BY <1>1 DEF BeginEmit
<1>2. ASSUME NEW g \in Emitters, CheckOpen(g) PROVE QueueTypes'
  BY <1>2 DEF CheckOpen
<1>3. ASSUME NEW g \in Emitters, Send(g) PROVE QueueTypes'
  <2>1. emitted + 1 \in Events
    <3>1. g \in Readers
      BY <1>3 DEF Send, Readers
    <3>2. Cardinality(Readers) # 0
      BY <3>1, ReadersFinite, FS_EmptySet
    <3> QED BY <3>2, ReadersFinite, EventLogAssumption DEF Counted, Events
  <2>2. emitted' \in 0..MaxEvents /\ emitted' \in Events
    BY <1>3, <2>1, EventLogAssumption DEF Send, Events
  <2>3. UNCHANGED <<writer, current>>
    BY <1>3 DEF Send
  <2>4. CASE Len(queue) < QueueCap
    <3>1. queue' = Append(queue, emitted') /\ accepted' = accepted \cup {emitted'}
          /\ dropped' = dropped
      BY <1>3, <2>4 DEF Send
    <3>2. queue' \in Seq(Events) /\ Len(queue') = Len(queue) + 1
      BY <3>1, <2>2
    <3> QED BY <2>2, <2>3, <2>4, <3>1, <3>2
  <2>5. CASE ~ (Len(queue) < QueueCap)
    <3>1. UNCHANGED <<queue, accepted>> /\ dropped' = dropped + 1
      BY <1>3, <2>5 DEF Send
    <3> QED BY <2>2, <2>3, <3>1
  <2> QED BY <2>4, <2>5
<1>4. CASE BeginClose
  BY <1>4 DEF BeginClose
<1>5. CASE LockClose
  BY <1>5 DEF LockClose
<1>6. CASE CloseQueue
  BY <1>6 DEF CloseQueue
<1>7. CASE Closed
  BY <1>7 DEF Closed
<1>8. CASE Stat
  BY <1>8 DEF Stat, Goto, Fail
<1>9. CASE Receive
  BY <1>9 DEF Receive, Goto, Fail
<1>10. CASE ReceiveClosed
  BY <1>10 DEF ReceiveClosed, Goto, Fail
<1>11. CASE CloseFile
  BY <1>11 DEF CloseFile, Goto, Fail
<1>12. CASE Remove
  BY <1>12 DEF Remove, Goto, Fail
<1>13. CASE Rename
  BY <1>13 DEF Rename, Goto, Fail
<1>14. CASE Create
  BY <1>14 DEF Create, Goto, Fail
<1>15. CASE Write
  <2>1. UNCHANGED <<queue, dropped, emitted, accepted>>
    BY <1>15 DEF Write
  <2>2. (current' = 0 /\ writer' = "receiving") \/ (UNCHANGED current /\ writer' = "exited")
    BY <1>15 DEF Write, Goto, Fail
  <2> QED BY <2>1, <2>2
<1>16. CASE Sync
  BY <1>16 DEF Sync, Goto, Fail
<1>17. CASE TakeError
  BY <1>17 DEF TakeError
<1>18. CASE Crash
  BY <1>18 DEF Crash, Gone
<1>19. CASE Exit
  BY <1>19 DEF Exit, Gone
<1>20. CASE Start
  BY <1>20 DEF Start
<1>21. CASE UNCHANGED vars
  BY <1>21 DEF vars
<1> QED
  BY <1>1, <1>2, <1>3, <1>4, <1>5, <1>6, <1>7, <1>8, <1>9,
     <1>10, <1>11, <1>12, <1>13, <1>14, <1>15, <1>16, <1>17, <1>18,
     <1>19, <1>20, <1>21
  DEF Next, EmitStep, CloseStep, WriterStep

(***************************************************************************)
(* The files.  While the writer holds the file open its idea of the length *)
(* is the length, and it only writes a record that fits.  A new file and a *)
(* restart, which reads the length again, both restore this.               *)
(***************************************************************************)
OpenStates == {"receiving", "closing", "removing", "renaming", "writing", "syncing"}

Lengths ==
  /\ writer \in OpenStates => live # NoFile /\ size = live.bytes
  /\ writer = "stat" => live # NoFile
  /\ writer = "writing" => size + Length[current] <= MaxBytes

Disk == DiskTypes /\ Lengths /\ FilesBounded

\* A record, or the part of it that reaches the file.
LEMMA PutTypes ==
  ASSUME DiskTypes, live # NoFile, current \in Events, NEW n \in Nat, Put(n)
  PROVE  /\ live' \in Files /\ live' # NoFile /\ live'.bytes = live.bytes + n
         /\ stored' \in Seq([event : Events, bytes : Nat])
<1>1. live \in Files
  BY DEF DiskTypes
<1>2. Entry(current, n) \in [event : Events, bytes : Nat] /\ Entry(current, n).bytes = n
  BY DEF Entry
<1>3. live' = Extended(live, Entry(current, n)) /\ stored' = Append(stored, Entry(current, n))
  BY DEF Put
<1>4. live' \in Files /\ live' # NoFile
  BY <1>1, <1>3, FileTypes
<1>5. live'.bytes = live.bytes + n
  BY <1>2, <1>3 DEF Extended
<1>6. stored' \in Seq([event : Events, bytes : Nat])
  BY <1>2, <1>3 DEF DiskTypes
<1> QED BY <1>4, <1>5, <1>6

\* A torn record is shorter than the whole one, so it fits where the whole did.
LEMMA TornDisk ==
  ASSUME QueueTypes, Disk, writer = "writing", Torn, UNCHANGED <<backup>>,
         writer' \in {"exited", "down"}, size' \in Nat
  PROVE  Disk'
<1>1. current \in Events /\ live # NoFile /\ size = live.bytes
  BY DEF QueueTypes, InHandStates, Disk, Lengths, OpenStates
<1>2. PICK n \in 1..Length[current] - 1 : Put(n)
  BY DEF Torn
<1>3. n \in Nat /\ n <= Length[current]
  BY <1>1, <1>2, LengthType
<1>4. /\ live' \in Files /\ live' # NoFile /\ live'.bytes = live.bytes + n
      /\ stored' \in Seq([event : Events, bytes : Nat])
  BY <1>1, <1>2, <1>3, PutTypes DEF Disk
<1>5. live.bytes + Length[current] <= MaxBytes /\ live.bytes \in Nat /\ Length[current] \in Nat
  BY <1>1, LengthType, SMT DEF Disk, DiskTypes, Lengths, Files
<1>6. BytesOf(live)' <= MaxBytes
  BY SMTT(30), <1>3, <1>4, <1>5, EventLogAssumption DEF BytesOf
<1>7. BytesOf(backup)' <= MaxBytes
  BY DEF Disk, FilesBounded, BytesOf
<1> QED BY <1>4, <1>6, <1>7 DEF Disk, DiskTypes, Lengths, FilesBounded, OpenStates

\* The writer ends, or the process: the files stay as they are.
LEMMA EndDisk ==
  ASSUME Disk, UNCHANGED diskVars, writer' \in {"exited", "down"}, size' \in Nat
  PROVE  Disk'
BY DEF Disk, DiskTypes, Lengths, FilesBounded, BytesOf, OpenStates, diskVars

\* A step that leaves the writer and the files alone.
LEMMA SameDisk ==
  ASSUME Disk, UNCHANGED <<writerVars, diskVars>>
  PROVE  Disk'
BY DEF Disk, DiskTypes, Lengths, FilesBounded, BytesOf, OpenStates, writerVars, diskVars

\* Every action keeps the files in order.
LEMMA NextDisk ==
  ASSUME QueueTypes, Disk, [Next]_vars
  PROVE  Disk'
<1> USE DEF writerVars, diskVars
<1>1. ASSUME NEW g \in Emitters, BeginEmit(g) PROVE Disk'
  BY <1>1, SameDisk DEF BeginEmit
<1>2. ASSUME NEW g \in Emitters, CheckOpen(g) PROVE Disk'
  BY <1>2, SameDisk DEF CheckOpen
<1>3. ASSUME NEW g \in Emitters, Send(g) PROVE Disk'
  BY <1>3, SameDisk DEF Send
<1>4. CASE BeginClose
  BY <1>4, SameDisk DEF BeginClose
<1>5. CASE LockClose
  BY <1>5, SameDisk DEF LockClose
<1>6. CASE CloseQueue
  BY <1>6, SameDisk DEF CloseQueue
<1>7. CASE Closed
  BY <1>7, SameDisk DEF Closed
<1>8. CASE Stat
  <2>1. UNCHANGED diskVars /\ writer = "stat"
        /\ \/ size' = live.bytes /\ writer' = "receiving"
           \/ size' = size /\ writer' = "exited"
    BY <1>8 DEF Stat, Goto, Fail, diskVars
  <2>2. CASE size' = size /\ writer' = "exited"
    BY <2>1, <2>2, EndDisk DEF Disk, DiskTypes
  <2>3. CASE size' = live.bytes /\ writer' = "receiving"
    <3>1. live \in Files /\ size' \in Nat
      BY <2>1, <2>3 DEF Disk, DiskTypes, Files
    <3> QED BY <2>1, <2>3, <3>1
      DEF Disk, DiskTypes, Lengths, FilesBounded, BytesOf, OpenStates, diskVars
  <2> QED BY <2>1, <2>2, <2>3
<1>9. CASE Receive
  <2>1. /\ size' = size /\ UNCHANGED diskVars /\ writer = "receiving"
        /\ queue # <<>> /\ current' = Head(queue)
        /\ writer' = IF size + Length[current'] > MaxBytes THEN "closing" ELSE "writing"
    BY <1>9 DEF Receive, Goto, diskVars
  <2>2. current' \in Events
    BY <2>1 DEF QueueTypes
  <2>3. size \in Nat /\ Length[current'] \in Nat /\ MaxBytes \in Nat
    BY <2>2, LengthType, EventLogAssumption DEF Disk, DiskTypes
  <2>4. writer' = "writing" => size' + Length[current'] <= MaxBytes
    BY <2>1, <2>3
  <2>5. writer' \in {"closing", "writing"}
    BY <2>1
  <2> QED BY <2>1, <2>4, <2>5
    DEF Disk, DiskTypes, Lengths, FilesBounded, BytesOf, OpenStates, diskVars
<1>10. CASE ReceiveClosed
  <2>1. size' = size /\ UNCHANGED diskVars /\ writer = "receiving" /\ writer' = "syncing"
    BY <1>10 DEF ReceiveClosed, Goto, diskVars
  <2> QED BY <2>1 DEF Disk, DiskTypes, Lengths, FilesBounded, BytesOf, OpenStates, diskVars
<1>11. CASE CloseFile
  <2>1. size' = size /\ UNCHANGED diskVars /\ writer' \in {"removing", "exited"}
    BY <1>11 DEF CloseFile, Goto, Fail, diskVars
  <2>2. CASE writer' = "exited"
    BY <2>1, <2>2, EndDisk DEF Disk, DiskTypes
  <2>3. CASE writer' = "removing"
    BY <1>11, <2>1, <2>3 DEF CloseFile, Disk, DiskTypes, Lengths, FilesBounded, BytesOf, OpenStates, diskVars
  <2> QED BY <2>1, <2>2, <2>3
<1>12. CASE Remove
  <2>1. /\ size' = size /\ UNCHANGED <<live, stored>> /\ writer = "removing"
        /\ \/ backup' = NoFile /\ writer' = "renaming"
           \/ backup' = backup /\ writer' = "exited"
    BY <1>12 DEF Remove, Goto, Fail
  <2>2. CASE backup' = backup /\ writer' = "exited"
    BY <2>1, <2>2, EndDisk DEF Disk, DiskTypes, diskVars
  <2>3. CASE backup' = NoFile /\ writer' = "renaming"
    BY <2>1, <2>3, EventLogAssumption
    DEF Disk, DiskTypes, Lengths, FilesBounded, BytesOf, OpenStates
  <2> QED BY <2>1, <2>2, <2>3
<1>13. CASE Rename
  <2>1. /\ size' = size /\ stored' = stored /\ writer = "renaming"
        /\ \/ backup' = live /\ live' = NoFile /\ writer' = "creating"
           \/ backup' = backup /\ live' = live /\ writer' = "exited"
    BY <1>13 DEF Rename, Goto, Fail
  <2>2. CASE backup' = backup /\ live' = live /\ writer' = "exited"
    BY <2>1, <2>2, EndDisk DEF Disk, DiskTypes, diskVars
  <2>3. CASE backup' = live /\ live' = NoFile /\ writer' = "creating"
    BY <2>1, <2>3, EventLogAssumption
    DEF Disk, DiskTypes, Lengths, FilesBounded, BytesOf, OpenStates
  <2> QED BY <2>1, <2>2, <2>3
<1>14. CASE Create
  <2>1. /\ backup' = backup /\ stored' = stored /\ current' = current
        /\ \/ live' = EmptyFile /\ size' = 0 /\ writer' = "writing"
           \/ live' = live /\ size' = size /\ writer' = "exited"
    BY <1>14 DEF Create, Goto, Fail
  <2>2. CASE live' = live /\ size' = size /\ writer' = "exited"
    BY <2>1, <2>2, EndDisk DEF Disk, DiskTypes, diskVars
  <2>3. CASE live' = EmptyFile /\ size' = 0 /\ writer' = "writing"
    <3>1. live' \in Files /\ live' # NoFile /\ live'.bytes = 0
      BY <2>3, FileTypes DEF EmptyFile
    <3>2. current \in Events /\ Length[current] \in Nat /\ Length[current] <= MaxBytes
      BY <1>14, LengthType DEF Create, QueueTypes, InHandStates
    <3>3. 0 <= MaxBytes
      BY EventLogAssumption
    <3>4. FilesBounded'
      BY <2>1, <3>1, <3>3 DEF Disk, FilesBounded, BytesOf
    <3>5. Lengths'
      BY <2>1, <2>3, <3>1, <3>2 DEF Lengths, OpenStates
    <3>6. DiskTypes'
      BY <2>1, <2>3, <3>1 DEF Disk, DiskTypes
    <3> QED BY <3>4, <3>5, <3>6 DEF Disk
  <2> QED BY <2>1, <2>2, <2>3
<1>15. CASE Write
  <2>1. writer = "writing" /\ backup' = backup
    BY <1>15 DEF Write
  <2>2. CASE Put(Length[current]) /\ size' = size + Length[current] /\ writer' = "receiving"
    <3>1. current \in Events /\ live # NoFile /\ size = live.bytes
      BY <2>1 DEF QueueTypes, InHandStates, Disk, Lengths, OpenStates
    <3>2. Length[current] \in Nat /\ size + Length[current] <= MaxBytes /\ size \in Nat
      BY <2>1, <3>1, LengthType DEF Disk, DiskTypes, Lengths
    <3>3. /\ live' \in Files /\ live' # NoFile /\ live'.bytes = live.bytes + Length[current]
          /\ stored' \in Seq([event : Events, bytes : Nat])
      BY <2>2, <3>1, <3>2, PutTypes DEF Disk
    <3>4. size' = live'.bytes /\ size' \in Nat /\ live'.bytes <= MaxBytes
      BY <2>2, <3>1, <3>2, <3>3
    <3>5. DiskTypes'
      BY <2>1, <3>3, <3>4 DEF Disk, DiskTypes
    <3>6. Lengths'
      BY <2>2, <3>3, <3>4 DEF Lengths, OpenStates
    <3>7. FilesBounded'
      BY <2>1, <3>3, <3>4 DEF Disk, FilesBounded, BytesOf
    <3> QED BY <3>5, <3>6, <3>7 DEF Disk
  <2>3. CASE Torn /\ size' = size /\ writer' = "exited"
    BY <2>1, <2>3, TornDisk DEF Disk, DiskTypes
  <2>4. CASE UNCHANGED <<live, stored, size>> /\ writer' = "exited"
    BY <2>1, <2>4, EndDisk DEF Disk, DiskTypes, diskVars
  <2> QED BY <1>15, <2>2, <2>3, <2>4 DEF Write, Goto, Fail
<1>16. CASE Sync
  <2>1. size' = size /\ UNCHANGED diskVars /\ writer' \in {"exited"}
    BY <1>16 DEF Sync, Goto, Fail, diskVars
  <2> QED BY <2>1, EndDisk DEF Disk, DiskTypes
<1>17. CASE TakeError
  BY <1>17, SameDisk DEF TakeError
<1>18. CASE Crash
  <2>1. size' = 0 /\ writer' = "down" /\ backup' = backup
    BY <1>18 DEF Crash, Gone
  <2>2. CASE writer = "writing" /\ Torn
    BY <2>1, <2>2, TornDisk
  <2>3. CASE UNCHANGED <<live, stored>>
    BY <2>1, <2>3, EndDisk DEF diskVars
  <2> QED BY <1>18, <2>2, <2>3 DEF Crash
<1>19. CASE Exit
  <2>1. size' = 0 /\ writer' = "down" /\ UNCHANGED diskVars
    BY <1>19 DEF Exit, Gone, diskVars
  <2> QED BY <2>1, EndDisk
<1>20. CASE Start
  <2>1. /\ writer' = "stat" /\ UNCHANGED <<size, backup, stored>>
        /\ live' = IF live = NoFile THEN EmptyFile ELSE live
    BY <1>20 DEF Start
  <2>2. live' \in Files /\ live' # NoFile
    BY <2>1, FileTypes DEF Disk, DiskTypes
  <2>3. BytesOf(live)' <= MaxBytes
    BY <2>1, FileTypes, EventLogAssumption DEF Disk, FilesBounded, BytesOf, EmptyFile
  <2> QED BY <2>1, <2>2, <2>3 DEF Disk, DiskTypes, Lengths, FilesBounded, BytesOf, OpenStates
<1>21. CASE UNCHANGED vars
  BY <1>21, SameDisk DEF vars
<1> QED
  BY <1>1, <1>2, <1>3, <1>4, <1>5, <1>6, <1>7, <1>8, <1>9,
     <1>10, <1>11, <1>12, <1>13, <1>14, <1>15, <1>16, <1>17, <1>18,
     <1>19, <1>20, <1>21
  DEF Next, EmitStep, CloseStep, WriterStep

\* The inductive invariant.
Inv == TypeOK /\ Counted /\ QueueTypes /\ Disk

LEMMA InitInv == Init => Inv
<1> SUFFICES ASSUME Init PROVE Inv
  OBVIOUS
<1>1. CallTypes /\ WriterTypes
  <2>1. failed \in BOOLEAN
    BY DEF Init
  <2>2. errors \in 0..1 /\ restarts \in 0..MaxRestarts
    BY EventLogAssumption DEF Init
  <2>3. writer = "stat"
    BY DEF Init
  <2> QED BY <2>1, <2>2, <2>3 DEF Init, CallTypes, WriterTypes
<1>2. QueueTypes
  BY EventLogAssumption DEF Init, QueueTypes, InHandStates
<1>3. Disk
  BY FileTypes, EventLogAssumption
  DEF Init, Disk, DiskTypes, Lengths, FilesBounded, BytesOf, OpenStates, EmptyFile
<1>4. Counted
  <2>1. Readers = {}
    BY DEF Init, Readers
  <2> QED BY <2>1, FS_EmptySet, EventLogAssumption DEF Init, Counted
<1>5. TypeOK
  BY <1>1, <1>2, <1>3 DEF Disk, CallTypes, WriterTypes, QueueTypes, DiskTypes, TypeOK
<1> QED BY <1>2, <1>3, <1>4, <1>5 DEF Inv

LEMMA NextInv == Inv /\ [Next]_vars => Inv'
<1> SUFFICES ASSUME Inv, [Next]_vars PROVE Inv'
  OBVIOUS
<1>1. CallTypes /\ WriterTypes
  BY DEF Inv, TypeOK, CallTypes, WriterTypes
<1>2. CallTypes' /\ WriterTypes'
  BY <1>1, NextCallTypes, NextWriterTypes
<1>3. QueueTypes' /\ Counted' /\ Disk'
  BY NextQueueTypes, NextCounted, NextDisk DEF Inv
<1>4. TypeOK'
  BY <1>2, <1>3 DEF Disk, CallTypes, WriterTypes, QueueTypes, DiskTypes, TypeOK
<1> QED BY <1>3, <1>4 DEF Inv

LEMMA Invariance == Spec => []Inv
BY InitInv, NextInv, PTL DEF Spec

\* Every variable of the log keeps its type; the event number never passes its
\* bound, although it is taken when an emitter enters and spent when it sends.
THEOREM TypeCorrect == Spec => []TypeOK
<1>1. Inv => TypeOK
  BY DEF Inv
<1> QED BY <1>1, Invariance, PTL

\* Neither the file nor its backup ever exceeds the limit, whatever fails or
\* crashes.
THEOREM BoundCorrect == Spec => []FilesBounded
<1>1. Inv => FilesBounded
  BY DEF Inv, Disk
<1> QED BY <1>1, Invariance, PTL

(***************************************************************************)
(* What a reader finds, and the refinement of Journal.                     *)
(***************************************************************************)
EntrySet == [event : Events, bytes : Nat]

(***************************************************************************)
(* The bytes of a sequence of entries.  Size is a recursive function on    *)
(* the prefixes of its argument; Sums are the functions that satisfy its   *)
(* equation, of which there is exactly one.                                *)
(***************************************************************************)
Sums(s, n) ==
  {f \in [0..n -> Nat] : f[0] = 0 /\ \A i \in 1..n : f[i] = f[i - 1] + s[i].bytes}

LEMMA SumsExist ==
  ASSUME NEW s \in Seq(EntrySet)
  PROVE  Sums(s, Len(s)) # {}
<1> DEFINE T == {n \in 0..Len(s) : Sums(s, n) # {}}
<1>1. 0 \in T
  <2>1. [i \in 0..0 |-> 0] \in Sums(s, 0)
    BY DEF Sums
  <2> QED BY <2>1
<1>2. ASSUME NEW n \in T, n < Len(s) PROVE n + 1 \in T
  <2>1. PICK f : f \in Sums(s, n)
    BY <1>2
  <2>2. f \in [0..n -> Nat] /\ f[0] = 0 /\ \A i \in 1..n : f[i] = f[i - 1] + s[i].bytes
    BY <2>1 DEF Sums
  <2>3. s[n + 1].bytes \in Nat /\ n + 1 \in 0..Len(s)
    <3>1. n \in Nat /\ n + 1 \in 1..Len(s)
      BY <1>2
    <3>2. s[n + 1] \in EntrySet
      BY <3>1
    <3> QED BY <3>1, <3>2 DEF EntrySet
  <2> DEFINE g == [i \in 0..n + 1 |-> IF i = n + 1 THEN f[n] + s[n + 1].bytes ELSE f[i]]
  <2>4. g \in [0..n + 1 -> Nat] /\ g[0] = 0
    BY <2>2, <2>3
  <2>5. ASSUME NEW i \in 1..n + 1 PROVE g[i] = g[i - 1] + s[i].bytes
    <3>1. CASE i = n + 1
      BY <2>2, <2>3, <3>1
    <3>2. CASE i \in 1..n
      BY <2>2, <3>2
    <3> QED BY <2>3, <3>1, <3>2
  <2>6. g \in Sums(s, n + 1)
    BY <2>4, <2>5 DEF Sums
  <2> QED BY <2>3, <2>6
<1>3. T = 0..Len(s)
  <2> HIDE DEF T
  <2>1. T \in SUBSET (0..Len(s)) /\ Len(s) \in Nat
    BY DEF T
  <2> QED BY <1>1, <1>2, <2>1, IntervalInduction
<1> QED BY <1>3

\* Size is the last value of such a function.
LEMMA SizeIsSum ==
  ASSUME NEW s \in Seq(EntrySet)
  PROVE  \E f \in Sums(s, Len(s)) : J!Size(s) = f[Len(s)]
<1> DEFINE F == CHOOSE sum : sum = [i \in 0..Len(s) |-> IF i = 0 THEN 0 ELSE sum[i - 1] + s[i].bytes]
<1>1. PICK f : f \in Sums(s, Len(s))
  BY SumsExist
<1>2. f = [i \in 0..Len(s) |-> IF i = 0 THEN 0 ELSE f[i - 1] + s[i].bytes]
  BY <1>1 DEF Sums
<1>3. F = [i \in 0..Len(s) |-> IF i = 0 THEN 0 ELSE F[i - 1] + s[i].bytes]
  BY <1>2
<1>4. J!Size(s) = F[Len(s)]
  BY DEF J!Size
<1> HIDE DEF F
<1> DEFINE T == {i \in 0..Len(s) : F[i] = f[i]}
<1>5. T \in SUBSET (0..Len(s)) /\ 0 \in T
  BY <1>1, <1>3 DEF Sums
<1>6. ASSUME NEW i \in T, i < Len(s) PROVE i + 1 \in T
  <2>1. f[i + 1] = f[i] + s[i + 1].bytes
    <3>1. i + 1 \in 1..Len(s) /\ (i + 1) - 1 = i
      BY <1>6
    <3> QED BY <1>1, <3>1 DEF Sums
  <2>2. F[i + 1] = F[i] + s[i + 1].bytes
    BY <1>3, <1>6
  <2> QED BY <1>6, <2>1, <2>2
<1>7. T = 0..Len(s)
  <2> HIDE DEF T
  <2> QED BY <1>5, <1>6, IntervalInduction
<1>8. F[Len(s)] = f[Len(s)]
  <2>1. Len(s) \in T
    <3> HIDE DEF T
    <3>1. Len(s) \in 0..Len(s)
      OBVIOUS
    <3> QED BY <1>7, <3>1
  <2> QED BY <2>1
<1> QED BY <1>1, <1>4, <1>8

LEMMA SizeEmpty == J!Size(<<>>) = 0
<1>1. <<>> \in Seq(EntrySet) /\ Len(<<>>) = 0
  OBVIOUS
<1>2. PICK f \in Sums(<<>>, 0) : J!Size(<<>>) = f[0]
  BY <1>1, SizeIsSum
<1> QED BY <1>2 DEF Sums

\* One entry more is its bytes more.
LEMMA SizeAppend ==
  ASSUME NEW s \in Seq(EntrySet), NEW e \in EntrySet
  PROVE  J!Size(s) \in Nat /\ J!Size(Append(s, e)) = J!Size(s) + e.bytes
<1> DEFINE n == Len(s)
           t == Append(s, e)
<1>1. t \in Seq(EntrySet) /\ Len(t) = n + 1 /\ t[n + 1] = e /\ \A i \in 1..n : t[i] = s[i]
  OBVIOUS
<1>2. PICK f \in Sums(s, n) : J!Size(s) = f[n]
  BY SizeIsSum
<1>3. PICK g \in Sums(t, n + 1) : J!Size(t) = g[n + 1]
  BY <1>1, SizeIsSum
<1> HIDE DEF n, t
<1>n. n \in Nat
  BY DEF n
<1> DEFINE T == {i \in 0..n : g[i] = f[i]}
<1>4. T \in SUBSET (0..n) /\ 0 \in T
  BY <1>2, <1>3, <1>n DEF Sums
<1>5. ASSUME NEW i \in T, i < n PROVE i + 1 \in T
  <2>1. f[i + 1] = f[i] + s[i + 1].bytes /\ g[i + 1] = g[i] + t[i + 1].bytes
    <3>1. i + 1 \in 1..n /\ i + 1 \in 1..n + 1 /\ (i + 1) - 1 = i
      BY <1>5, <1>n
    <3> QED BY <1>2, <1>3, <3>1 DEF Sums
  <2> QED BY <1>1, <1>5, <1>n, <2>1
<1>6. T = 0..n
  <2> HIDE DEF T
  <2> QED BY <1>n, <1>4, <1>5, IntervalInduction
<1>7. g[n] = f[n] /\ f[n] \in Nat
  <2>1. n \in 0..n
    BY <1>n
  <2>2. g[n] = f[n]
    <3>1. n \in T
      <4> HIDE DEF T
      <4> QED BY <1>6, <2>1
    <3> QED BY <3>1
  <2>3. f \in [0..n -> Nat]
    BY <1>2 DEF Sums
  <2> QED BY <2>1, <2>2, <2>3
<1>8. g[n + 1] = g[n] + t[n + 1].bytes
  BY <1>3, <1>n DEF Sums
<1> QED BY <1>1, <1>2, <1>3, <1>7, <1>8 DEF t

(***************************************************************************)
(* The files through a rotation.  A step leaves what the files hold alone, *)
(* appends a record or a part of one, discards the backup, or renames.     *)
(***************************************************************************)
Rotation ==
  /\ writer = "renaming" => backup = NoFile
  /\ writer = "creating" => live = NoFile
  /\ writer \in {"closing", "removing"} => size + Length[current] > MaxBytes

SameFiles ==
  /\ UNCHANGED <<backup, stored>>
  /\ live' = live \/ (live = NoFile /\ live' = EmptyFile)

Puts ==
  /\ writer = "writing" /\ UNCHANGED backup
  /\ \E n \in 1..Length[current] : Put(n)

Discards == writer = "removing" /\ backup' = NoFile /\ UNCHANGED <<live, stored>>

Renames == writer = "renaming" /\ backup' = live /\ live' = NoFile /\ UNCHANGED stored

LEMMA TornPuts ==
  ASSUME Inv, writer = "writing", Torn, UNCHANGED backup
  PROVE  Puts
<1>1. current \in Events
  BY DEF Inv, QueueTypes, InHandStates
<1>2. Length[current] \in Nat /\ 1..Length[current] - 1 \subseteq 1..Length[current]
  BY <1>1, LengthType
<1> QED BY <1>2 DEF Torn, Puts

\* Every step is one of these.
LEMMA FileStep ==
  ASSUME Inv, Rotation, [Next]_vars
  PROVE  SameFiles \/ Puts \/ Discards \/ Renames
<1> USE DEF writerVars, diskVars, Goto, Fail
<1>1. ASSUME NEW g \in Emitters, EmitStep(g) PROVE SameFiles
  BY <1>1 DEF EmitStep, BeginEmit, CheckOpen, Send, SameFiles
<1>2. CASE BeginClose \/ CloseStep \/ TakeError \/ UNCHANGED vars
  BY <1>2 DEF BeginClose, CloseStep, LockClose, CloseQueue, Closed, TakeError, vars, SameFiles
<1>3. CASE Stat \/ Receive \/ ReceiveClosed \/ CloseFile \/ Sync
  BY <1>3 DEF Stat, Receive, ReceiveClosed, CloseFile, Sync, SameFiles
<1>4. CASE Remove
  BY <1>4 DEF Remove, SameFiles, Discards
<1>5. CASE Rename
  BY <1>5 DEF Rename, SameFiles, Renames
<1>6. CASE Create
  BY <1>6 DEF Create, Rotation, SameFiles
<1>7. CASE Write
  <2>1. CASE Put(Length[current])
    <3>1. current \in Events
      BY <1>7 DEF Write, Inv, QueueTypes, InHandStates
    <3>2. Length[current] \in 1..Length[current]
      BY <3>1, LengthType
    <3> QED BY <1>7, <2>1, <3>2 DEF Write, Puts
  <2>2. CASE Torn
    BY <1>7, <2>2, TornPuts DEF Write
  <2>3. CASE UNCHANGED <<live, stored>>
    BY <1>7, <2>3 DEF Write, SameFiles
  <2> QED BY <1>7, <2>1, <2>2, <2>3 DEF Write
<1>8. CASE Crash
  <2>1. UNCHANGED backup
    BY <1>8 DEF Crash, Gone
  <2>2. CASE writer = "writing" /\ Torn
    BY <2>1, <2>2, TornPuts
  <2>3. CASE UNCHANGED <<live, stored>>
    BY <2>1, <2>3 DEF SameFiles
  <2> QED BY <1>8, <2>2, <2>3 DEF Crash
<1>9. CASE Exit
  BY <1>9 DEF Exit, Gone, SameFiles
<1>10. CASE Start
  BY <1>10 DEF Start, SameFiles
<1> QED BY <1>1, <1>2, <1>3, <1>4, <1>5, <1>6, <1>7, <1>8, <1>9, <1>10 DEF Next, WriterStep

\* A rotation goes through its states in order, and is entered with a full file.
LEMMA NextRotation ==
  ASSUME Inv, Rotation, [Next]_vars
  PROVE  Rotation'
<1> USE DEF Rotation, writerVars, diskVars, Goto, Fail
<1>1. ASSUME NEW g \in Emitters, EmitStep(g) PROVE Rotation'
  BY <1>1 DEF EmitStep, BeginEmit, CheckOpen, Send
<1>2. CASE BeginClose \/ CloseStep \/ TakeError \/ UNCHANGED vars
  BY <1>2 DEF BeginClose, CloseStep, LockClose, CloseQueue, Closed, TakeError, vars
<1>3. CASE Stat \/ ReceiveClosed \/ Sync \/ Write
  BY <1>3 DEF Stat, ReceiveClosed, Sync, Write
<1>4. CASE Receive
  BY <1>4 DEF Receive
<1>5. CASE CloseFile
  BY <1>5 DEF CloseFile
<1>6. CASE Remove \/ Rename \/ Create
  BY <1>6 DEF Remove, Rename, Create
<1>7. CASE Crash \/ Exit
  BY <1>7 DEF Crash, Exit, Gone
<1>8. CASE Start
  BY <1>8 DEF Start
<1> QED BY <1>1, <1>2, <1>3, <1>4, <1>5, <1>6, <1>7, <1>8 DEF Next, WriterStep

(***************************************************************************)
(* What a reader finds: the end of what was stored, and at least Floor     *)
(* bytes of it once anything is missing.                                   *)
(***************************************************************************)
\* There is a longest record, and it fits in a file.
LEMMA LongestIs ==
  /\ Longest \in Nat /\ Longest <= MaxBytes
  /\ \A e \in Events : Length[e] <= Longest
<1> DEFINE T == {n \in 0..MaxEvents - 1 :
                  \E m \in 1..n + 1 : \A e \in 1..n + 1 : Length[e] <= Length[m]}
<1>1. MaxEvents - 1 \in Nat /\ T \in SUBSET (0..MaxEvents - 1)
  BY EventLogAssumption
<1>2. 0 \in T
  BY EventLogAssumption, LengthType DEF Events
<1>3. ASSUME NEW n \in T, n < MaxEvents - 1 PROVE n + 1 \in T
  <2>1. PICK m \in 1..n + 1 : \A e \in 1..n + 1 : Length[e] <= Length[m]
    OBVIOUS
  <2>2. n + 1 \in 0..MaxEvents - 1 /\ n + 2 \in Events /\ m \in Events
        /\ 1..n + 2 = (1..n + 1) \cup {n + 2} /\ (n + 1) + 1 = n + 2
    BY SMTT(30), <1>3, EventLogAssumption DEF Events
  <2>3. Length[n + 2] \in Nat /\ Length[m] \in Nat
    BY <2>2, LengthType
  <2>4. CASE Length[n + 2] <= Length[m]
    BY <2>1, <2>2, <2>4
  <2>5. CASE ~ (Length[n + 2] <= Length[m])
    <3>1. ASSUME NEW e \in 1..n + 1 PROVE Length[e] <= Length[n + 2]
      <4>1. e \in Events
        BY <1>3, EventLogAssumption DEF Events
      <4> QED BY <2>1, <2>3, <2>5, <4>1, LengthType
    <3>2. \A e \in 1..n + 2 : Length[e] <= Length[n + 2]
      BY <2>2, <2>3, <3>1
    <3> QED BY <2>2, <3>2
  <2> QED BY <2>4, <2>5
<1>4. T = 0..MaxEvents - 1
  <2> HIDE DEF T
  <2> QED BY <1>1, <1>2, <1>3, IntervalInduction
<1>5. PICK m \in Events : \A e \in Events : Length[e] <= Length[m]
  <2>1. MaxEvents - 1 \in 0..MaxEvents - 1 /\ (MaxEvents - 1) + 1 = MaxEvents
    BY EventLogAssumption
  <2>2. MaxEvents - 1 \in T
    BY <1>4, <2>1
  <2> QED BY <2>1, <2>2 DEF Events
<1>6. Longest \in {Length[e] : e \in Events} /\ \A e \in Events : Length[e] <= Longest
  BY <1>5 DEF Longest
<1> QED BY <1>6, LengthType

\* A file that has no room for a record holds at least Floor bytes.
LEMMA FloorIs ==
  Floor \in Nat \ {0} /\ \A e \in Events, n \in Nat : n + Length[e] > MaxBytes => n >= Floor
BY LongestIs, LengthType, EventLogAssumption DEF Floor

\* Everything stored is what was discarded, and after it what is retained.
Recent == \E p \in Seq(EntrySet) : stored = p \o Retained

FileSums == \A f \in {live, backup} \ {NoFile} : f.bytes = J!Size(f.entries)

Kept == Recent /\ FileSums /\ RetainsAFile

LEMMA EntriesTypes ==
  ASSUME NEW f \in Files \cup {NoFile}
  PROVE  /\ Entries(f) \in Seq(EntrySet) /\ BytesOf(f) \in Nat
         /\ f = NoFile => Entries(f) = <<>> /\ BytesOf(f) = 0
         /\ f # NoFile => Entries(f) = f.entries /\ BytesOf(f) = f.bytes
BY DEF Files, Entries, BytesOf, EntrySet

LEMMA RetainedTypes ==
  ASSUME Inv
  PROVE  /\ live \in Files \cup {NoFile} /\ backup \in Files \cup {NoFile}
         /\ Entries(live) \in Seq(EntrySet) /\ Entries(backup) \in Seq(EntrySet)
         /\ Retained \in Seq(EntrySet)
         /\ Len(Retained) = Len(Entries(backup)) + Len(Entries(live))
         /\ BytesOf(live) \in Nat /\ BytesOf(backup) \in Nat
         /\ stored \in Seq(EntrySet)
<1>1. live \in Files \cup {NoFile} /\ backup \in Files \cup {NoFile} /\ stored \in Seq(EntrySet)
  BY DEF Inv, TypeOK, EntrySet
<1>2. /\ Entries(live) \in Seq(EntrySet) /\ Entries(backup) \in Seq(EntrySet)
      /\ BytesOf(live) \in Nat /\ BytesOf(backup) \in Nat
  BY <1>1, EntriesTypes
<1> QED BY <1>1, <1>2 DEF Retained

\* The effect of a put on the files.
LEMMA PutKeeps ==
  ASSUME Inv, Puts
  PROVE  \E entry \in EntrySet :
           /\ entry.bytes \in 1..MaxBytes
           /\ live # NoFile /\ live' = Extended(live, entry) /\ live' # NoFile /\ live' \in Files
           /\ stored' = Append(stored, entry)
           /\ Entries(live)' = Append(Entries(live), entry)
           /\ BytesOf(live)' = BytesOf(live) + entry.bytes
<1>1. PICK n \in 1..Length[current] : Put(n)
  BY DEF Puts
<1>2. current \in Events /\ live \in Files /\ live # NoFile
  BY DEF Puts, Inv, QueueTypes, InHandStates, Disk, DiskTypes, Lengths, OpenStates
<1>3. n \in 1..MaxBytes /\ n \in Nat
  BY <1>2, LengthType, EventLogAssumption
<1> DEFINE entry == Entry(current, n)
<1>4. entry \in EntrySet /\ entry.bytes = n
  BY <1>2, <1>3 DEF Entry, EntrySet
<1>5. live' = Extended(live, entry) /\ stored' = Append(stored, entry)
  BY <1>1 DEF Put
<1>6. live' \in Files /\ live' # NoFile
  BY <1>2, <1>3, <1>5, FileTypes
<1>7. live'.entries = Append(live.entries, entry) /\ live'.bytes = live.bytes + entry.bytes
  BY <1>5 DEF Extended
<1>8. Entries(live)' = Append(Entries(live), entry) /\ BytesOf(live)' = BytesOf(live) + entry.bytes
  BY <1>2, <1>6, <1>7 DEF Entries, BytesOf
<1> QED BY <1>2, <1>3, <1>4, <1>5, <1>6, <1>8

\* An entry appended to the last of three parts is appended to the whole.
AppendsLast(p, q, r, entry) == Append(p \o (q \o r), entry) = p \o (q \o Append(r, entry))

LEMMA AppendLast ==
  ASSUME NEW p \in Seq(EntrySet), NEW q \in Seq(EntrySet), NEW r \in Seq(EntrySet),
         NEW entry \in EntrySet
  PROVE  AppendsLast(p, q, r, entry)
<1>1. Append(r, entry) = r \o <<entry>> /\ <<entry>> \in Seq(EntrySet)
  BY AppendIsConcat
<1>2. Append(p \o (q \o r), entry) = (p \o (q \o r)) \o <<entry>>
  BY AppendIsConcat
<1>3. (p \o (q \o r)) \o <<entry>> = p \o ((q \o r) \o <<entry>>)
  BY SMTT(30), <1>1, ConcatAssociative
<1>4. (q \o r) \o <<entry>> = q \o (r \o <<entry>>)
  BY <1>1, ConcatAssociative
<1> QED BY <1>1, <1>2, <1>3, <1>4 DEF AppendsLast

\* Every step leaves a reader with the end of what was stored.
LEMMA NextRecent ==
  ASSUME Inv, Rotation, Recent, [Next]_vars
  PROVE  Recent'
<1>1. PICK p \in Seq(EntrySet) : stored = p \o Retained
  BY DEF Recent
<1>2. /\ Entries(live) \in Seq(EntrySet) /\ Entries(backup) \in Seq(EntrySet)
      /\ Retained = Entries(backup) \o Entries(live) /\ Retained \in Seq(EntrySet)
  BY RetainedTypes DEF Retained
<1>3. CASE SameFiles
  <2>1. Entries(live)' = Entries(live) /\ Entries(backup)' = Entries(backup) /\ stored' = stored
    BY <1>3, FileTypes DEF SameFiles, Entries, EmptyFile
  <2> QED BY <1>1, <2>1 DEF Recent, Retained
<1>4. CASE Puts
  <2>1. PICK entry \in EntrySet : /\ stored' = Append(stored, entry)
                                  /\ Entries(live)' = Append(Entries(live), entry)
    BY <1>4, PutKeeps
  <2>2. Entries(backup)' = Entries(backup)
    BY <1>4 DEF Puts, Entries
  <2>3. AppendsLast(p, Entries(backup), Entries(live), entry)
    BY <1>2, AppendLast
  <2> QED BY <1>1, <1>2, <2>1, <2>2, <2>3 DEF Recent, Retained, AppendsLast
<1>5. CASE Discards
  <2>1. Entries(live)' = Entries(live) /\ Entries(backup)' = <<>> /\ stored' = stored
    BY <1>5 DEF Discards, Entries
  <2>2. p \o (Entries(backup) \o Entries(live)) = (p \o Entries(backup)) \o (<<>> \o Entries(live))
    BY <1>2
  <2>3. p \o Entries(backup) \in Seq(EntrySet)
    BY <1>2
  <2> QED BY <1>1, <1>2, <2>1, <2>2, <2>3 DEF Recent, Retained
<1>6. CASE Renames
  <2>1. /\ Entries(live)' = <<>> /\ Entries(backup)' = Entries(live) /\ stored' = stored
        /\ Entries(backup) = <<>>
    BY <1>6 DEF Renames, Rotation, Entries
  <2>2. <<>> \o Entries(live) = Entries(live) \o <<>>
    BY <1>2
  <2> QED BY <1>1, <1>2, <2>1, <2>2 DEF Recent, Retained
<1> QED BY <1>3, <1>4, <1>5, <1>6, FileStep

\* The length of a file is that of its entries.
LEMMA NextSums ==
  ASSUME Inv, Rotation, FileSums, [Next]_vars
  PROVE  FileSums'
<1>1. EmptyFile.bytes = J!Size(EmptyFile.entries)
  BY SizeEmpty DEF EmptyFile
<1>2. CASE SameFiles
  BY <1>1, <1>2 DEF SameFiles, FileSums
<1>3. CASE Puts
  <2>1. PICK entry \in EntrySet : /\ live' = Extended(live, entry) /\ live # NoFile
                                  /\ live' \in Files
    BY <1>3, PutKeeps
  <2>2. live.entries \in Seq(EntrySet)
    BY <2>1, RetainedTypes DEF Files, EntrySet
  <2>3. live'.bytes = live.bytes + entry.bytes /\ live'.entries = Append(live.entries, entry)
    BY <2>1 DEF Extended
  <2>4. live'.bytes = J!Size(live'.entries)
    BY <2>1, <2>2, <2>3, SizeAppend DEF FileSums
  <2> QED BY <1>3, <2>4 DEF Puts, FileSums
<1>4. CASE Discards
  BY <1>4 DEF Discards, FileSums
<1>5. CASE Renames
  BY <1>5 DEF Renames, FileSums
<1> QED BY <1>2, <1>3, <1>4, <1>5, FileStep

\* Nothing is discarded but before a file that is full.
LEMMA FullBeforeDiscard ==
  ASSUME Inv, Rotation, writer = "removing"
  PROVE  live # NoFile /\ BytesOf(live) >= Floor
<1>1. live # NoFile /\ size = live.bytes /\ current \in Events /\ live \in Files
  BY DEF Inv, Disk, DiskTypes, Lengths, OpenStates, QueueTypes, InHandStates
<1>2. live.bytes \in Nat /\ live.bytes + Length[current] > MaxBytes
  BY <1>1 DEF Files, Rotation
<1> QED BY <1>1, <1>2, FloorIs DEF BytesOf

LEMMA NextRetains ==
  ASSUME Inv, Rotation, RetainsAFile, [Next]_vars
  PROVE  RetainsAFile'
<1>1. /\ BytesOf(live) \in Nat /\ BytesOf(backup) \in Nat
      /\ Entries(live) \in Seq(EntrySet) /\ Entries(backup) \in Seq(EntrySet)
      /\ stored \in Seq(EntrySet) /\ Floor \in Nat
      /\ Len(Retained) = Len(Entries(backup)) + Len(Entries(live))
  BY RetainedTypes, FloorIs
<1>2. CASE SameFiles
  <2>1. /\ Entries(live)' = Entries(live) /\ Entries(backup)' = Entries(backup) /\ stored' = stored
        /\ BytesOf(live)' = BytesOf(live) /\ BytesOf(backup)' = BytesOf(backup)
    BY <1>2, FileTypes DEF SameFiles, Entries, BytesOf, EmptyFile
  <2> QED BY <2>1 DEF RetainsAFile, Retained
<1>3. CASE Puts
  <2>1. PICK entry \in EntrySet : /\ entry.bytes \in 1..MaxBytes
                                  /\ stored' = Append(stored, entry)
                                  /\ Entries(live)' = Append(Entries(live), entry)
                                  /\ BytesOf(live)' = BytesOf(live) + entry.bytes
    BY <1>3, PutKeeps
  <2>2. Entries(backup)' = Entries(backup) /\ BytesOf(backup)' = BytesOf(backup)
    BY <1>3 DEF Puts, Entries, BytesOf
  <2>3. Len(stored') = Len(stored) + 1 /\ Len(Retained') = Len(Retained) + 1
    BY <1>1, <2>1, <2>2 DEF Retained
  <2> QED BY SMTT(30), <1>1, <2>1, <2>2, <2>3 DEF RetainsAFile
<1>4. CASE Discards
  <2>1. BytesOf(live)' >= Floor /\ BytesOf(backup)' = 0
    BY <1>4, FullBeforeDiscard DEF Discards, BytesOf
  <2>2. BytesOf(live)' \in Nat
    BY <1>1, <1>4 DEF Discards, BytesOf
  <2> QED BY <1>1, <2>1, <2>2 DEF RetainsAFile
<1>5. CASE Renames
  <2>1. /\ Entries(live)' = <<>> /\ Entries(backup)' = Entries(live) /\ stored' = stored
        /\ Entries(backup) = <<>>
        /\ BytesOf(live)' = 0 /\ BytesOf(backup)' = BytesOf(live) /\ BytesOf(backup) = 0
    BY <1>5 DEF Renames, Rotation, Entries, BytesOf
  <2>2. Len(Retained') = Len(Retained)
    BY <1>1, <2>1 DEF Retained
  <2> QED BY <1>1, <2>1, <2>2 DEF RetainsAFile
<1> QED BY <1>2, <1>3, <1>4, <1>5, FileStep

RInv == Inv /\ Rotation /\ Kept

LEMMA InitRInv == Init => RInv
<1> SUFFICES ASSUME Init PROVE RInv
  OBVIOUS
<1>1. Inv /\ Rotation
  BY InitInv DEF Init, Rotation
<1>2. live = EmptyFile /\ backup = NoFile /\ stored = <<>> /\ EmptyFile # NoFile
  BY FileTypes DEF Init
<1>3. Retained = <<>>
  BY <1>2 DEF Retained, Entries, EmptyFile
<1>4. <<>> \in Seq(EntrySet) /\ <<>> = <<>> \o <<>>
  OBVIOUS
<1>5. Recent
  BY <1>2, <1>3, <1>4 DEF Recent
<1>6. FileSums
  BY <1>2, SizeEmpty DEF FileSums, EmptyFile
<1>7. RetainsAFile
  BY <1>2, <1>3 DEF RetainsAFile
<1> QED BY <1>1, <1>5, <1>6, <1>7 DEF RInv, Kept

LEMMA NextRInv == RInv /\ [Next]_vars => RInv'
BY NextInv, NextRotation, NextRecent, NextSums, NextRetains DEF RInv, Kept

LEMMA RInvariance == Spec => []RInv
BY InitRInv, NextRInv, PTL DEF Spec

\* A reader of path.1 and path finds the newest entries, once and in order, at
\* any step of a rotation, after any crash and restart.
THEOREM RecentCorrect == Spec => []RetainedIsRecent
<1>1. RInv => RetainedIsRecent
  <2> SUFFICES ASSUME RInv PROVE RetainedIsRecent
    OBVIOUS
  <2>1. PICK p \in Seq(EntrySet) : stored = p \o Retained
    BY DEF RInv, Kept, Recent
  <2>2. Retained \in Seq(EntrySet)
    BY RetainedTypes DEF RInv
  <2>3. Len(stored) = Len(p) + Len(Retained) /\ Len(p) \in Nat /\ Len(Retained) \in Nat
    BY <2>1, <2>2
  <2>4. SubSeq(p \o Retained, Len(p) + 1, Len(p) + Len(Retained)) = Retained
    BY <2>2
  <2>5. Len(stored) - Len(Retained) + 1 = Len(p) + 1
    BY <2>3
  <2> QED BY <2>1, <2>3, <2>4, <2>5 DEF RetainedIsRecent
<1> QED BY <1>1, RInvariance, PTL

\* Once entries are discarded the two files hold at least the limit less the
\* longest record, at any step of a rotation and after any crash.
THEOREM FloorCorrect == Spec => []RetainsAFile
<1>1. RInv => RetainsAFile
  BY DEF RInv, Kept
<1> QED BY <1>1, RInvariance, PTL

(***************************************************************************)
(* From Emit to the file.  While the log has not failed an accepted event  *)
(* is in the queue, in the writer's hand or stored; the writer only ends   *)
(* with the queue empty and the channel closed, and Close returns after    *)
(* it.                                                                     *)
(***************************************************************************)
Waits(e) ==
  \/ \E i \in 1..Len(queue) : queue[i] = e
  \/ writer \in InHandStates /\ current = e

IsStored(e) == \E i \in 1..Len(stored) : stored[i] = Entry(e, Length[e])

Tracked == ~ failed => \A e \in accepted : Waits(e) \/ IsStored(e)

Drained ==
  /\ writer \in {"syncing", "exited"} /\ ~ failed => queue = <<>> /\ qClosed
  /\ closer = "closed" => writer = "exited"
  /\ writer = "down" => queue = <<>> /\ Readers = {} /\ closer = "idle" /\ accepted = {}

\* The writer ends after the last event: no emitter sends once it has.
LEMMA NextDrained ==
  ASSUME Inv, Locking, Drained, [Next]_vars
  PROVE  Drained'
<1> USE DEF Drained, Readers, callVars, writerVars, diskVars, Goto, Fail
<1>1. ASSUME NEW g \in Emitters, BeginEmit(g) PROVE Drained'
  BY <1>1 DEF BeginEmit, Up, Locking
<1>2. ASSUME NEW g \in Emitters, CheckOpen(g) PROVE Drained'
  BY <1>2 DEF CheckOpen, Locking
<1>3. ASSUME NEW g \in Emitters, Send(g) PROVE Drained'
  BY <1>3 DEF Send, Locking
<1>4. CASE BeginClose
  BY <1>4 DEF BeginClose, Up
<1>5. CASE CloseStep
  BY <1>5 DEF CloseStep, LockClose, CloseQueue, Closed
<1>6. CASE Stat \/ Receive \/ CloseFile \/ Remove \/ Rename \/ Create
  BY <1>6 DEF Stat, Receive, CloseFile, Remove, Rename, Create
<1>7. CASE Write
  BY <1>7 DEF Write
<1>8. CASE ReceiveClosed \/ Sync
  BY <1>8 DEF ReceiveClosed, Sync
<1>9. CASE TakeError
  BY <1>9 DEF TakeError
<1>11. CASE Start
  BY <1>11 DEF Start, Up
<1>12. CASE UNCHANGED vars
  BY <1>12 DEF vars
<1>10. CASE Crash \/ Exit
  BY <1>10 DEF Crash, Exit, Gone
<1> QED
  BY <1>1, <1>2, <1>3, <1>4, <1>5, <1>6, <1>7, <1>8, <1>9, <1>10, <1>11, <1>12
  DEF Next, EmitStep, WriterStep

\* What is stored stays stored.
LEMMA StoredStays ==
  ASSUME Inv, Rotation, [Next]_vars, NEW e, IsStored(e)
  PROVE  IsStored(e)'
<1>1. stored \in Seq(EntrySet)
  BY RetainedTypes
<1>2. CASE stored' = stored
  BY <1>2 DEF IsStored
<1>3. CASE Puts
  <2>1. PICK entry \in EntrySet : stored' = Append(stored, entry)
    BY <1>3, PutKeeps
  <2>2. Len(stored') = Len(stored) + 1 /\ \A i \in 1..Len(stored) : stored'[i] = stored[i]
    BY <1>1, <2>1
  <2>3. Len(stored) \in Nat
    BY <1>1
  <2> QED BY <2>2, <2>3 DEF IsStored
<1> QED BY <1>2, <1>3, FileStep DEF SameFiles, Discards, Renames

\* No accepted event disappears between the queue, the writer and the file.
LEMMA NextTracked ==
  ASSUME Inv, Rotation, Drained, Tracked, [Next]_vars
  PROVE  Tracked'
<1> SUFFICES ASSUME ~ failed', NEW e \in accepted' PROVE Waits(e)' \/ IsStored(e)'
  BY DEF Tracked
<1> USE DEF writerVars, diskVars, Goto, Fail, InHandStates
<1>t. queue \in Seq(Events) /\ stored \in Seq(EntrySet) /\ Len(queue) \in Nat
  BY RetainedTypes DEF Inv, TypeOK
<1>1. ASSUME NEW g \in Emitters, EmitStep(g) PROVE Waits(e)' \/ IsStored(e)'
  <2>1. failed' = failed /\ stored' = stored /\ UNCHANGED <<writer, current>>
    BY <1>1 DEF EmitStep, BeginEmit, CheckOpen, Send
  <2>2. \/ UNCHANGED <<queue, accepted>>
        \/ queue' = Append(queue, emitted') /\ accepted' = accepted \cup {emitted'}
    BY <1>1 DEF EmitStep, BeginEmit, CheckOpen, Send
  <2>3. CASE UNCHANGED <<queue, accepted>>
    BY <2>1, <2>3 DEF Tracked, Waits, IsStored
  <2>4. CASE queue' = Append(queue, emitted') /\ accepted' = accepted \cup {emitted'}
    <3>1. /\ Len(queue') = Len(queue) + 1 /\ queue'[Len(queue) + 1] = emitted'
          /\ \A i \in 1..Len(queue) : queue'[i] = queue[i]
      BY <1>t, <2>4
    <3>2. CASE e = emitted'
      BY <1>t, <3>1, <3>2 DEF Waits
    <3>3. CASE e \in accepted
      BY <1>t, <2>1, <3>1, <3>3 DEF Tracked, Waits, IsStored
    <3> QED BY <2>4, <3>2, <3>3
  <2> QED BY <2>2, <2>3, <2>4
<1>2. CASE BeginClose \/ CloseStep \/ TakeError \/ UNCHANGED vars
  BY <1>2 DEF BeginClose, CloseStep, LockClose, CloseQueue, Closed, TakeError, vars, callVars,
              Tracked, Waits, IsStored
<1>3. CASE Stat \/ ReceiveClosed \/ CloseFile \/ Remove \/ Rename \/ Create \/ Sync
  <2>1. UNCHANGED <<queue, current, stored, accepted>> /\ ~ failed
        /\ (writer \in InHandStates => writer' \in InHandStates)
    BY <1>3 DEF Stat, ReceiveClosed, CloseFile, Remove, Rename, Create, Sync
  <2> QED BY <2>1 DEF Tracked, Waits, IsStored
<1>4. CASE Receive
  <2>1. /\ queue # <<>> /\ current' = Head(queue) /\ queue' = Tail(queue)
        /\ writer' \in InHandStates /\ writer \notin InHandStates
        /\ UNCHANGED <<failed, stored, accepted>>
    BY <1>4 DEF Receive
  <2>2. CASE IsStored(e)
    BY <2>1, <2>2 DEF IsStored
  <2>3. ASSUME NEW i \in 1..Len(queue), queue[i] = e PROVE Waits(e)'
    <3>1. CASE i = 1
      BY <2>1, <2>3, <3>1, <1>t DEF Waits
    <3>2. CASE i # 1
      <4>1. i - 1 \in 1..Len(queue') /\ queue'[i - 1] = queue[i]
        BY <2>1, <2>3, <3>2, <1>t
      <4> QED BY <2>3, <4>1 DEF Waits
    <3> QED BY <3>1, <3>2
  <2> QED BY <2>1, <2>2, <2>3 DEF Tracked, Waits
<1>5. CASE Write
  <2>1. /\ writer = "writing" /\ Put(Length[current]) /\ UNCHANGED <<queue, accepted>> /\ ~ failed
    BY <1>5 DEF Write
  <2>2. CASE e = current
    <3>1. stored' = Append(stored, Entry(current, Length[current]))
      BY <2>1 DEF Put
    <3>2. stored'[Len(stored) + 1] = Entry(current, Length[current])
          /\ Len(stored') = Len(stored) + 1 /\ Len(stored) \in Nat
      BY <1>t, <3>1
    <3> QED BY <2>2, <3>2 DEF IsStored
  <2>3. CASE IsStored(e)
    BY <2>3, StoredStays
  <2>4. CASE \E i \in 1..Len(queue) : queue[i] = e
    BY <2>1, <2>4 DEF Waits
  <2> QED BY <2>1, <2>2, <2>3, <2>4 DEF Tracked, Waits
<1>6. CASE Crash \/ Exit
  BY <1>6 DEF Crash, Exit, Gone
<1>7. CASE Start
  BY <1>7 DEF Start, Up, Drained
<1> QED BY <1>1, <1>2, <1>3, <1>4, <1>5, <1>6, <1>7 DEF Next, WriterStep

PInv == RInv /\ Locking /\ Drained /\ Tracked

LEMMA InitPInv == Init => PInv
<1> SUFFICES ASSUME Init PROVE PInv
  OBVIOUS
<1>1. RInv
  BY InitRInv
<1>2. Locking
  BY DEF Init, Locking, Readers
<1>3. Drained /\ Tracked
  BY DEF Init, Drained, Tracked
<1> QED BY <1>1, <1>2, <1>3 DEF PInv

LEMMA NextPInv == PInv /\ [Next]_vars => PInv'
BY NextRInv, NextLocking, NextDrained, NextTracked DEF PInv, RInv

LEMMA PInvariance == Spec => []PInv
BY InitPInv, NextPInv, PTL DEF Spec

\* When Close returns and nothing failed, every event that this process
\* accepted has been stored whole, whatever emitters were racing with it.
THEOREM CloseCorrect == Spec => []CloseStoresAll
<1>1. PInv => CloseStoresAll
  BY DEF PInv, Drained, Tracked, Waits, IsStored, CloseStoresAll, InHandStates
<1> QED BY <1>1, PInvariance, PTL

(***************************************************************************)
(* The refinement: every step of the log is a step of the journal, or      *)
(* leaves its buffer and what a reader finds alone.                        *)
(***************************************************************************)
Steps ==
  \/ UNCHANGED <<Buffered, Retained>>
  \/ emitted' = emitted + 1 /\ J!Accept(emitted')
  \/ J!Store \/ J!Discard \/ J!Lose

\* The buffer moves with the writer's state, the event in its hand and the queue.
LEMMA BufferIs ==
  /\ writer \in {"exited", "down"} => Buffered = <<>>
  /\ writer \in InHandStates => Buffered = <<current>> \o queue
  /\ writer \in {"stat", "receiving", "syncing"} => Buffered = <<>> \o queue
BY DEF Buffered, InHand, InHandStates

\* Nothing that the journal sees.
LEMMA Stutters ==
  ASSUME UNCHANGED <<Buffered, Retained>>
  PROVE  Steps
BY DEF Steps

LEMMA SameRetained ==
  ASSUME SameFiles
  PROVE  UNCHANGED Retained
<1>1. Entries(live)' = Entries(live) /\ Entries(backup)' = Entries(backup)
  BY FileTypes DEF SameFiles, Entries, EmptyFile
<1> QED BY <1>1 DEF Retained

\* The buffer is lost, and the files stay as they are.
LEMMA Loses ==
  ASSUME UNCHANGED Retained, writer' \in {"exited", "down"}
  PROVE  Steps
<1>1. Buffered' = <<>>
  BY DEF Buffered
<1> QED BY <1>1 DEF Steps, J!Lose

\* A record reaches the file, in part or whole.
LEMMA PutRetained ==
  ASSUME Inv, writer = "writing", UNCHANGED backup, NEW n \in 1..Length[current], Put(n)
  PROVE  /\ Retained' = Append(Retained, J!Entry(current, n))
         /\ Buffered # <<>> /\ Head(Buffered) = current /\ Tail(Buffered) = queue
<1>1. /\ current \in Events /\ live \in Files /\ live # NoFile /\ queue \in Seq(Events)
  BY DEF Inv, QueueTypes, InHandStates, Disk, DiskTypes, Lengths, OpenStates
<1>2. n \in Nat /\ live' = Extended(live, Entry(current, n))
  BY <1>1, LengthType DEF Put
<1>3. live' # NoFile /\ live'.entries = Append(live.entries, Entry(current, n))
  BY <1>1, <1>2, FileTypes DEF Extended
<1>4. Entries(live)' = Append(Entries(live), Entry(current, n)) /\ Entries(backup)' = Entries(backup)
  BY <1>1, <1>3 DEF Entries
<1>5. Entry(current, n) \in EntrySet /\ Entry(current, n) = J!Entry(current, n)
  BY <1>1, <1>2 DEF Entry, J!Entry, EntrySet
<1>6. AppendsLast(<<>>, Entries(backup), Entries(live), Entry(current, n))
  <2>1. <<>> \in Seq(EntrySet)
    OBVIOUS
  <2>2. Entries(backup) \in Seq(EntrySet) /\ Entries(live) \in Seq(EntrySet)
    BY RetainedTypes
  <2> QED BY <1>5, <2>1, <2>2, AppendLast
<1>7. Retained' = Append(Retained, J!Entry(current, n))
  <2>1. Retained' = Entries(backup) \o Append(Entries(live), Entry(current, n))
    BY <1>4 DEF Retained
  <2>2. /\ Entries(backup) \o Append(Entries(live), Entry(current, n)) \in Seq(EntrySet)
        /\ Entries(backup) \o Entries(live) \in Seq(EntrySet)
    BY <1>5, RetainedTypes
  <2>3. /\ <<>> \o (Entries(backup) \o Entries(live)) = Entries(backup) \o Entries(live)
        /\ <<>> \o (Entries(backup) \o Append(Entries(live), Entry(current, n)))
           = Entries(backup) \o Append(Entries(live), Entry(current, n))
    BY <2>2
  <2> QED BY <1>5, <1>6, <2>1, <2>3 DEF Retained, AppendsLast
<1>8. Buffered = <<current>> \o queue
  BY BufferIs DEF InHandStates
<1>9. Buffered # <<>> /\ Head(Buffered) = current /\ Tail(Buffered) = queue
  BY <1>1, <1>8
<1> QED BY <1>7, <1>9

\* The start of a record reaches the file, and the buffer is lost.
LEMMA TornLoses ==
  ASSUME Inv, writer = "writing", Torn, UNCHANGED backup, writer' \in {"exited", "down"}
  PROVE  Steps
<1>1. PICK n \in 1..Length[current] - 1 : Put(n)
  BY DEF Torn
<1>2. current \in Events
  BY DEF Inv, QueueTypes, InHandStates
<1>3. n \in 1..Length[current]
  BY <1>1, <1>2, LengthType
<1>4. /\ Retained' = Append(Retained, J!Entry(current, n))
      /\ Buffered # <<>> /\ Head(Buffered) = current
  BY <1>1, <1>3, PutRetained
<1>5. Buffered' = <<>>
  BY DEF Buffered
<1> QED BY <1>1, <1>4, <1>5 DEF Steps, J!Lose

\* The channel takes an event, or does not.
LEMMA SendSteps ==
  ASSUME PInv, QueueTypes', NEW g \in Emitters, Send(g)
  PROVE  Steps
<1>1. UNCHANGED Retained /\ UNCHANGED <<writer, current>> /\ emitted' = emitted + 1
  BY DEF Send, writerVars, diskVars, Retained
<1>2. CASE writer \in {"exited", "down"} \/ queue' = queue
  BY <1>1, <1>2, Stutters DEF Buffered, InHand
<1>3. CASE writer \notin {"exited", "down"} /\ queue' # queue
  <2>1. queue' = Append(queue, emitted') /\ Len(queue) < QueueCap /\ emitted' \in accepted'
    BY <1>3 DEF Send
  <2>2. emitted' \in Events /\ queue \in Seq(Events) /\ QueueCap \in Nat /\ Len(queue) \in Nat
    BY <2>1, EventLogAssumption DEF QueueTypes, PInv, RInv, Inv
  <2>3. InHand \in Seq(Events) /\ Len(InHand) <= 1 /\ Len(InHand) \in Nat /\ InHand' = InHand
    BY <1>1 DEF InHand, PInv, RInv, Inv, QueueTypes, InHandStates
  <2>4. Buffered = InHand \o queue /\ Buffered' = InHand \o Append(queue, emitted')
    BY <1>1, <1>3, <2>1, <2>3 DEF Buffered
  <2>5. InHand \o Append(queue, emitted') = Append(InHand \o queue, emitted')
    BY <2>2, <2>3
  <2>6. Len(Buffered) < QueueCap + 1
    BY <2>1, <2>2, <2>3, <2>4
  <2> QED BY <1>1, <2>2, <2>4, <2>5, <2>6 DEF Steps, J!Accept
<1> QED BY <1>2, <1>3

\* The writer takes the first event of the queue in its hand.
LEMMA ReceiveSteps ==
  ASSUME PInv, Receive
  PROVE  Steps
<1>1. /\ writer = "receiving" /\ writer' \in InHandStates /\ queue # <<>> /\ UNCHANGED diskVars
      /\ current' = Head(queue) /\ queue' = Tail(queue)
  BY DEF Receive, Goto, InHandStates
<1>2. queue \in Seq(Events)
  BY DEF PInv, RInv, Inv, QueueTypes
<1>3. Buffered' = <<Head(queue)>> \o Tail(queue)
  BY <1>1 DEF Buffered, InHand, InHandStates
<1>4. Buffered = <<>> \o queue
  BY <1>1, BufferIs
<1>5. <<Head(queue)>> \o Tail(queue) = <<>> \o queue
  BY <1>1, <1>2
<1> QED BY <1>1, <1>3, <1>4, <1>5, Stutters DEF diskVars, Retained

\* The backup is discarded, and the full file that a rotation starts with stays.
LEMMA DiscardSteps ==
  ASSUME PInv, Discards, UNCHANGED Buffered
  PROVE  Steps
<1> DEFINE b == Entries(backup)
           l == Entries(live)
<1>1. /\ b \in Seq(EntrySet) /\ l \in Seq(EntrySet) /\ Retained = b \o l
      /\ Len(Retained) = Len(b) + Len(l) /\ Len(b) \in Nat /\ Len(l) \in Nat
  BY RetainedTypes DEF PInv, RInv, Retained
<1>2. Retained' = l
  <2>1. Retained' = <<>> \o l
    BY DEF Discards, Retained, Entries
  <2> QED BY <1>1, <2>1
<1>3. live # NoFile /\ BytesOf(live) >= Floor /\ Floor \in Nat \ {0}
  BY FullBeforeDiscard, FloorIs DEF PInv, RInv, Discards
<1>4. J!Size(l) >= Floor
  BY <1>3 DEF PInv, RInv, Kept, FileSums, Entries, BytesOf
<1>5. l # <<>>
  BY <1>3, <1>4, SizeEmpty
<1>6. Len(b) + 1 \in 1..Len(Retained)
  <2>1. Len(l) # 0
    BY <1>1, <1>5
  <2> QED BY <1>1, <2>1
<1>7. SubSeq(Retained, Len(b) + 1, Len(Retained)) = l
  BY <1>1
<1> QED BY <1>2, <1>4, <1>6, <1>7 DEF Steps, J!Discard

\* Storing, or losing what is buffered with the start of a record in the file.
LEMMA WriteSteps ==
  ASSUME PInv, Write
  PROVE  Steps
<1> USE DEF PInv, RInv
<1>1. writer = "writing" /\ UNCHANGED <<backup, queue>>
  BY DEF Write
<1>2. CASE Put(Length[current]) /\ writer' = "receiving"
  <2>1. current \in Events /\ queue \in Seq(Events)
    BY <1>1 DEF Inv, QueueTypes, InHandStates
  <2>2. Length[current] \in 1..Length[current]
    BY <2>1, LengthType
  <2>3. /\ Retained' = Append(Retained, J!Entry(current, Length[current]))
        /\ Buffered # <<>> /\ Head(Buffered) = current /\ Tail(Buffered) = queue
    BY <1>1, <1>2, <2>2, PutRetained
  <2>4. Buffered' = <<>> \o queue
    BY <1>1, <1>2 DEF Buffered, InHand
  <2>5. <<>> \o queue = queue
    BY <2>1
  <2> QED BY <2>3, <2>4, <2>5 DEF Steps, J!Store
<1>3. CASE Torn /\ writer' = "exited"
  BY <1>1, <1>3, TornLoses
<1>4. CASE UNCHANGED <<live, stored>> /\ writer' = "exited"
  <2>1. UNCHANGED Retained
    BY <1>1, <1>4 DEF Retained
  <2> QED BY <1>4, <2>1, Loses
<1> QED BY <1>2, <1>3, <1>4 DEF Write, Goto, Fail

\* Every step of the log maps to a step of the journal or to none.
LEMMA NextSteps ==
  ASSUME PInv, [Next]_vars
  PROVE  Steps
<1> USE DEF PInv, RInv
<1>1. ASSUME NEW g \in Emitters, BeginEmit(g) \/ CheckOpen(g) PROVE Steps
  <2>1. UNCHANGED <<writer, current, queue, live, backup>>
    BY <1>1 DEF BeginEmit, CheckOpen, writerVars, diskVars
  <2> QED BY <2>1, Stutters DEF Buffered, InHand, Retained
<1>2. ASSUME NEW g \in Emitters, Send(g) PROVE Steps
  <2>1. QueueTypes'
    BY NextInv DEF Inv
  <2> QED BY <1>2, <2>1, SendSteps
<1>3. CASE BeginClose \/ CloseStep \/ TakeError \/ UNCHANGED vars
  <2>1. UNCHANGED <<writer, current, queue, live, backup>>
    BY <1>3 DEF BeginClose, CloseStep, LockClose, CloseQueue, Closed, TakeError, vars,
                writerVars, diskVars
  <2> QED BY <2>1, Stutters DEF Buffered, InHand, Retained
<1>4. CASE Stat \/ ReceiveClosed \/ CloseFile \/ Sync
  <2>1. UNCHANGED <<queue, current>> /\ UNCHANGED Retained
    BY <1>4 DEF Stat, ReceiveClosed, CloseFile, Sync, diskVars, Retained
  <2>2. CASE writer' = "exited"
    BY <2>1, <2>2, Loses
  <2>3. CASE writer' # "exited"
    <3>1. \/ writer \in InHandStates /\ writer' \in InHandStates
          \/ /\ writer \in {"stat", "receiving", "syncing"}
             /\ writer' \in {"stat", "receiving", "syncing"}
      BY <1>4, <2>3 DEF Stat, ReceiveClosed, CloseFile, Sync, Goto, Fail, InHandStates
    <3>2. UNCHANGED Buffered
      BY <2>1, <3>1 DEF Buffered, InHand, InHandStates
    <3> QED BY <2>1, <3>2, Stutters
  <2> QED BY <2>2, <2>3
<1>5. CASE Receive
  BY <1>5, ReceiveSteps
<1>6. CASE Remove
  <2>1. CASE writer' = "exited"
    <3>1. UNCHANGED Retained
      BY <1>6, <2>1 DEF Remove, Goto, Fail, Retained
    <3> QED BY <2>1, <3>1, Loses
  <2>2. CASE Discards /\ writer' = "renaming"
    <3>1. UNCHANGED Buffered
      BY <1>6, <2>2 DEF Remove, Discards, Buffered, InHand
    <3> QED BY <2>2, <3>1, DiscardSteps
  <2> QED BY <1>6, <2>1, <2>2 DEF Remove, Goto, Fail, Discards
<1>7. CASE Rename
  <2>1. CASE writer' = "exited"
    <3>1. UNCHANGED Retained
      BY <1>7, <2>1 DEF Rename, Goto, Fail, Retained
    <3> QED BY <2>1, <3>1, Loses
  <2>2. CASE backup' = live /\ live' = NoFile /\ writer' = "creating"
    <3>1. UNCHANGED Buffered
      BY <1>7, <2>2 DEF Rename, Buffered, InHand
    <3>2. Retained' = Entries(live) \o <<>> /\ Retained = <<>> \o Entries(live)
      BY <1>7, <2>2 DEF Rename, Rotation, Retained, Entries
    <3>3. Entries(live) \o <<>> = <<>> \o Entries(live)
      BY RetainedTypes
    <3> QED BY <3>1, <3>2, <3>3, Stutters
  <2> QED BY <1>7, <2>1, <2>2 DEF Rename, Goto, Fail
<1>8. CASE Create
  <2>1. UNCHANGED Retained
    BY <1>8, SameRetained DEF Create, Rotation, SameFiles
  <2>2. CASE writer' = "exited"
    BY <2>1, <2>2, Loses
  <2>3. CASE writer' = "writing"
    <3>1. UNCHANGED Buffered
      BY <1>8, <2>3 DEF Create, Buffered, InHand
    <3> QED BY <2>1, <3>1, Stutters
  <2> QED BY <1>8, <2>2, <2>3 DEF Create, Goto, Fail
<1>9. CASE Write
  BY <1>9, WriteSteps
<1>10. CASE Crash
  <2>1. writer' = "down" /\ UNCHANGED backup
    BY <1>10 DEF Crash, Gone
  <2>2. CASE writer = "writing" /\ Torn
    BY <2>1, <2>2, TornLoses
  <2>3. CASE UNCHANGED <<live, stored>>
    BY <2>1, <2>3, Loses DEF Retained
  <2> QED BY <1>10, <2>2, <2>3 DEF Crash
<1>11. CASE Exit
  <2>1. writer' = "down" /\ UNCHANGED Retained
    BY <1>11 DEF Exit, Gone, Retained
  <2> QED BY <2>1, Loses
<1>12. CASE Start
  <2>1. /\ writer = "down" /\ writer' = "stat" /\ queue = <<>> /\ queue' = queue
    BY <1>12 DEF Start, Up, Drained
  <2>2. Buffered = <<>> /\ Buffered' = <<>> \o <<>>
    BY <2>1 DEF Buffered, InHand
  <2>3. UNCHANGED Retained
    BY <1>12, SameRetained DEF Start, SameFiles
  <2> QED BY <2>2, <2>3, Stutters
<1> QED
  BY <1>1, <1>2, <1>3, <1>4, <1>5, <1>6, <1>7, <1>8, <1>9, <1>10, <1>11, <1>12
  DEF Next, EmitStep, WriterStep

\* The log implements the journal: whatever interleaves, fails or crashes,
\* events are stored in the order in which they were accepted, only the whole
\* buffer is ever lost, and only the oldest entries are discarded.
THEOREM JournalImplemented == Spec => ImplementsJournal
<1>1. Init => J!JInit
  <2> SUFFICES ASSUME Init PROVE J!JInit
    OBVIOUS
  <2>1. live = EmptyFile /\ backup = NoFile /\ EmptyFile # NoFile
    BY FileTypes DEF Init
  <2>2. Retained = <<>>
    BY <2>1 DEF Retained, Entries, EmptyFile
  <2>3. Buffered = <<>>
    BY DEF Init, Buffered, InHand
  <2> QED BY <2>2, <2>3 DEF J!JInit
<1>2. PInv /\ [Next]_vars => [J!JNext]_(J!jvars)
  <2> SUFFICES ASSUME PInv, [Next]_vars PROVE [J!JNext]_(J!jvars)
    OBVIOUS
  <2>1. emitted \in 0..MaxEvents /\ emitted' \in 0..MaxEvents
    BY NextInv DEF PInv, RInv, Inv, TypeOK
  <2>2. emitted' = emitted + 1 => emitted' \in Events
    BY <2>1 DEF Events
  <2> QED BY <2>2, NextSteps DEF Steps, J!JNext, J!jvars
<1> QED BY <1>1, <1>2, PInvariance, PTL DEF Spec, ImplementsJournal, J!JSpec
=============================================================================
