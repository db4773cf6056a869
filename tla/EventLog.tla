------------------------------ MODULE EventLog ------------------------------
(***************************************************************************)
(* The event log (internal/eventlog/log.go): any number of goroutines in   *)
(* Emit, one in Close, the writer goroutine that stores the queue's events *)
(* and rotates the file, and the life of the process around them: it may   *)
(* be killed at any step, and it is started again on the same files.       *)
(*                                                                         *)
(* An event is the number of its Emit call; only the length of its record  *)
(* matters.  A file is its length and the entries it holds.                *)
(***************************************************************************)
EXTENDS Integers, Sequences, FiniteSets

CONSTANTS
  Emitters,     \* the goroutines that call Emit
  QueueCap,     \* the capacity of the channel (1024 in Open)
  MaxBytes,     \* the limit of a file (10 MiB in main)
  MaxEvents,    \* bound: calls of Emit
  MaxRestarts,  \* bound: starts after the first
  FullLength,   \* the length of an event's record as first encoded
  CutLength,    \* its length with the text cut to 128 bytes
  NoFile        \* the path names no file

\* A record whose text is cut always fits in the smallest limit that Open
\* accepts, 4096 bytes, whatever is escaped in it.
ASSUME EventLogAssumption ==
  /\ IsFiniteSet(Emitters)
  /\ QueueCap \in Nat \ {0} /\ MaxBytes \in Nat \ {0}
  /\ MaxEvents \in Nat \ {0} /\ MaxRestarts \in Nat
  /\ FullLength \in [1..MaxEvents -> Nat \ {0}]
  /\ CutLength \in [1..MaxEvents -> 1..MaxBytes]
  /\ NoFile \notin [bytes : Nat, entries : Seq([event : 1..MaxEvents, bytes : Nat])]

VARIABLES
  emitter,    \* where each goroutine stands in Emit
  closer,     \* where the caller of Close stands
  closed,     \* l.closed
  qClosed,    \* the channel l.queue is closed
  queue,      \* the events in the channel
  failed,     \* l.failed
  errors,     \* how many errors the channel l.errors holds
  dropped,    \* l.dropped
  writer,     \* where the goroutine of run stands
  current,    \* the event it has received
  size,       \* its idea of the file's length
  live,       \* the file at path
  backup,     \* the file at path.1
  emitted,    \* history: how many events were given to the channel's select
  accepted,   \* history: the events this process put in the queue
  stored,     \* history: every entry ever written
  restarts    \* how often the process was started again

callVars == <<emitter, closer, closed, qClosed>>
writerVars == <<writer, current, size>>
diskVars == <<live, backup, stored>>
vars == <<emitter, closer, closed, qClosed, queue, failed, errors, dropped, writer, current,
          size, live, backup, emitted, accepted, stored, restarts>>

Events == 1..MaxEvents

Entry(e, n) == [event |-> e, bytes |-> n]
EmptyFile == [bytes |-> 0, entries |-> <<>>]
Extended(f, entry) ==
  [bytes |-> f.bytes + entry.bytes, entries |-> Append(f.entries, entry)]

\* The length of the record that is written: cut when it exceeds the limit.
Length == [e \in Events |-> IF FullLength[e] > MaxBytes THEN CutLength[e] ELSE FullLength[e]]

Up == writer # "down"
Readers == {g \in Emitters : emitter[g] # "idle"}

Init ==
  /\ emitter = [g \in Emitters |-> "idle"]
  /\ closer = "idle"
  /\ closed = FALSE /\ qClosed = FALSE
  /\ queue = <<>>
  /\ failed = FALSE /\ errors = 0 /\ dropped = 0
  /\ writer = "stat" /\ current = 0 /\ size = 0
  /\ live = EmptyFile /\ backup = NoFile
  /\ emitted = 0 /\ accepted = {} /\ stored = <<>> /\ restarts = 0
-----------------------------------------------------------------------------
(* Emit, under the read lock.  A caller of Close that waits for the lock   *)
(* keeps new readers out.                                                  *)

BeginEmit(g) ==
  /\ Up /\ emitter[g] = "idle"
  /\ closer \notin {"waiting", "locked"}
  /\ emitted + Cardinality(Readers) < MaxEvents
  /\ emitter' = [emitter EXCEPT ![g] = "locked"]
  /\ UNCHANGED <<closer, closed, qClosed, queue, failed, errors, dropped, writerVars, diskVars,
                 emitted, accepted, restarts>>

CheckOpen(g) ==
  /\ emitter[g] = "locked"
  /\ emitter' = [emitter EXCEPT ![g] = IF closed \/ failed THEN "idle" ELSE "sending"]
  /\ UNCHANGED <<closer, closed, qClosed, queue, failed, errors, dropped, writerVars, diskVars,
                 emitted, accepted, restarts>>

\* Mutant: a full queue takes one more.
SendPastCap(g) ==
  /\ emitter[g] = "sending"
  /\ emitter' = [emitter EXCEPT ![g] = "idle"]
  /\ emitted' = emitted + 1
  /\ queue' = IF Len(queue) <= QueueCap THEN Append(queue, emitted') ELSE queue
  /\ accepted' = IF Len(queue) <= QueueCap THEN accepted \cup {emitted'} ELSE accepted
  /\ UNCHANGED <<closer, closed, qClosed, failed, errors, dropped, writerVars, diskVars, restarts>>

\* The select with a default: the event is queued, or counted as dropped.
Send(g) ==
  /\ emitter[g] = "sending"
  /\ emitter' = [emitter EXCEPT ![g] = "idle"]
  /\ emitted' = emitted + 1
  /\ IF Len(queue) < QueueCap
     THEN /\ queue' = Append(queue, emitted')
          /\ accepted' = accepted \cup {emitted'}
          /\ UNCHANGED dropped
     ELSE dropped' = dropped + 1 /\ UNCHANGED <<queue, accepted>>
  /\ UNCHANGED <<closer, closed, qClosed, failed, errors, writerVars, diskVars, restarts>>

(* Close *)

BeginClose ==
  /\ Up /\ closer = "idle"
  /\ closer' = "waiting"
  /\ UNCHANGED <<emitter, closed, qClosed, queue, failed, errors, dropped, writerVars, diskVars,
                 emitted, accepted, restarts>>

\* Mutant: Close does not wait for the emitters that hold the lock.
LockCloseAtOnce ==
  /\ closer = "waiting"
  /\ closer' = "locked"
  /\ UNCHANGED <<emitter, closed, qClosed, queue, failed, errors, dropped, writerVars, diskVars,
                 emitted, accepted, restarts>>

LockClose ==
  /\ closer = "waiting" /\ Readers = {}
  /\ closer' = "locked"
  /\ UNCHANGED <<emitter, closed, qClosed, queue, failed, errors, dropped, writerVars, diskVars,
                 emitted, accepted, restarts>>

\* Mutant: the flag is set, but the channel is not closed.
CloseQueueFlagOnly ==
  /\ closer = "locked"
  /\ closed' = TRUE
  /\ closer' = "draining"
  /\ UNCHANGED <<emitter, qClosed, queue, failed, errors, dropped, writerVars, diskVars,
                 emitted, accepted, restarts>>

CloseQueue ==
  /\ closer = "locked"
  /\ closed' = TRUE /\ qClosed' = TRUE
  /\ closer' = "draining"
  /\ UNCHANGED <<emitter, queue, failed, errors, dropped, writerVars, diskVars,
                 emitted, accepted, restarts>>

Closed ==
  /\ closer = "draining" /\ writer = "exited"
  /\ closer' = "closed"
  /\ UNCHANGED <<emitter, closed, qClosed, queue, failed, errors, dropped, writerVars, diskVars,
                 emitted, accepted, restarts>>
-----------------------------------------------------------------------------
(* run.  Every operation on a file may fail; the writer then ends.         *)

Goto(label) == writer' = label /\ UNCHANGED <<failed, errors>>

\* fail: the channel of errors has one place.
Fail ==
  /\ errors < 1
  /\ failed' = TRUE /\ errors' = errors + 1
  /\ writer' = "exited"

\* Mutant: the writer takes an existing file for an empty one.
StatZero ==
  /\ writer = "stat"
  /\ size' = 0 /\ Goto("receiving")
  /\ UNCHANGED <<callVars, queue, dropped, current, diskVars, emitted, accepted, restarts>>

Stat ==
  /\ writer = "stat"
  /\ \/ size' = live.bytes /\ Goto("receiving")
     \/ UNCHANGED size /\ Fail
  /\ UNCHANGED <<callVars, queue, dropped, current, diskVars, emitted, accepted, restarts>>

Receive ==
  /\ writer = "receiving" /\ queue # <<>>
  /\ current' = Head(queue) /\ queue' = Tail(queue)
  /\ Goto(IF size + Length[current'] > MaxBytes THEN "closing" ELSE "writing")
  /\ UNCHANGED <<callVars, dropped, size, diskVars, emitted, accepted, restarts>>

\* Mutant: the writer stops at once when the channel is closed.
ReceiveClosedEarly ==
  /\ writer = "receiving" /\ qClosed
  /\ Goto("syncing")
  /\ UNCHANGED <<callVars, queue, dropped, current, size, diskVars, emitted, accepted, restarts>>

ReceiveClosed ==
  /\ writer = "receiving" /\ queue = <<>> /\ qClosed
  /\ Goto("syncing")
  /\ UNCHANGED <<callVars, queue, dropped, current, size, diskVars, emitted, accepted, restarts>>

\* Rotation: close the file, remove the backup, rename, create.
CloseFile ==
  /\ writer = "closing"
  /\ Goto("removing") \/ Fail
  /\ UNCHANGED <<callVars, queue, dropped, current, size, diskVars, emitted, accepted, restarts>>

Remove ==
  /\ writer = "removing"
  /\ \/ backup' = NoFile /\ Goto("renaming")
     \/ UNCHANGED backup /\ Fail
  /\ UNCHANGED <<callVars, queue, dropped, current, size, live, stored, emitted, accepted, restarts>>

\* Mutant: the file is copied, and truncated by the step that follows.
RenameCopies ==
  /\ writer = "renaming"
  /\ \/ backup' = live /\ Goto("creating")
     \/ UNCHANGED backup /\ Fail
  /\ UNCHANGED <<callVars, queue, dropped, current, size, live, stored, emitted, accepted, restarts>>

Rename ==
  /\ writer = "renaming"
  /\ \/ backup' = live /\ live' = NoFile /\ Goto("creating")
     \/ UNCHANGED <<live, backup>> /\ Fail
  /\ UNCHANGED <<callVars, queue, dropped, current, size, stored, emitted, accepted, restarts>>

\* Mutants: the length is not reset; the event that caused the rotation is lost.
CreateKeepsSize ==
  /\ writer = "creating"
  /\ live' = EmptyFile /\ Goto("writing")
  /\ UNCHANGED <<callVars, queue, dropped, current, size, backup, stored, emitted, accepted, restarts>>

CreateForgets ==
  /\ writer = "creating"
  /\ live' = EmptyFile /\ size' = 0 /\ current' = 0 /\ Goto("receiving")
  /\ UNCHANGED <<callVars, queue, dropped, backup, stored, emitted, accepted, restarts>>

Create ==
  /\ writer = "creating"
  /\ \/ live' = EmptyFile /\ size' = 0 /\ Goto("writing")
     \/ UNCHANGED <<live, size>> /\ Fail
  /\ UNCHANGED <<callVars, queue, dropped, current, backup, stored, emitted, accepted, restarts>>

\* The first n bytes of the current record reach the file.
Put(n) ==
  /\ live' = Extended(live, Entry(current, n))
  /\ stored' = Append(stored, Entry(current, n))

Torn == \E n \in 1..Length[current] - 1 : Put(n)

\* Mutant: a write error is ignored, and the writer goes on with the next event.
WriteGoesOn ==
  /\ writer = "writing"
  /\ \/ Put(Length[current]) /\ size' = size + Length[current]
     \/ UNCHANGED <<size, live, stored>>
  /\ current' = 0
  /\ Goto("receiving")
  /\ UNCHANGED <<callVars, queue, dropped, backup, emitted, accepted, restarts>>

Write ==
  /\ writer = "writing"
  /\ \/ /\ Put(Length[current]) /\ size' = size + Length[current]
        /\ current' = 0
        /\ Goto("receiving")
     \/ /\ Torn \/ UNCHANGED <<live, stored>>
        /\ UNCHANGED <<size, current>>
        /\ Fail
  /\ UNCHANGED <<callVars, queue, dropped, backup, emitted, accepted, restarts>>

Sync ==
  /\ writer = "syncing"
  /\ Goto("exited") \/ Fail
  /\ UNCHANGED <<callVars, queue, dropped, current, size, diskVars, emitted, accepted, restarts>>

\* Serve receives the error.
TakeError ==
  /\ errors > 0
  /\ errors' = errors - 1
  /\ UNCHANGED <<callVars, queue, failed, dropped, writerVars, diskVars, emitted, accepted, restarts>>
-----------------------------------------------------------------------------
(* The process *)

\* The process is gone: killed at any point, or ended after Close.
Gone ==
  /\ writer' = "down" /\ current' = 0 /\ size' = 0
  /\ emitter' = [g \in Emitters |-> "idle"] /\ closer' = "idle"
  /\ closed' = FALSE /\ qClosed' = FALSE /\ queue' = <<>>
  /\ failed' = FALSE /\ errors' = 0 /\ dropped' = 0
  /\ accepted' = {}
  /\ UNCHANGED <<backup, emitted, restarts>>

Crash ==
  /\ Up /\ Gone
  /\ \/ writer = "writing" /\ Torn
     \/ UNCHANGED <<live, stored>>

Exit ==
  /\ closer = "closed" /\ Gone
  /\ UNCHANGED <<live, stored>>

\* Open creates the file when it is missing, and the writer starts.
Start ==
  /\ ~ Up /\ restarts < MaxRestarts
  /\ restarts' = restarts + 1
  /\ writer' = "stat"
  /\ live' = IF live = NoFile THEN EmptyFile ELSE live
  /\ UNCHANGED <<callVars, queue, failed, errors, dropped, current, size, backup, stored,
                 emitted, accepted>>

EmitStep(g) == BeginEmit(g) \/ CheckOpen(g) \/ Send(g)

CloseStep == LockClose \/ CloseQueue \/ Closed

WriterStep ==
  \/ Stat \/ Receive \/ ReceiveClosed
  \/ CloseFile \/ Remove \/ Rename \/ Create
  \/ Write \/ Sync

Next ==
  \/ \E g \in Emitters : EmitStep(g)
  \/ BeginClose
  \/ CloseStep
  \/ WriterStep
  \/ TakeError
  \/ Crash
  \/ Exit
  \/ Start

Spec == Init /\ [][Next]_vars

\* Goroutines run, and a file operation returns, with or without an error.
\* Nothing obliges a caller to emit, to close, or the process to be restarted.
Fairness ==
  /\ \A g \in Emitters : WF_vars(CheckOpen(g) \/ Send(g))
  /\ WF_vars(CloseStep)
  /\ WF_vars(WriterStep)

FairSpec == Spec /\ Fairness
-----------------------------------------------------------------------------
(* Properties *)

Entries(f) == IF f = NoFile THEN <<>> ELSE f.entries
BytesOf(f) == IF f = NoFile THEN 0 ELSE f.bytes

\* What a reader finds who reads path.1 and then path.
Retained == Entries(backup) \o Entries(live)

Files == [bytes : Nat, entries : Seq([event : Events, bytes : Nat])]

\* The type invariant.
TypeOK ==
  /\ emitter \in [Emitters -> {"idle", "locked", "sending"}]
  /\ closer \in {"idle", "waiting", "locked", "draining", "closed"}
  /\ closed \in BOOLEAN /\ qClosed \in BOOLEAN /\ failed \in BOOLEAN
  /\ queue \in Seq(Events) /\ Len(queue) <= QueueCap
  /\ errors \in 0..1 /\ dropped \in Nat
  /\ writer \in {"stat", "receiving", "closing", "removing", "renaming", "creating", "writing",
                 "syncing", "exited", "down"}
  /\ current \in Events \cup {0} /\ size \in Nat
  /\ live \in Files \cup {NoFile} /\ backup \in Files \cup {NoFile}
  /\ emitted \in 0..MaxEvents /\ accepted \subseteq Events
  /\ stored \in Seq([event : Events, bytes : Nat])
  /\ restarts \in 0..MaxRestarts

\* Close never closes the channel under an Emit that has found it open: a send
\* on a closed channel would end the program.
NoSendOnClosed == \A g \in Emitters : emitter[g] = "sending" => ~ qClosed

\* Neither file ever exceeds the limit, over rotations, torn writes, crashes
\* and restarts: the writer's idea of the length is never below the real one.
FilesBounded == BytesOf(live) <= MaxBytes /\ BytesOf(backup) <= MaxBytes

\* A reader finds the newest entries, each once and in the order in which they
\* were stored, whatever step of a rotation was the last before a crash.
RetainedIsRecent ==
  /\ Len(Retained) <= Len(stored)
  /\ Retained = SubSeq(stored, Len(stored) - Len(Retained) + 1, Len(stored))

\* Entries are only ever discarded when a file's worth of newer ones remains:
\* at least the limit less the longest record.
Longest == CHOOSE n \in {Length[e] : e \in Events} : \A e \in Events : Length[e] <= n
Floor == MaxBytes - Longest + 1

RetainsAFile ==
  Len(Retained) < Len(stored) => BytesOf(backup) + BytesOf(live) >= Floor

\* When Close returns and the log has not failed, every event that this process
\* accepted has been stored whole.
CloseStoresAll ==
  closer = "closed" /\ ~ failed =>
    \A e \in accepted : \E i \in 1..Len(stored) : stored[i] = Entry(e, Length[e])

\* Close returns unless the process is killed first.
CloseReturns == closer = "waiting" ~> closer \in {"closed", "idle"}

\* An accepted event is stored, unless the log fails or the process is killed.
AcceptedIsStored ==
  \A e \in Events :
    e \in accepted ~> \/ failed \/ e \notin accepted
                      \/ \E i \in 1..Len(stored) : stored[i].event = e

\* The log implements the journal: its buffer is the event in the writer's hand
\* and the queue, and is lost when the writer ends or the process is gone.
InHand == IF writer \in {"closing", "removing", "renaming", "creating", "writing"}
          THEN <<current>> ELSE <<>>

Buffered == IF writer \in {"exited", "down"} THEN <<>> ELSE InHand \o queue

J == INSTANCE Journal WITH
       pending <- Buffered,
       kept <- Retained,
       Capacity <- QueueCap + 1

ImplementsJournal == J!JSpec
=============================================================================
