--------------------------- MODULE DashboardProofs ---------------------------
(***************************************************************************)
(* The dashboard beside the log, for any number of connections, slots,     *)
(* events and sessions, any sizes of files, tails and lines, and any       *)
(* interleaving with the log's steps, crashes and restarts: the slots of   *)
(* its listener and handler, the page that a viewer gets, and what a page  *)
(* may leave out.                                                          *)
(*                                                                         *)
(* The pure part comes before the steps: what a scan reads of a file,      *)
(* what the table of sessions holds after a sequence of events, and in     *)
(* which order the log stores events.  Then a Read is followed from step   *)
(* to step beside the log.                                                 *)
(***************************************************************************)
EXTENDS EventLogProofs, Dashboard

OpenConns == {c \in Conns : conn[c] = "open"}

\* A Read is at one of its steps.
Running(r) == "at" \in DOMAIN r /\ r.at \in {"opening", "scanning", "done", "failed"}

ConnTypes ==
  /\ conn \in [Conns -> {"none", "open", "closed"}]
  /\ DOMAIN read = Conns
  /\ read = [c \in Conns |-> read[c]]
  /\ \A c \in Conns : read[c] = NoRead \/ Running(read[c])

SlotInv ==
  /\ ConnTypes
  /\ slots = Cardinality(OpenConns)
  /\ busy = Cardinality(Reads) /\ busy <= HandlerSlots

LEMMA NoReadIs == NoRead.at = "none" /\ "at" \in DOMAIN NoRead /\ Running(NewRead)
BY DEF NoRead, NewRead, Running

LEMMA RunningIs ==
  ASSUME NEW r, Running(r)
  PROVE  r # NoRead
BY NoReadIs DEF Running

LEMMA Finite ==
  ASSUME NEW S \in SUBSET Conns
  PROVE  IsFiniteSet(S) /\ Cardinality(S) \in Nat
BY DashboardAssumption, FS_Subset, FS_CardinalityType

\* A step of one Read.
LEMMA BecomesInv ==
  ASSUME SlotInv, NEW c \in Conns, NEW r, read[c] # NoRead, Running(r), Becomes(c, r)
  PROVE  SlotInv'
<1>1. read' = [read EXCEPT ![c] = r] /\ UNCHANGED <<conn, slots, busy>>
  BY DEF Becomes
<1>2. r # NoRead
  BY RunningIs
<1>3. /\ DOMAIN read' = Conns /\ read' = [d \in Conns |-> read'[d]]
      /\ \A d \in Conns : read'[d] = IF d = c THEN r ELSE read[d]
  BY <1>1 DEF SlotInv, ConnTypes
<1>4. Reads' = Reads
  BY <1>2, <1>3 DEF Reads
<1>5. ConnTypes'
  BY <1>1, <1>3 DEF SlotInv, ConnTypes
<1>6. OpenConns' = OpenConns
  BY <1>1 DEF OpenConns
<1> QED BY <1>1, <1>4, <1>5, <1>6 DEF SlotInv

\* The log's step leaves each Read where it is.
LEMMA LogInv ==
  ASSUME SlotInv, LogStep
  PROVE  SlotInv'
<1>1. read' = [c \in Conns |-> Beside(read[c])] /\ UNCHANGED <<conn, slots, busy>>
  BY DEF LogStep
<1>2. ASSUME NEW r, r = NoRead \/ Running(r)
      PROVE  (Beside(r) = NoRead <=> r = NoRead) /\ (Beside(r) = NoRead \/ Running(Beside(r)))
  <2>1. CASE r = NoRead \/ ~ Renamed
    BY <1>2, <2>1 DEF Beside
  <2>2. CASE ~ (r = NoRead \/ ~ Renamed)
    <3>1. Running(r)
      BY <1>2, <2>2
    <3>2. "at" \in DOMAIN Beside(r) /\ Beside(r).at = r.at
      BY <2>2, <3>1 DEF Beside, Running
    <3>3. Running(Beside(r))
      BY <3>1, <3>2 DEF Running
    <3> QED BY <2>2, <3>3, RunningIs
  <2> QED BY <2>1, <2>2
<1>3. ConnTypes'
  BY <1>1, <1>2 DEF SlotInv, ConnTypes
<1>4. Reads' = Reads /\ OpenConns' = OpenConns
  BY <1>1, <1>2 DEF SlotInv, ConnTypes, Reads, OpenConns
<1> QED BY <1>1, <1>3, <1>4 DEF SlotInv

\* A connection gets a slot, and gives it back once.
LEMMA ConnInv ==
  ASSUME SlotInv, NEW c \in Conns, Accept(c) \/ CloseConn(c)
  PROVE  SlotInv'
<1>1. Cardinality(OpenConns) \in Nat /\ IsFiniteSet(OpenConns) /\ slots = Cardinality(OpenConns)
  BY Finite DEF OpenConns, SlotInv
<1>2. UNCHANGED <<read, busy>>
  BY DEF Accept, CloseConn
<1>3. Reads' = Reads
  BY <1>2 DEF Reads
<1>4. CASE Accept(c)
  <2>1. conn' = [conn EXCEPT ![c] = "open"] /\ slots' = slots + 1 /\ conn[c] = "none"
    BY <1>4 DEF Accept
  <2>2. ConnTypes'
    BY <1>2, <2>1 DEF SlotInv, ConnTypes
  <2>3. OpenConns' = OpenConns \union {c} /\ c \notin OpenConns
    BY <2>1 DEF OpenConns, SlotInv, ConnTypes
  <2>4. slots' = Cardinality(OpenConns')
    BY <1>1, <2>1, <2>3, FS_AddElement
  <2> QED BY <1>2, <1>3, <2>2, <2>4 DEF SlotInv
<1>5. CASE CloseConn(c)
  <2>1. /\ conn' = [conn EXCEPT ![c] = "none"] /\ conn[c] \in {"open", "closed"}
        /\ slots' = IF conn[c] = "closed" THEN slots ELSE slots - 1
    BY <1>5 DEF CloseConn, Release
  <2>2. ConnTypes'
    BY <1>2, <2>1 DEF SlotInv, ConnTypes
  <2>3. OpenConns' = OpenConns \ {c} /\ (c \in OpenConns <=> conn[c] = "open")
    BY <2>1 DEF OpenConns, SlotInv, ConnTypes
  <2>4. slots' = Cardinality(OpenConns')
    BY <1>1, <2>1, <2>3, FS_RemoveElement
  <2> QED BY <1>2, <1>3, <2>2, <2>4 DEF SlotInv
<1> QED BY <1>4, <1>5

\* A handler gets a place, and gives it back.
LEMMA HandlerInv ==
  ASSUME SlotInv, NEW c \in Conns, Request(c) \/ Respond(c)
  PROVE  SlotInv'
<1>1. Cardinality(Reads) \in Nat /\ IsFiniteSet(Reads) /\ busy = Cardinality(Reads)
      /\ HandlerSlots \in Nat /\ busy <= HandlerSlots
  BY Finite, DashboardAssumption DEF Reads, SlotInv
<1>2. UNCHANGED <<conn, slots>>
  BY DEF Request, Respond
<1>3. OpenConns' = OpenConns
  BY <1>2 DEF OpenConns
<1>4. CASE Request(c)
  <2>1. /\ read[c] = NoRead /\ busy < HandlerSlots
        /\ busy' = busy + 1 /\ read' = [read EXCEPT ![c] = NewRead]
    BY <1>4 DEF Request
  <2>2. Running(NewRead) /\ NewRead # NoRead
    BY NoReadIs, RunningIs
  <2>3. ConnTypes'
    BY <1>2, <2>1, <2>2 DEF SlotInv, ConnTypes
  <2>4. Reads' = Reads \union {c} /\ c \notin Reads
    BY <2>1, <2>2 DEF Reads, SlotInv, ConnTypes
  <2>5. busy' = Cardinality(Reads')
    BY <1>1, <2>1, <2>4, FS_AddElement
  <2>6. busy' <= HandlerSlots
    BY <1>1, <2>1
  <2> QED BY <1>2, <1>3, <2>3, <2>5, <2>6 DEF SlotInv
<1>5. CASE Respond(c)
  <2>1. read[c] # NoRead /\ busy' = busy - 1 /\ read' = [read EXCEPT ![c] = NoRead]
    BY <1>5 DEF Respond
  <2>2. ConnTypes'
    BY <1>2, <2>1 DEF SlotInv, ConnTypes
  <2>3. Reads' = Reads \ {c} /\ c \in Reads
    BY <2>1 DEF Reads, SlotInv, ConnTypes
  <2>4. busy' = Cardinality(Reads')
    BY <1>1, <2>1, <2>3, FS_RemoveElement
  <2>5. busy' <= HandlerSlots
    BY <1>1, <2>1
  <2> QED BY <1>2, <1>3, <2>2, <2>4, <2>5 DEF SlotInv
<1> QED BY <1>4, <1>5

LEMMA OpenNameInv ==
  ASSUME SlotInv, NEW c \in Conns, OpenName(c)
  PROVE  SlotInv'
<1> DEFINE r == Begun(read[c])
           f == Named(Name(r.name))
           start == IF BytesOf(f) > TailBytes THEN BytesOf(f) - TailBytes ELSE 0
           grows == Name(r.name) = "path"
<1>1. read[c] # NoRead /\ Running(read[c]) /\ read[c].at = "opening"
  BY DEF OpenName, SlotInv, ConnTypes
<1>2. "at" \in DOMAIN r
  BY <1>1 DEF Running, Begun
<1>3. PICK s : Becomes(c, s) /\ Running(s)
  <2> HIDE DEF r, start, grows
  <2>1. CASE Becomes(c, NextName(r))
    <3>1. Running(NextName(r))
      BY <1>2 DEF NextName, Running
    <3> QED BY <2>1, <3>1
  <2>2. CASE ReadFails(c)
    <3>1. Running([NewRead EXCEPT !.at = "failed"])
      BY NoReadIs DEF Running, NewRead
    <3> QED BY <2>2, <3>1 DEF ReadFails
  <2>3. ASSUME NEW h,
               Becomes(c, [r EXCEPT !.at = "scanning", !.start = start, !.grows = grows,
                                    !.held = h, !.sampled = @ \/ start > 0])
        PROVE  \E s : Becomes(c, s) /\ Running(s)
    <3>1. Running([r EXCEPT !.at = "scanning", !.start = start, !.grows = grows,
                            !.held = h, !.sampled = @ \/ start > 0])
      BY <1>2 DEF Running
    <3> QED BY <2>3, <3>1
  <2> QED BY <2>1, <2>2, <2>3 DEF OpenName, r, start, grows
<1> QED BY <1>1, <1>3, BecomesInv

LEMMA ScanInv ==
  ASSUME SlotInv, NEW c \in Conns, Scan(c)
  PROVE  SlotInv'
<1>1. read[c] # NoRead /\ Running(read[c])
  BY DEF Scan, SlotInv, ConnTypes
<1>2. PICK s : Becomes(c, s) /\ Running(s)
  <2>1. CASE ReadFails(c)
    <3>1. Running([NewRead EXCEPT !.at = "failed"])
      BY NoReadIs DEF Running, NewRead
    <3> QED BY <2>1, <3>1 DEF ReadFails
  <2>2. ASSUME NEW x, NEW i, NEW t,
               Becomes(c, NextName([read[c] EXCEPT !.seen = x, !.invalid = i, !.torn = t]))
        PROVE  \E s : Becomes(c, s) /\ Running(s)
    <3>1. "at" \in DOMAIN [read[c] EXCEPT !.seen = x, !.invalid = i, !.torn = t]
      BY <1>1 DEF Running
    <3>2. Running(NextName([read[c] EXCEPT !.seen = x, !.invalid = i, !.torn = t]))
      BY <3>1 DEF NextName, Running
    <3> QED BY <2>2, <3>2
  <2> QED BY <2>1, <2>2 DEF Scan
<1> QED BY <1>1, <1>2, BecomesInv

\* The server stops, and the process ends.
LEMMA StopInv ==
  ASSUME SlotInv, StopServing \/ ServeReturns
  PROVE  SlotInv'
<1>1. Cardinality({}) = 0
  BY FS_EmptySet
<1>2. CASE StopServing
  <2>1. /\ conn' = [c \in Conns |-> IF conn[c] = "open" THEN "closed" ELSE conn[c]]
        /\ slots' = slots - Cardinality(OpenConns) /\ UNCHANGED <<busy, read>>
    BY <1>2 DEF StopServing, OpenConns
  <2>2. OpenConns' = {}
    BY <2>1 DEF OpenConns
  <2>3. slots' = 0
    BY <2>1, Finite DEF SlotInv, OpenConns
  <2>4. ConnTypes' /\ Reads' = Reads
    BY <2>1 DEF SlotInv, ConnTypes, Reads
  <2> QED BY <1>1, <2>1, <2>2, <2>3, <2>4 DEF SlotInv
<1>3. CASE ServeReturns
  <2>1. /\ conn' = [c \in Conns |-> "none"] /\ slots' = 0
        /\ read' = [c \in Conns |-> NoRead] /\ busy' = 0
    BY <1>3 DEF ServeReturns
  <2>2. OpenConns' = {} /\ Reads' = {}
    BY <2>1 DEF OpenConns, Reads
  <2>3. ConnTypes'
    BY <2>1 DEF ConnTypes
  <2> QED BY <1>1, <2>1, <2>2, <2>3, DashboardAssumption DEF SlotInv
<1> QED BY <1>2, <1>3

LEMMA NextSlots ==
  ASSUME SlotInv, [DashNext]_allVars
  PROVE  SlotInv'
<1>1. CASE UNCHANGED allVars
  BY <1>1 DEF allVars, viewVars, SlotInv, ConnTypes, OpenConns, Reads
<1>2. CASE DashNext
  BY <1>2, LogInv, ConnInv, HandlerInv, OpenNameInv, ScanInv, StopInv DEF DashNext, ViewerStep
<1> QED BY <1>1, <1>2

LEMMA InitSlots == DashInit => SlotInv
<1> SUFFICES ASSUME DashInit PROVE SlotInv
  OBVIOUS
<1>1. /\ conn = [c \in Conns |-> "none"] /\ slots = 0 /\ busy = 0
      /\ read = [c \in Conns |-> NoRead]
  BY DEF DashInit
<1>2. ConnTypes /\ OpenConns = {} /\ Reads = {}
  BY <1>1 DEF ConnTypes, OpenConns, Reads
<1> QED BY <1>1, <1>2, FS_EmptySet, DashboardAssumption DEF SlotInv

\* limitedListener holds one slot for each open connection and Handler one for
\* each Read, for any number of them.
THEOREM SlotsCorrect == DashSpec => []SlotsExact
<1>1. SlotInv => SlotsExact
  BY DEF SlotInv, SlotsExact, OpenConns
<1> QED BY <1>1, InitSlots, NextSlots, PTL DEF DashSpec
------------------------------------------------------------------------------
(***************************************************************************)
(* Offsets.  A file is good when every entry has some bytes of its record  *)
(* and the entries are of ever later events.                               *)
(***************************************************************************)
Good(entries) ==
  /\ entries \in Seq(EntrySet)
  /\ \A i \in 1..Len(entries) : entries[i].bytes \in 1..Length[entries[i].event]
  /\ \A i, j \in 1..Len(entries) : i < j => entries[i].event < entries[j].event

LEMMA EntryIs ==
  ASSUME NEW s \in Seq(EntrySet), NEW i \in 1..Len(s)
  PROVE  s[i] \in EntrySet /\ s[i].event \in Events /\ s[i].bytes \in Nat
<1>1. s[i] \in EntrySet
  OBVIOUS
<1> QED BY <1>1 DEF EntrySet

\* Offset is a sum.
LEMMA OffsetIs ==
  ASSUME NEW s \in Seq(EntrySet)
  PROVE  /\ Offset(s, 0) = 0
         /\ \A i \in 0..Len(s) : Offset(s, i) \in Nat
         /\ \A i \in 1..Len(s) : Offset(s, i) = Offset(s, i - 1) + s[i].bytes
<1> DEFINE F == CHOOSE end : end = [n \in 0..Len(s) |-> IF n = 0 THEN 0 ELSE end[n - 1] + s[n].bytes]
<1>1. PICK f : f \in Sums(s, Len(s))
  BY SumsExist
<1>2. f = [n \in 0..Len(s) |-> IF n = 0 THEN 0 ELSE f[n - 1] + s[n].bytes]
  BY <1>1 DEF Sums
<1>3. F = [n \in 0..Len(s) |-> IF n = 0 THEN 0 ELSE F[n - 1] + s[n].bytes]
  BY <1>2
<1>4. \A i : Offset(s, i) = F[i]
  BY DEF Offset
<1> HIDE DEF F
<1>5. \A i \in 1..Len(s) : F[i] = F[i - 1] + s[i].bytes
  BY <1>3
<1>6. F[0] = 0
  BY <1>3
<1> DEFINE T == {i \in 0..Len(s) : F[i] \in Nat}
<1>7. T \in SUBSET (0..Len(s)) /\ 0 \in T
  BY <1>6
<1>8. ASSUME NEW i \in T, i < Len(s) PROVE i + 1 \in T
  <2>0. Len(s) \in Nat /\ i \in 0..Len(s) /\ F[i] \in Nat
    BY <1>8
  <2>1. i + 1 \in 1..Len(s) /\ (i + 1) - 1 = i
    BY <1>8, <2>0
  <2>2. s[i + 1].bytes \in Nat
    BY <2>1, EntryIs
  <2>3. F[i + 1] = F[i] + s[i + 1].bytes
    BY <1>5, <2>1
  <2> QED BY <2>0, <2>1, <2>2, <2>3
<1>9. T = 0..Len(s)
  <2> HIDE DEF T
  <2> QED BY <1>7, <1>8, IntervalInduction
<1>10. \A i \in 0..Len(s) : F[i] \in Nat
  BY <1>9
<1> QED BY <1>4, <1>5, <1>6, <1>10

\* Later entries end later.
LEMMA OffsetGrows ==
  ASSUME NEW s, Good(s), NEW i \in 0..Len(s), NEW j \in 0..Len(s), i < j
  PROVE  Offset(s, i) < Offset(s, j)
<1>s. s \in Seq(EntrySet) /\ Len(s) \in Nat
  BY DEF Good
<1> DEFINE m == Len(s) - (i + 1)
           T == {k \in 0..m : Offset(s, i) < Offset(s, i + 1 + k)}
<1>1. \A k \in 1..Len(s) : Offset(s, k) = Offset(s, k - 1) + s[k].bytes /\ s[k].bytes \in Nat \ {0}
  <2>1. ASSUME NEW k \in 1..Len(s) PROVE s[k].bytes \in Nat \ {0}
    <3>1. s[k].bytes \in 1..Length[s[k].event] /\ s[k] \in EntrySet
      BY <1>s DEF Good
    <3>2. Length[s[k].event] \in Nat
      BY <3>1, LengthType DEF EntrySet
    <3> QED BY <3>1, <3>2
  <2> QED BY <1>s, <2>1, OffsetIs
<1>2. \A k \in 0..Len(s) : Offset(s, k) \in Nat
  BY <1>s, OffsetIs
<1>3. m \in Nat /\ T \in SUBSET (0..m)
  BY <1>s
<1>4. 0 \in T
  <2>1. i + 1 \in 1..Len(s) /\ (i + 1) - 1 = i
    BY <1>s
  <2>2. Offset(s, i + 1) = Offset(s, i) + s[i + 1].bytes /\ s[i + 1].bytes \in Nat \ {0}
    BY <1>1, <2>1
  <2> QED BY <1>2, <1>3, <2>1, <2>2
<1>5. ASSUME NEW k \in T, k < m PROVE k + 1 \in T
  <2>1. /\ i + 1 + (k + 1) \in 1..Len(s) /\ (i + 1 + (k + 1)) - 1 = i + 1 + k
        /\ i + 1 + k \in 0..Len(s)
    BY <1>s, <1>5
  <2> DEFINE x == i + 1 + (k + 1)
  <2>2. Offset(s, x) = Offset(s, i + 1 + k) + s[x].bytes /\ s[x].bytes \in Nat \ {0}
    BY <1>1, <2>1
  <2>3. Offset(s, i) \in Nat /\ Offset(s, i + 1 + k) \in Nat /\ Offset(s, i) < Offset(s, i + 1 + k)
    BY <1>2, <1>5, <2>1
  <2>4. k + 1 \in 0..m
    BY <1>3, <1>5
  <2> QED BY <2>2, <2>3, <2>4
<1>6. T = 0..m
  <2> HIDE DEF T, m
  <2> QED BY <1>3, <1>4, <1>5, IntervalInduction
<1>7. j - (i + 1) \in 0..m /\ i + 1 + (j - (i + 1)) = j
  BY <1>s
<1>8. j - (i + 1) \in T
  <2> HIDE DEF T
  <2> QED BY <1>6, <1>7
<1> QED BY <1>7, <1>8

\* More entries leave the ends of the others where they are.
LEMMA OffsetAppend ==
  ASSUME NEW s \in Seq(EntrySet), NEW e \in EntrySet
  PROVE  /\ \A i \in 0..Len(s) : Offset(Append(s, e), i) = Offset(s, i)
         /\ Offset(Append(s, e), Len(s) + 1) = Offset(s, Len(s)) + e.bytes
<1> DEFINE t == Append(s, e)
           n == Len(s)
<1>1. t \in Seq(EntrySet) /\ Len(t) = n + 1 /\ t[n + 1] = e /\ \A i \in 1..n : t[i] = s[i]
  OBVIOUS
<1> HIDE DEF t
<1>n. n \in Nat
  OBVIOUS
<1> DEFINE T == {i \in 0..n : Offset(t, i) = Offset(s, i)}
<1>2. T \in SUBSET (0..n) /\ 0 \in T
  BY <1>1, <1>n, OffsetIs
<1>3. ASSUME NEW i \in T, i < n PROVE i + 1 \in T
  <2>1. i + 1 \in 1..Len(s) /\ i + 1 \in 1..Len(t) /\ (i + 1) - 1 = i /\ i + 1 \in 0..n
    BY <1>1, <1>3
  <2>2. Offset(s, i + 1) = Offset(s, i) + s[i + 1].bytes
    BY <2>1, OffsetIs
  <2>3. Offset(t, i + 1) = Offset(t, i) + t[i + 1].bytes
    BY <1>1, <2>1, OffsetIs
  <2> QED BY <1>1, <1>3, <2>1, <2>2, <2>3
<1>4. T = 0..n
  <2> HIDE DEF T, n
  <2> QED BY <1>n, <1>2, <1>3, IntervalInduction
<1>5. n \in T
  <2> HIDE DEF T
  <2> QED BY <1>4, <1>n
<1>6. Offset(t, n + 1) = Offset(t, n) + e.bytes
  <2>1. n + 1 \in 1..Len(t) /\ (n + 1) - 1 = n
    BY <1>1, <1>n
  <2> QED BY <1>1, <2>1, OffsetIs
<1>7. \A i \in 0..n : Offset(t, i) = Offset(s, i)
  BY <1>4
<1> QED BY <1>5, <1>6, <1>7 DEF t

(***************************************************************************)
(* Lines.                                                                  *)
(***************************************************************************)
\* A line starts where a whole entry, or nothing, ends; and there is an entry
\* behind it.
LEMMA StartIs ==
  ASSUME NEW s, Good(s), NEW a \in Nat, NEW b \in Nat, b <= Offset(s, Len(s)),
         NEW x \in LineStarts(s, a, b)
  PROVE  \E j \in 0..Len(s) - 1 : x = Offset(s, j) /\ x < b
<1>s. s \in Seq(EntrySet) /\ Len(s) \in Nat /\ DOMAIN s = 1..Len(s)
  BY DEF Good
<1>1. PICK j \in 0..Len(s) : x = Offset(s, j) /\ x <= b /\ x # b
  <2>1. CASE x = 0
    BY <1>s, <2>1, OffsetIs DEF LineStarts
  <2>2. CASE x # 0
    <3>1. x \in Breaks(s, a, b) /\ x # b
      BY <2>2 DEF LineStarts
    <3> QED BY <1>s, <3>1 DEF Breaks
  <2> QED BY <2>1, <2>2
<1>2. x \in Nat /\ x < b
  BY <1>s, <1>1, OffsetIs
<1>3. Offset(s, Len(s)) \in Nat
  BY <1>s, OffsetIs
<1>4. j # Len(s)
  BY <1>1, <1>2, <1>3
<1>5. j \in 0..Len(s) - 1
  <2>1. j \in 0..Len(s) /\ Len(s) \in Nat
    BY <1>s, <1>1
  <2> QED BY <1>4, <2>1
<1> QED BY <1>1, <1>2, <1>5

\* The line that starts before a whole entry is its record.
LEMMA WholeParsed ==
  ASSUME NEW s, Good(s), NEW a \in Nat, NEW b \in Nat,
         NEW j \in 0..Len(s) - 1, Offset(s, j) \in LineStarts(s, a, b),
         IsWhole(s[j + 1]), Offset(s, j + 1) <= b
  PROVE  j + 1 \in Parsed(s, a, b)
<1>s. s \in Seq(EntrySet) /\ Len(s) \in Nat /\ DOMAIN s = 1..Len(s)
  BY DEF Good
<1>j. j \in 0..Len(s) /\ j + 1 \in 1..Len(s) /\ (j + 1) - 1 = j /\ j + 1 \in 0..Len(s)
  BY <1>s
<1> DEFINE x == Offset(s, j)
           y == Offset(s, j + 1)
<1>1. x \in Nat /\ y \in Nat /\ x < y /\ y = x + s[j + 1].bytes
  BY <1>s, <1>j, OffsetIs, OffsetGrows
<1>2. y \in Breaks(s, x, b)
  BY <1>s, <1>j, <1>1 DEF Breaks
<1>3. ASSUME NEW n \in Breaks(s, x, b) PROVE n \in Nat /\ y <= n /\ n <= b
  <2>1. PICK k \in 1..Len(s) : n = Offset(s, k) /\ x < n /\ n <= b
    BY <1>s DEF Breaks
  <2>2. k \in 0..Len(s) /\ n \in Nat
    BY <1>s, <2>1, OffsetIs
  <2>3. CASE k = j + 1
    BY <2>1, <2>2, <2>3
  <2>4. CASE k > j + 1
    <3>1. y < n
      BY <1>j, <2>1, <2>2, <2>4, OffsetGrows
    <3> QED BY <1>1, <2>1, <2>2, <3>1
  <2>5. CASE k = j
    BY <1>1, <2>1, <2>5
  <2>6. CASE k < j
    <3>1. n < x
      BY <1>j, <2>1, <2>2, <2>6, OffsetGrows
    <3> QED BY <1>1, <2>1, <2>2, <3>1
  <2> QED BY <1>j, <2>2, <2>3, <2>4, <2>5, <2>6
<1>4. LineEnd(s, x, b) = y
  <2> DEFINE B == Breaks(s, x, b)
  <2> HIDE DEF B
  <2>1. y \in B /\ \A n \in B : n \in Nat /\ y <= n /\ n <= b
    BY <1>2, <1>3 DEF B
  <2>2. y \in {b} \cup B /\ \A n \in B : y <= n
    BY <2>1
  <2> DEFINE e == CHOOSE e \in {b} \cup B : \A n \in B : e <= n
  <2>3. e \in {b} \cup B /\ \A n \in B : e <= n
    BY <2>2
  <2>4. e = LineEnd(s, x, b)
    BY DEF LineEnd, B
  <2> HIDE DEF e
  <2>5. e <= y /\ e \in Nat /\ y <= e
    BY <1>1, <2>1, <2>3
  <2> QED BY <1>1, <2>4, <2>5
<1>5. s[j + 1].bytes = Length[s[j + 1].event] /\ s[j + 1].bytes \in Nat
  BY <1>s, <1>j, EntryIs DEF IsWhole
<1>6. IsRecord(s, j + 1, x, LineEnd(s, x, b))
  BY SMTT(30), <1>1, <1>4, <1>5, <1>j DEF IsRecord
<1> QED BY <1>s, <1>j, <1>6 DEF Parsed

\* An entry that follows no torn one, and that is whole, parses when the file is
\* read from its beginning past its end.
LEMMA ApartParsed ==
  ASSUME NEW s, Good(s), NEW b \in Nat,
         NEW i \in 1..Len(s), IsWhole(s[i]), i > 1 => IsWhole(s[i - 1]), Offset(s, i) <= b
  PROVE  i \in Parsed(s, 0, b)
<1>s. s \in Seq(EntrySet) /\ Len(s) \in Nat /\ DOMAIN s = 1..Len(s)
  BY DEF Good
<1>i. i - 1 \in 0..Len(s) - 1 /\ i - 1 \in 0..Len(s) /\ i \in 0..Len(s) /\ (i - 1) + 1 = i
  BY <1>s
<1>1. /\ Offset(s, i - 1) \in Nat /\ Offset(s, i) \in Nat /\ Offset(s, i - 1) < Offset(s, i)
      /\ Offset(s, 0) = 0
  BY <1>s, <1>i, OffsetIs, OffsetGrows
<1>2. Offset(s, i - 1) \in LineStarts(s, 0, b)
  <2>1. CASE i = 1
    BY <1>1, <2>1 DEF LineStarts
  <2>2. CASE i # 1
    <3>1. i - 1 \in 1..Len(s) /\ IsWhole(s[i - 1])
      BY <1>s, <2>2
    <3>2. Offset(s, 0) < Offset(s, i - 1)
      BY <1>i, <3>1, OffsetGrows
    <3>3. Offset(s, i - 1) \in Breaks(s, 0, b)
      BY <1>s, <1>1, <3>1, <3>2 DEF Breaks
    <3> QED BY <1>1, <3>3 DEF LineStarts
  <2> QED BY <2>1, <2>2
<1> QED BY <1>i, <1>2, WholeParsed

\* The entries that are not whole, and the one that the window cuts.
Broken(s) == {i \in 1..Len(s) : ~ IsWhole(s[i])}
CutAt(s, b) == b < Offset(s, Len(s)) /\ \A i \in 1..Len(s) : Offset(s, i) # b

\* Each line that does not parse starts at a broken entry or at the one that is cut.
LEMMA InvalidBlamed ==
  ASSUME NEW s, Good(s), NEW a \in Nat, NEW b \in Nat, b <= Offset(s, Len(s))
  PROVE  /\ InvalidLines(s, a, b) \in Int
         /\ Cardinality(Broken(s)) \in Nat
         /\ InvalidLines(s, a, b) <= Cardinality(Broken(s)) + (IF CutAt(s, b) THEN 1 ELSE 0)
<1>s. s \in Seq(EntrySet) /\ Len(s) \in Nat /\ DOMAIN s = 1..Len(s)
  BY DEF Good
<1> DEFINE L == LineStarts(s, a, b)
           P == Parsed(s, a, b)
           B == Broken(s)
           C == IF CutAt(s, b) THEN {0} ELSE {}
           At(x) == CHOOSE j \in 0..Len(s) - 1 : x = Offset(s, j)
           h == [x \in L |-> IF At(x) + 1 \in P \cup B THEN At(x) + 1 ELSE 0]
<1>1. ASSUME NEW x \in L
      PROVE  At(x) \in 0..Len(s) - 1 /\ x = Offset(s, At(x)) /\ x < b
  BY StartIs
<1>2. P \in SUBSET (1..Len(s)) /\ B \in SUBSET (1..Len(s))
  BY <1>s DEF Parsed, Broken
<1>3. IsFiniteSet(1..Len(s)) /\ IsFiniteSet(C) /\ Cardinality(C) = IF CutAt(s, b) THEN 1 ELSE 0
  <2>1. IsFiniteSet(1..Len(s))
    BY <1>s, FS_Interval
  <2>2. IsFiniteSet({}) /\ Cardinality({}) = 0 /\ IsFiniteSet({0}) /\ Cardinality({0}) = 1
    BY FS_EmptySet, FS_Singleton
  <2> QED BY <2>1, <2>2
<1>4. /\ IsFiniteSet(P) /\ IsFiniteSet(B)
      /\ Cardinality(P) \in Nat /\ Cardinality(B) \in Nat
  BY <1>2, <1>3, FS_Subset, FS_CardinalityType
<1> HIDE DEF P, B, C, L
\* A line that does not parse, at an entry that is not broken, is cut.
<1>5. ASSUME NEW x \in L, At(x) + 1 \notin P \cup B
      PROVE  CutAt(s, b) /\ b < Offset(s, At(x) + 1)
  <2> DEFINE j == At(x)
  <2>1. j \in 0..Len(s) - 1 /\ x = Offset(s, j) /\ x < b
    BY <1>1
  <2> HIDE DEF j
  <2>j. j \in 0..Len(s) /\ j + 1 \in 1..Len(s) /\ j + 1 \in 0..Len(s)
    BY <1>s, <2>1
  <2>2. IsWhole(s[j + 1])
    BY <1>5, <2>j DEF B, Broken, j
  <2>3. Offset(s, j + 1) \in Nat
    BY <1>s, <2>j, OffsetIs
  <2>4. b < Offset(s, j + 1)
    <3> SUFFICES ASSUME Offset(s, j + 1) <= b PROVE FALSE
      BY <2>3
    <3>1. j + 1 \in P
      BY <2>1, <2>2, WholeParsed DEF P, L
    <3> QED BY <1>5, <3>1 DEF j
  <2>5. ASSUME NEW i \in 1..Len(s) PROVE Offset(s, i) # b
    <3>1. i \in 0..Len(s) /\ Offset(s, i) \in Nat
      BY <1>s, OffsetIs
    <3>2. CASE i <= j
      <4>1. x \in Nat
        BY <1>s, <2>1, <2>j, OffsetIs
      <4>2. i = j \/ i < j
        BY <2>j, <3>2
      <4>3. Offset(s, i) <= x
        <5>1. CASE i = j
          BY <2>1, <4>1, <5>1
        <5>2. CASE i < j
          BY <2>1, <2>j, <3>1, <4>1, <5>2, OffsetGrows
        <5> QED BY <4>2, <5>1, <5>2
      <4> QED BY <2>1, <3>1, <4>1, <4>3
    <3>3. CASE i > j
      <4>1. Offset(s, j + 1) <= Offset(s, i)
        <5>1. CASE i = j + 1
          BY <3>1, <5>1
        <5>2. CASE i # j + 1
          <6>1. j + 1 < i
            BY <2>j, <3>1, <3>3, <5>2
          <6> QED BY <2>j, <2>3, <3>1, <6>1, OffsetGrows
        <5> QED BY <5>1, <5>2
      <4> QED BY <2>3, <2>4, <3>1, <4>1
    <3> QED BY <2>j, <3>1, <3>2, <3>3
  <2>6. b < Offset(s, Len(s))
    <3>1. Offset(s, Len(s)) \in Nat /\ Len(s) \in 0..Len(s)
      BY <1>s, OffsetIs
    <3>2. Offset(s, Len(s)) # b
      <4>1. Len(s) \in 1..Len(s)
        BY <1>s, <2>j
      <4> QED BY <2>5, <4>1
    <3> QED BY <3>1, <3>2
  <2> QED BY <2>4, <2>5, <2>6 DEF CutAt, j
<1>6. h \in [L -> (P \cup B) \cup C]
  BY <1>5 DEF C
<1>7. ASSUME NEW x \in L, NEW y \in L, h[x] = h[y] PROVE x = y
  <2>1. /\ At(x) \in 0..Len(s) - 1 /\ x = Offset(s, At(x)) /\ x < b
        /\ At(y) \in 0..Len(s) - 1 /\ y = Offset(s, At(y)) /\ y < b
    BY <1>1
  <2> HIDE DEF At
  <2>2. CASE At(x) + 1 \in P \cup B /\ At(y) + 1 \in P \cup B
    BY <1>7, <2>1, <2>2
  <2>3. CASE At(x) + 1 \notin P \cup B /\ At(y) + 1 \notin P \cup B
    <3>1. b < Offset(s, At(x) + 1) /\ b < Offset(s, At(y) + 1)
      BY <1>5, <2>3
    <3>2. /\ At(x) \in 0..Len(s) /\ At(x) + 1 \in 0..Len(s)
          /\ At(y) \in 0..Len(s) /\ At(y) + 1 \in 0..Len(s)
      BY <1>s, <2>1
    <3>3. /\ Offset(s, At(x)) \in Nat /\ Offset(s, At(x) + 1) \in Nat
          /\ Offset(s, At(y)) \in Nat /\ Offset(s, At(y) + 1) \in Nat
      BY <1>s, <3>2, OffsetIs
    <3>4. CASE At(x) < At(y)
      <4>1. At(x) + 1 = At(y) \/ Offset(s, At(x) + 1) < Offset(s, At(y))
        BY <3>2, <3>4, OffsetGrows
      <4> QED BY <2>1, <3>1, <3>3, <4>1
    <3>5. CASE At(y) < At(x)
      <4>1. At(y) + 1 = At(x) \/ Offset(s, At(y) + 1) < Offset(s, At(x))
        BY <3>2, <3>5, OffsetGrows
      <4> QED BY <2>1, <3>1, <3>3, <4>1
    <3> QED BY <2>1, <3>2, <3>4, <3>5
  <2>4. CASE (At(x) + 1 \in P \cup B) # (At(y) + 1 \in P \cup B)
    BY <1>7, <2>1, <2>4
  <2> QED BY <2>2, <2>3, <2>4
<1>8. h \in Injection(L, (P \cup B) \cup C)
  <2> HIDE DEF h
  <2> QED BY <1>6, <1>7 DEF Injection, IsInjective
<1>9. /\ IsFiniteSet((P \cup B) \cup C)
      /\ Cardinality((P \cup B) \cup C) <= Cardinality(P) + Cardinality(B) + Cardinality(C)
      /\ Cardinality((P \cup B) \cup C) \in Nat
  <2>1. /\ IsFiniteSet(P \cup B)
        /\ Cardinality(P \cup B) = Cardinality(P) + Cardinality(B) - Cardinality(P \cap B)
    BY <1>4, FS_Union
  <2>2. /\ IsFiniteSet((P \cup B) \cup C)
        /\ Cardinality((P \cup B) \cup C)
             = Cardinality(P \cup B) + Cardinality(C) - Cardinality((P \cup B) \cap C)
    BY <1>3, <2>1, FS_Union
  <2>3. IsFiniteSet(P \cap B) /\ IsFiniteSet((P \cup B) \cap C)
    BY <1>4, <2>1, FS_Subset
  <2>4. /\ Cardinality(P \cap B) \in Nat /\ Cardinality((P \cup B) \cap C) \in Nat
        /\ Cardinality(P \cup B) \in Nat /\ Cardinality(C) \in Nat
        /\ Cardinality((P \cup B) \cup C) \in Nat
    BY <1>3, <2>1, <2>2, <2>3, FS_CardinalityType
  <2> QED BY SMTT(30), <1>4, <2>1, <2>2, <2>4
<1>10. Cardinality(L) \in Nat /\ Cardinality(L) <= Cardinality((P \cup B) \cup C)
  BY <1>8, <1>9, FS_Injection, FS_CardinalityType
<1>11. InvalidLines(s, a, b) = Cardinality(L) - Cardinality(P)
  BY DEF InvalidLines, L, P
<1> QED BY <1>3, <1>4, <1>9, <1>10, <1>11 DEF B
------------------------------------------------------------------------------
(***************************************************************************)
(* The events read.                                                        *)
(***************************************************************************)
Ascends(events) == \A i, j \in 1..Len(events) : i < j => events[i] < events[j]

Elements(events) == {events[i] : i \in 1..Len(events)}

\* An event that is later than all of a sequence goes to its end.
LEMMA AppendAscends ==
  ASSUME NEW events \in Seq(Events), Ascends(events), NEW e \in Events,
         \A x \in Elements(events) : x < e
  PROVE  /\ Append(events, e) \in Seq(Events) /\ Ascends(Append(events, e))
         /\ Elements(Append(events, e)) = Elements(events) \cup {e}
         /\ Len(Append(events, e)) = Len(events) + 1
         /\ Append(events, e)[Len(events) + 1] = e
         /\ \A i \in 1..Len(events) : Append(events, e)[i] = events[i]
<1> DEFINE t == Append(events, e)
           n == Len(events)
<1>1. /\ t \in Seq(Events) /\ Len(t) = n + 1 /\ n \in Nat
      /\ t[n + 1] = e /\ \A i \in 1..n : t[i] = events[i]
  OBVIOUS
<1> HIDE DEF t
<1>2. 1..Len(t) = 1..n \cup {n + 1}
  BY <1>1
<1>3. Ascends(t)
  BY <1>1, <1>2 DEF Ascends, Elements
<1>4. Elements(t) = Elements(events) \cup {e}
  <2>1. ASSUME NEW x \in Elements(t) PROVE x \in Elements(events) \cup {e}
    BY <1>1, <1>2 DEF Elements
  <2>2. ASSUME NEW x \in Elements(events) \cup {e} PROVE x \in Elements(t)
    BY <1>1, <1>2 DEF Elements
  <2> QED BY <2>1, <2>2
<1> QED BY <1>1, <1>3, <1>4 DEF t

LEMMA EventsReadIs ==
  ASSUME NEW s, Good(s), NEW a, NEW b
  PROVE  /\ EventsRead(s, a, b) \in Seq(Events) /\ Ascends(EventsRead(s, a, b))
         /\ Elements(EventsRead(s, a, b))
              = {s[i].event : i \in {j \in Parsed(s, a, b) : SessionOf[s[j].event] # NoSession}}
<1>s. s \in Seq(EntrySet) /\ Len(s) \in Nat /\ DOMAIN s = 1..Len(s)
  BY DEF Good
<1> DEFINE P == {j \in Parsed(s, a, b) : SessionOf[s[j].event] # NoSession}
           parsed == Parsed(s, a, b)
           G == CHOOSE got : got = [n \in 0..Len(s) |->
                  IF n = 0 THEN <<>>
                  ELSE IF n \in parsed /\ SessionOf[s[n].event] # NoSession
                  THEN Append(got[n - 1], s[n].event) ELSE got[n - 1]]
           g == [n \in 1..Len(s) |-> [x \in Seq(Events) |->
                  IF n \in P THEN Append(x, s[n].event) ELSE x]]
<1>1. P \in SUBSET (1..Len(s))
  BY <1>s DEF Parsed
<1>2. g \in Steppers(Len(s), Seq(Events))
  <2>1. ASSUME NEW n \in 1..Len(s), NEW x \in Seq(Events) PROVE Append(x, s[n].event) \in Seq(Events)
    <3>1. s[n].event \in Events
      BY <1>s, EntryIs
    <3> QED BY <3>1
  <2> HIDE DEF P
  <2> QED BY <2>1 DEF Steppers
<1>3. <<>> \in Seq(Events)
  OBVIOUS
<1>4. PICK f : Recursive(f, Len(s), Seq(Events), <<>>, g)
  <2> HIDE DEF g
  <2> QED BY <1>s, <1>2, <1>3, IntervalRecursion
<1>5. f \in [0..Len(s) -> Seq(Events)] /\ f[0] = <<>>
      /\ \A n \in 1..Len(s) : f[n] = IF n \in P THEN Append(f[n - 1], s[n].event) ELSE f[n - 1]
  <2>1. /\ f \in [0..Len(s) -> Seq(Events)] /\ f[0] = <<>>
        /\ \A n \in 1..Len(s) : f[n] = g[n][f[n - 1]]
    BY <1>4 DEF Recursive
  <2>2. ASSUME NEW n \in 1..Len(s)
        PROVE  f[n] = IF n \in P THEN Append(f[n - 1], s[n].event) ELSE f[n - 1]
    <3>1. n - 1 \in 0..Len(s)
      BY <1>s
    <3>2. f[n - 1] \in Seq(Events)
      BY <2>1, <3>1
    <3> HIDE DEF P
    <3> QED BY <2>1, <3>2
  <2> QED BY <2>1, <2>2
<1>6. f = [n \in 0..Len(s) |->
             IF n = 0 THEN <<>>
             ELSE IF n \in parsed /\ SessionOf[s[n].event] # NoSession
             THEN Append(f[n - 1], s[n].event) ELSE f[n - 1]]
  <2>1. ASSUME NEW n \in 0..Len(s)
        PROVE  f[n] = IF n = 0 THEN <<>>
                      ELSE IF n \in parsed /\ SessionOf[s[n].event] # NoSession
                      THEN Append(f[n - 1], s[n].event) ELSE f[n - 1]
    <3>1. CASE n = 0
      BY <1>5, <3>1
    <3>2. CASE n # 0
      <4>1. n \in 1..Len(s)
        BY <3>2
      <4>2. n \in P <=> n \in parsed /\ SessionOf[s[n].event] # NoSession
        OBVIOUS
      <4> HIDE DEF P, parsed
      <4> QED BY <1>5, <3>2, <4>1, <4>2
    <3> QED BY <3>1, <3>2
  <2> HIDE DEF P, parsed
  <2> QED BY <1>5, <2>1
<1>7. G = [n \in 0..Len(s) |->
             IF n = 0 THEN <<>>
             ELSE IF n \in parsed /\ SessionOf[s[n].event] # NoSession
             THEN Append(G[n - 1], s[n].event) ELSE G[n - 1]]
  BY <1>6
<1>8. EventsRead(s, a, b) = G[Len(s)]
  BY DEF EventsRead
<1> HIDE DEF G
<1>9. G[0] = <<>> /\ \A n \in 1..Len(s) : G[n] = IF n \in P THEN Append(G[n - 1], s[n].event) ELSE G[n - 1]
  <2>1. G[0] = <<>>
    BY <1>s, <1>7
  <2>2. ASSUME NEW n \in 1..Len(s)
        PROVE  G[n] = IF n \in P THEN Append(G[n - 1], s[n].event) ELSE G[n - 1]
    <3>1. n \in 0..Len(s) /\ n # 0
      BY <1>s
    <3>2. n \in P <=> n \in parsed /\ SessionOf[s[n].event] # NoSession
      OBVIOUS
    <3> HIDE DEF P, parsed
    <3> QED BY <1>7, <3>1, <3>2
  <2> QED BY <2>1, <2>2
<1> DEFINE Read(n) == {s[i].event : i \in P \cap (1..n)}
           T == {n \in 0..Len(s) : G[n] \in Seq(Events) /\ Ascends(G[n]) /\ Elements(G[n]) = Read(n)}
<1> HIDE DEF P
<1>10. 0 \in T
  <2>1. Ascends(<<>>) /\ Elements(<<>>) = {}
    BY DEF Ascends, Elements
  <2>2. 1..0 = {}
    OBVIOUS
  <2>3. Read(0) = {}
    BY <2>2
  <2>4. 0 \in 0..Len(s)
    BY <1>s
  <2> QED BY <1>3, <1>9, <2>1, <2>3, <2>4
<1>11. ASSUME NEW n \in T, n < Len(s) PROVE n + 1 \in T
  <2>1. n \in 0..Len(s) /\ G[n] \in Seq(Events) /\ Ascends(G[n]) /\ Elements(G[n]) = Read(n)
    BY <1>11
  <2>2. n + 1 \in 1..Len(s) /\ n + 1 \in 0..Len(s) /\ (n + 1) - 1 = n
    BY <1>s, <1>11, <2>1
  <2>3. CASE n + 1 \in P
    <3>1. G[n + 1] = Append(G[n], s[n + 1].event) /\ s[n + 1].event \in Events
      BY <1>s, <1>9, <2>2, <2>3, EntryIs
    <3>2. \A x \in Elements(G[n]) : x < s[n + 1].event
      <4>1. ASSUME NEW i \in P \cap (1..n) PROVE s[i].event < s[n + 1].event
        <5>1. i \in 1..Len(s) /\ i < n + 1
          BY <1>s, <2>1
        <5> QED BY <2>2, <5>1 DEF Good
      <4> QED BY <2>1, <4>1
    <3>3. Read(n + 1) = Read(n) \cup {s[n + 1].event}
      <4>1. 1..n + 1 = 1..n \cup {n + 1}
        BY <2>1
      <4>2. P \cap (1..n + 1) = (P \cap (1..n)) \cup {n + 1}
        BY <2>3, <4>1
      <4> QED BY <4>2
    <3>4. G[n + 1] \in Seq(Events) /\ Ascends(G[n + 1])
          /\ Elements(G[n + 1]) = Elements(G[n]) \cup {s[n + 1].event}
      <4> DEFINE events == G[n]
                 e == s[n + 1].event
      <4>1. events \in Seq(Events) /\ Ascends(events) /\ e \in Events
            /\ \A x \in Elements(events) : x < e
        BY <2>1, <3>1, <3>2
      <4>2. G[n + 1] = Append(events, e)
        BY <3>1
      <4> HIDE DEF events, e
      <4>3. G[n + 1] \in Seq(Events) /\ Ascends(G[n + 1])
            /\ Elements(G[n + 1]) = Elements(events) \cup {e}
        BY <4>1, <4>2, AppendAscends
      <4> QED BY <4>3 DEF events, e
    <3>5. Elements(G[n + 1]) = Read(n + 1)
      BY <2>1, <3>3, <3>4
    <3> HIDE DEF Read
    <3> QED BY <2>2, <3>4, <3>5
  <2>4. CASE n + 1 \notin P
    <3>1. G[n + 1] = G[n]
      BY <1>9, <2>2, <2>4
    <3>2. P \cap (1..n + 1) = P \cap (1..n)
      <4>1. 1..n + 1 = 1..n \cup {n + 1}
        BY <2>1
      <4> QED BY <2>4, <4>1
    <3> QED BY <2>1, <2>2, <3>1, <3>2
  <2> QED BY <2>3, <2>4
<1>12. T = 0..Len(s)
  <2> HIDE DEF T
  <2>1. T \in SUBSET (0..Len(s))
    BY DEF T
  <2> QED BY <1>s, <1>10, <1>11, <2>1, IntervalInduction
<1>13. Len(s) \in T
  <2> HIDE DEF T
  <2> QED BY <1>s, <1>12
<1>14. P \cap (1..Len(s)) = P
  BY <1>1
<1> QED BY <1>8, <1>13, <1>14 DEF P
------------------------------------------------------------------------------
(***************************************************************************)
(* The table of sessions.                                                  *)
(***************************************************************************)
Names == {SessionOf[e] : e \in Events}
Statuses == {"observed", "disconnected"} \cup {Told[k] : k \in DOMAIN Told}
Rows == [start : Events, status : Statuses, commands : Nat, events : Seq(Events)]
Tables == UNION {[D -> Rows] : D \in SUBSET Names}
Views == [table : Tables, order : Seq(Names), next : Nat, evicted : BOOLEAN]

LEMMA TableIs ==
  ASSUME NEW t \in Tables
  PROVE  DOMAIN t \in SUBSET Names /\ t \in [DOMAIN t -> Rows]
BY DEF Tables

LEMMA IsTable ==
  ASSUME NEW D \in SUBSET Names, NEW t \in [D -> Rows]
  PROVE  t \in Tables
BY DEF Tables

\* The sessions that stay when there is an event of session s.
KeptBy(v, s) ==
  IF s \in DOMAIN v.table \/ Cardinality(DOMAIN v.table) < Window THEN DOMAIN v.table
  ELSE DOMAIN v.table \ {v.order[v.next]}

Row(v, s, e) == IF s \in DOMAIN v.table THEN v.table[s] ELSE NewSession(e)

Staying(v, s) == s \in DOMAIN v.table
Joining(v, s) == s \notin DOMAIN v.table /\ Cardinality(DOMAIN v.table) < Window
Evicting(v, s) == s \notin DOMAIN v.table /\ ~ (Cardinality(DOMAIN v.table) < Window)

LEMMA RecordedIs ==
  ASSUME NEW r \in Rows, NEW e \in Events
  PROVE  /\ Recorded(r, e) \in Rows
         /\ Recorded(r, e).start = r.start
         /\ Recorded(r, e).status = StatusAfter(r.status, KindOf[e])
         /\ Recorded(r, e).events = Append(IF Len(r.events) >= Keep THEN Tail(r.events) ELSE r.events, e)
<1> DEFINE x == IF Len(r.events) >= Keep THEN Tail(r.events) ELSE r.events
           n == IF KindOf[e] = "command" THEN 1 ELSE 0
<1>1. r.events \in Seq(Events) /\ r.commands \in Nat /\ r.status \in Statuses /\ r.start \in Events
  BY DEF Rows
<1>2. Append(x, e) \in Seq(Events)
  <2>1. CASE Len(r.events) >= Keep
    <3>1. r.events # <<>>
      BY <1>1, <2>1, DashboardAssumption
    <3>2. Tail(r.events) \in Seq(Events)
      BY <1>1, <3>1
    <3> QED BY <2>1, <3>2
  <2>2. CASE ~ (Len(r.events) >= Keep)
    BY <1>1, <2>2
  <2> QED BY <2>1, <2>2
<1>3. StatusAfter(r.status, KindOf[e]) \in Statuses
  <2>1. "disconnected" \in Statuses /\ \A k \in DOMAIN Told : Told[k] \in Statuses
    BY DEF Statuses
  <2> HIDE DEF Statuses
  <2> QED BY <1>1, <2>1 DEF StatusAfter
<1>4. r.commands + n \in Nat
  BY <1>1
<1>5. Recorded(r, e) = [start |-> r.start, status |-> StatusAfter(r.status, KindOf[e]),
                        commands |-> r.commands + n, events |-> Append(x, e)]
  <2>1. r = [start |-> r.start, status |-> r.status, commands |-> r.commands, events |-> r.events]
    BY DEF Rows
  <2>2. Recorded(r, e) = [r EXCEPT !.events = Append(x, e), !.commands = r.commands + n,
                                   !.status = StatusAfter(r.status, KindOf[e])]
    BY DEF Recorded
  <2> HIDE DEF x, n
  <2> QED BY <2>1, <2>2
<1> HIDE DEF x, n
<1> QED BY <1>1, <1>2, <1>3, <1>4, <1>5 DEF Rows, x

LEMMA NewSessionIs ==
  ASSUME NEW e \in Events
  PROVE  /\ NewSession(e) \in Rows /\ NewSession(e).start = e
         /\ NewSession(e).status = "observed" /\ NewSession(e).events = <<>>
BY DEF NewSession, Rows, Statuses

\* What an event does to the view.
LEMMA AddEventIs ==
  ASSUME NEW v \in Views, NEW e \in Events
  PROVE  LET s == SessionOf[e]
             w == AddEvent(v, e)
         IN  /\ w \in Views
             /\ DOMAIN w.table = KeptBy(v, s) \cup {s}
             /\ \A x \in KeptBy(v, s) \ {s} : w.table[x] = v.table[x]
             /\ w.table[s] = Recorded(Row(v, s, e), e)
             /\ Staying(v, s) => w.order = v.order /\ w.next = v.next /\ w.evicted = v.evicted
             /\ Joining(v, s) => w.order = Append(v.order, s) /\ w.next = v.next /\ w.evicted = v.evicted
             /\ Evicting(v, s) => /\ w.order = [v.order EXCEPT ![v.next] = s]
                                  /\ w.next = (v.next % Window) + 1 /\ w.evicted
<1> DEFINE s == SessionOf[e]
           p == Place(v, s, e)
           w == AddEvent(v, e)
<1>1. /\ v = [table |-> v.table, order |-> v.order, next |-> v.next, evicted |-> v.evicted]
      /\ v.table \in Tables /\ v.order \in Seq(Names) /\ v.next \in Nat /\ v.evicted \in BOOLEAN
  BY DEF Views
<1>2. s \in Names
  BY DEF Names
<1>3. DOMAIN v.table \in SUBSET Names /\ v.table \in [DOMAIN v.table -> Rows]
  BY <1>1, TableIs
<1>4. NewSession(e) \in Rows
  BY NewSessionIs
<1> HIDE DEF s
<1>5. ASSUME NEW kept \in SUBSET (DOMAIN v.table)
      PROVE  /\ With(v.table, kept, s, e) \in [kept \cup {s} -> Rows]
             /\ With(v.table, kept, s, e) \in Tables
             /\ With(v.table, kept, s, e)[s] = NewSession(e)
             /\ \A x \in kept \ {s} : With(v.table, kept, s, e)[x] = v.table[x]
  <2>1. With(v.table, kept, s, e) \in [kept \cup {s} -> Rows]
    BY <1>3, <1>4 DEF With
  <2>2. kept \cup {s} \in SUBSET Names
    BY <1>2, <1>3
  <2>3. With(v.table, kept, s, e) \in Tables
    BY <2>1, <2>2, IsTable
  <2> QED BY <2>1, <2>3 DEF With
<1>6. /\ p = [table |-> p.table, order |-> p.order, next |-> p.next, evicted |-> p.evicted]
      /\ p \in Views
      /\ DOMAIN p.table = KeptBy(v, s) \cup {s}
      /\ p.table[s] = Row(v, s, e)
      /\ \A x \in KeptBy(v, s) \ {s} : p.table[x] = v.table[x]
      /\ Staying(v, s) => p.order = v.order /\ p.next = v.next /\ p.evicted = v.evicted
      /\ Joining(v, s) => p.order = Append(v.order, s) /\ p.next = v.next /\ p.evicted = v.evicted
      /\ Evicting(v, s) => /\ p.order = [v.order EXCEPT ![v.next] = s]
                           /\ p.next = (v.next % Window) + 1 /\ p.evicted
  <2>1. CASE Staying(v, s)
    <3>1. p = v
      BY <2>1 DEF Place, Staying
    <3>2. KeptBy(v, s) = DOMAIN v.table
      BY <2>1 DEF Staying, KeptBy
    <3>3. Row(v, s, e) = v.table[s] /\ s \in DOMAIN v.table
      BY <2>1 DEF Staying, Row
    <3> HIDE DEF p
    <3> QED BY <1>1, <2>1, <3>1, <3>2, <3>3 DEF Staying, Joining, Evicting
  <2>2. CASE Joining(v, s)
    <3> DEFINE t == With(v.table, DOMAIN v.table, s, e)
               o == Append(v.order, s)
    <3>1. p = [v EXCEPT !.table = t, !.order = o]
      BY <2>2 DEF Place, Joining
    <3>2. /\ t \in [DOMAIN v.table \cup {s} -> Rows] /\ t \in Tables /\ t[s] = NewSession(e)
          /\ \A x \in DOMAIN v.table \ {s} : t[x] = v.table[x]
      BY <1>5
    <3>3. o \in Seq(Names)
      BY <1>1, <1>2
    <3> HIDE DEF t, o
    <3>4. p = [table |-> t, order |-> o, next |-> v.next, evicted |-> v.evicted]
      BY <1>1, <3>1
    <3>5. p \in Views
      BY <1>1, <3>2, <3>3, <3>4 DEF Views
    <3>6. KeptBy(v, s) = DOMAIN v.table /\ Row(v, s, e) = NewSession(e)
      <4>1. KeptBy(v, s) = DOMAIN v.table
        BY <2>2 DEF Joining, KeptBy
      <4>2. Row(v, s, e) = NewSession(e)
        BY <2>2 DEF Joining, Row
      <4> QED BY <4>1, <4>2
    <3> HIDE DEF p
    <3> QED BY <2>2, <3>2, <3>4, <3>5, <3>6 DEF Staying, Joining, Evicting, o
  <2>3. CASE Evicting(v, s)
    <3> DEFINE kept == DOMAIN v.table \ {v.order[v.next]}
               t == With(v.table, kept, s, e)
               o == [v.order EXCEPT ![v.next] = s]
               n == (v.next % Window) + 1
    <3>1. p = [table |-> t, order |-> o, next |-> n, evicted |-> TRUE]
      BY <2>3 DEF Place, Evicting
    <3>2. /\ t \in [kept \cup {s} -> Rows] /\ t \in Tables /\ t[s] = NewSession(e)
          /\ \A x \in kept \ {s} : t[x] = v.table[x]
      BY <1>5
    <3>3. o \in Seq(Names)
      <4>1. CASE v.next \in 1..Len(v.order)
        BY <1>1, <1>2, <4>1, ExceptSeq
      <4>2. CASE v.next \notin 1..Len(v.order)
        <5>1. o = v.order
          BY <1>1, <4>2
        <5> QED BY <1>1, <5>1
      <4> QED BY <4>1, <4>2
    <3>4. n \in Nat
      BY <1>1, DashboardAssumption
    <3>6. KeptBy(v, s) = kept /\ Row(v, s, e) = NewSession(e)
      <4>1. KeptBy(v, s) = kept
        BY <2>3 DEF Evicting, KeptBy
      <4>2. Row(v, s, e) = NewSession(e)
        BY <2>3 DEF Evicting, Row
      <4> QED BY <4>1, <4>2
    <3> HIDE DEF t, o, n, kept
    <3>5. p \in Views
      BY <3>1, <3>2, <3>3, <3>4 DEF Views
    <3> HIDE DEF p
    <3> QED BY <2>3, <3>1, <3>2, <3>5, <3>6 DEF Staying, Joining, Evicting, o, n
  <2> QED BY <2>1, <2>2, <2>3 DEF Staying, Joining, Evicting
<1> HIDE DEF p
<1> DEFINE r == Recorded(p.table[s], e)
           t == [p.table EXCEPT ![s] = r]
<1>7. w = [p EXCEPT !.table = t]
  BY DEF AddEvent, p, s
<1>8. /\ p.table \in Tables /\ p.order \in Seq(Names) /\ p.next \in Nat /\ p.evicted \in BOOLEAN
      /\ p.table \in [KeptBy(v, s) \cup {s} -> Rows] /\ KeptBy(v, s) \cup {s} \in SUBSET Names
  BY <1>6, TableIs DEF Views
<1>9. p.table[s] \in Rows /\ r \in Rows
  BY <1>8, RecordedIs
<1> HIDE DEF r
<1>10. t \in [KeptBy(v, s) \cup {s} -> Rows] /\ t[s] = r /\ \A x \in KeptBy(v, s) \ {s} : t[x] = p.table[x]
  BY <1>8, <1>9
<1>11. t \in Tables
  BY <1>8, <1>10, IsTable
<1> HIDE DEF t, w
<1>12. w = [table |-> t, order |-> p.order, next |-> p.next, evicted |-> p.evicted]
  BY <1>6, <1>7
<1>13. w \in Views
  BY <1>8, <1>11, <1>12 DEF Views
<1>14. /\ DOMAIN w.table = KeptBy(v, s) \cup {s}
       /\ \A x \in KeptBy(v, s) \ {s} : w.table[x] = v.table[x]
       /\ w.table[s] = Recorded(Row(v, s, e), e)
  BY <1>6, <1>10, <1>12 DEF r
<1>15. /\ Staying(v, s) => w.order = v.order /\ w.next = v.next /\ w.evicted = v.evicted
       /\ Joining(v, s) => w.order = Append(v.order, s) /\ w.next = v.next /\ w.evicted = v.evicted
       /\ Evicting(v, s) => /\ w.order = [v.order EXCEPT ![v.next] = s]
                            /\ w.next = (v.next % Window) + 1 /\ w.evicted
  BY <1>6, <1>12
<1> QED BY <1>13, <1>14, <1>15 DEF s, w

\* A set of naturals with a bound has a largest member.
LEMMA MaxIs ==
  ASSUME NEW n \in Nat, NEW S \in SUBSET (0..n), S # {}
  PROVE  Max(S) \in S /\ \A x \in S : x <= Max(S)
<1> DEFINE HasMax(X) == \E x \in X : \A y \in X : x >= y
           T == {k \in 0..n : \A X \in SUBSET (0..k) : X # {} => HasMax(X)}
<1>1. 0 \in T
  <2>1. 0..0 = {0} /\ 0 \in 0..n
    OBVIOUS
  <2>2. ASSUME NEW X \in SUBSET {0}, X # {} PROVE HasMax(X)
    <3>1. 0 \in X /\ \A y \in X : y = 0
      BY <2>2
    <3> QED BY <3>1
  <2> QED BY <2>1, <2>2
<1>2. ASSUME NEW k \in T, k < n PROVE k + 1 \in T
  <2>1. k \in Nat /\ k + 1 \in 0..n /\ 0..k + 1 = 0..k \cup {k + 1}
    BY <1>2
  <2>2. ASSUME NEW X \in SUBSET (0..k + 1), X # {} PROVE HasMax(X)
    <3>1. CASE k + 1 \in X
      <4>1. \A y \in X : k + 1 >= y
        BY <2>1
      <4> QED BY <3>1, <4>1
    <3>2. CASE k + 1 \notin X
      <4>1. X \in SUBSET (0..k)
        BY <2>1, <3>2
      <4> QED BY <1>2, <2>2, <4>1
    <3> QED BY <3>1, <3>2
  <2> HIDE DEF HasMax
  <2> QED BY <2>1, <2>2
<1>3. T = 0..n
  <2> HIDE DEF T
  <2>1. T \in SUBSET (0..n)
    BY DEF T
  <2> QED BY <1>1, <1>2, <2>1, IntervalInduction
<1>4. HasMax(S)
  <2> HIDE DEF HasMax
  <2> QED BY <1>3
<1>5. Max(S) \in S /\ \A y \in S : Max(S) >= y
  BY <1>4 DEF Max
<1>6. S \in SUBSET Nat
  OBVIOUS
<1> QED BY <1>5, <1>6

LastIn(X, kinds) == Max({0} \cup {x \in X : KindOf[x] \in kinds})

LEMMA LastInIs ==
  ASSUME NEW X \in SUBSET Events, NEW kinds
  PROVE  /\ LastIn(X, kinds) \in {0} \cup {x \in X : KindOf[x] \in kinds}
         /\ \A x \in X : KindOf[x] \in kinds => x <= LastIn(X, kinds)
         /\ LastIn(X, kinds) \in 0..MaxEvents
<1>1. MaxEvents \in Nat /\ Events = 1..MaxEvents
  BY EventLogAssumption DEF Events
<1>2. {0} \cup {x \in X : KindOf[x] \in kinds} \in SUBSET (0..MaxEvents)
  <2>1. 0 \in 0..MaxEvents /\ \A x \in X : x \in 0..MaxEvents
    BY <1>1
  <2> QED BY <2>1
<1> DEFINE Y == {0} \cup {x \in X : KindOf[x] \in kinds}
<1>3. Y # {}
  OBVIOUS
<1>4. Max(Y) \in Y /\ \A x \in Y : x <= Max(Y)
  <2> HIDE DEF Y
  <2> QED BY <1>1, <1>2, <1>3, MaxIs DEF Y
<1> QED BY <1>2, <1>4 DEF LastIn

LEMMA LastInNext ==
  ASSUME NEW X \in SUBSET Events, NEW e \in Events, \A x \in X : x < e, NEW kinds
  PROVE  LastIn(X \cup {e}, kinds) = IF KindOf[e] \in kinds THEN e ELSE LastIn(X, kinds)
<1>1. Events \in SUBSET Nat
  BY DEF Events
<1>2. X \cup {e} \in SUBSET Events
  OBVIOUS
<1>3. CASE KindOf[e] \in kinds
  <2> DEFINE m == LastIn(X \cup {e}, kinds)
  <2>1. /\ m \in {0} \cup {x \in X \cup {e} : KindOf[x] \in kinds}
        /\ e <= m /\ m \in 0..MaxEvents
    BY <1>2, <1>3, LastInIs
  <2> HIDE DEF m
  <2>2. m = e
    BY <1>1, <2>1, EventLogAssumption DEF Events
  <2> QED BY <1>3, <2>2 DEF m
<1>4. CASE KindOf[e] \notin kinds
  <2>1. {x \in X \cup {e} : KindOf[x] \in kinds} = {x \in X : KindOf[x] \in kinds}
    BY <1>4
  <2> QED BY <1>4, <2>1 DEF LastIn
<1> QED BY <1>3, <1>4

\* The status that a set of events tells.
TellsIs(st, mark, off) ==
  st = IF mark = 0 THEN "observed"
       ELSE IF KindOf[mark] = "connect" /\ off > mark THEN "disconnected" ELSE Told[KindOf[mark]]

LEMMA TellsStatusIs ==
  ASSUME NEW st, NEW X
  PROVE  TellsStatus(st, X) <=> TellsIs(st, LastIn(X, DOMAIN Told), LastIn(X, {"disconnect"}))
BY DEF TellsStatus, TellsIs, LastIn

LEMMA ToldIs ==
  /\ DOMAIN Told = {"connect", "victory", "limit", "handshake_error"}
  /\ Told["connect"] = "connected"
  /\ \A k \in DOMAIN Told \ {"connect"} : Told[k] \notin {"connected", "disconnected", "observed"}
  /\ "disconnect" \notin DOMAIN Told
<1>1. DOMAIN Told = {"connect", "victory", "limit", "handshake_error"}
  BY DEF Told
<1>2. /\ Told["connect"] = "connected" /\ Told["victory"] = "vault recovered"
      /\ Told["limit"] = "limited" /\ Told["handshake_error"] = "handshake failed"
  BY DEF Told
<1> QED BY <1>1, <1>2

LEMMA StatusNext ==
  ASSUME NEW st, NEW X \in SUBSET Events, NEW e \in Events, \A x \in X : x < e,
         TellsStatus(st, X)
  PROVE  TellsStatus(StatusAfter(st, KindOf[e]), X \cup {e})
<1> DEFINE mark == LastIn(X, DOMAIN Told)
           off == LastIn(X, {"disconnect"})
           k == KindOf[e]
<1>1. TellsIs(st, mark, off)
  BY TellsStatusIs
<1>2. /\ mark \in {0} \cup {x \in X : KindOf[x] \in DOMAIN Told} /\ mark \in Nat
      /\ off \in {0} \cup X /\ off \in Nat /\ e \in Nat \ {0}
  <2>1. /\ mark \in {0} \cup {x \in X : KindOf[x] \in DOMAIN Told}
        /\ off \in {0} \cup {x \in X : KindOf[x] \in {"disconnect"}}
    BY LastInIs
  <2>2. Events \in SUBSET (Nat \ {0})
    BY DEF Events
  <2> HIDE DEF mark, off
  <2> QED BY <2>1, <2>2
<1>3. /\ LastIn(X \cup {e}, DOMAIN Told) = IF k \in DOMAIN Told THEN e ELSE mark
      /\ LastIn(X \cup {e}, {"disconnect"}) = IF k = "disconnect" THEN e ELSE off
  <2>1. LastIn(X \cup {e}, DOMAIN Told) = IF KindOf[e] \in DOMAIN Told THEN e ELSE mark
    BY LastInNext
  <2>2. LastIn(X \cup {e}, {"disconnect"}) = IF KindOf[e] \in {"disconnect"} THEN e ELSE off
    BY LastInNext
  <2> QED BY <2>1, <2>2
<1>4. \A x \in X : x < e
  OBVIOUS
<1> HIDE DEF mark, off
<1>5. TellsIs(StatusAfter(st, k), IF k \in DOMAIN Told THEN e ELSE mark, IF k = "disconnect" THEN e ELSE off)
  <2>1. CASE k \in DOMAIN Told
    <3>1. k # "disconnect"
      BY <2>1, ToldIs
    <3>2. ~ (off > e) /\ e # 0
      BY <1>2, <1>4
    <3> QED BY <2>1, <3>1, <3>2 DEF TellsIs, StatusAfter
  <2>2. CASE k = "disconnect"
    <3>1. k \notin DOMAIN Told
      BY <2>2, ToldIs
    <3>2. mark < e
      BY <1>2, <1>4
    <3>3. CASE mark = 0
      BY <1>1, <2>2, <3>1, <3>3 DEF TellsIs, StatusAfter
    <3>4. CASE mark # 0 /\ KindOf[mark] = "connect"
      <4>1. st \in {"connected", "disconnected"}
        BY <1>1, <3>4, ToldIs DEF TellsIs
      <4>2. StatusAfter(st, k) = "disconnected"
        BY <2>2, <3>1, <4>1 DEF StatusAfter
      <4>3. e > mark
        BY <1>2, <3>2
      <4> QED BY <2>2, <3>1, <3>4, <4>2, <4>3 DEF TellsIs
    <3>5. CASE mark # 0 /\ KindOf[mark] # "connect"
      <4>1. KindOf[mark] \in DOMAIN Told \ {"connect"}
        BY <1>2, <3>5
      <4>2. st = Told[KindOf[mark]]
        BY <1>1, <3>5 DEF TellsIs
      <4>3. st # "connected"
        BY <4>1, <4>2, ToldIs
      <4>4. StatusAfter(st, k) = st
        BY <2>2, <3>1, <4>3 DEF StatusAfter
      <4> QED BY <2>2, <3>1, <3>5, <4>2, <4>4 DEF TellsIs
    <3> QED BY <3>3, <3>4, <3>5
  <2>3. CASE k \notin DOMAIN Told /\ k # "disconnect"
    BY <1>1, <2>3 DEF TellsIs, StatusAfter
  <2> QED BY <2>1, <2>2, <2>3
<1> QED BY <1>3, <1>5, TellsStatusIs

\* The newest events, with one more.
LEMMA RangeIs ==
  ASSUME NEW events \in Seq(Events)
  PROVE  Range(events) = Elements(events) /\ DOMAIN events = 1..Len(events)
BY DEF Range, Elements

LEMMA NewestNext ==
  ASSUME NEW events \in Seq(Events), NEW X \in SUBSET Events, NEW e \in Events,
         \A x \in X : x < e, Newest(Keep, events, X)
  PROVE  Newest(Keep, Append(IF Len(events) >= Keep THEN Tail(events) ELSE events, e), X \cup {e})
<1> DEFINE old == IF Len(events) >= Keep THEN Tail(events) ELSE events
           new == Append(old, e)
<1>0. Keep \in Nat \ {0} /\ Events \in SUBSET Nat
  BY DashboardAssumption DEF Events
<1>1. /\ Elements(events) \subseteq X /\ Len(events) <= Keep /\ Ascends(events)
      /\ \A x \in X \ Elements(events) : Len(events) = Keep /\ x < events[1]
  BY RangeIs DEF Newest, Ascends
<1>2. /\ old \in Seq(Events) /\ Elements(old) \subseteq X /\ Ascends(old)
      /\ Len(old) + 1 <= Keep
      /\ \A x \in X \ Elements(old) : Len(old) + 1 = Keep /\ (Len(old) > 0 => x < old[1])
  <2>1. CASE Len(events) >= Keep
    <3>1. Len(events) = Keep /\ events # <<>> /\ Len(events) \in Nat
      BY <1>0, <1>1, <2>1
    <3>2. /\ Tail(events) \in Seq(Events) /\ Len(Tail(events)) = Len(events) - 1
          /\ \A i \in 1..Len(events) - 1 : Tail(events)[i] = events[i + 1]
      BY <3>1
    <3> DEFINE t == Tail(events)
    <3> HIDE DEF t
    <3>3. t \in Seq(Events) /\ Len(t) = Len(events) - 1 /\ \A i \in 1..Len(t) : t[i] = events[i + 1]
      BY <3>1, <3>2 DEF t
    <3>4. Elements(t) \subseteq Elements(events) /\ Elements(events) \subseteq Elements(t) \cup {events[1]}
      <4>1. ASSUME NEW i \in 1..Len(t) PROVE t[i] \in Elements(events)
        <5>1. i + 1 \in 1..Len(events)
          BY <3>1, <3>3
        <5> QED BY <3>3, <5>1 DEF Elements
      <4>2. ASSUME NEW i \in 1..Len(events) PROVE events[i] \in Elements(t) \cup {events[1]}
        <5>1. CASE i = 1
          BY <5>1
        <5>2. CASE i # 1
          <6>1. i - 1 \in 1..Len(t) /\ (i - 1) + 1 = i
            BY <3>1, <3>3, <5>2
          <6>2. t[i - 1] = events[i]
            BY <3>3, <6>1
          <6> QED BY <6>1, <6>2 DEF Elements
        <5> QED BY <5>1, <5>2
      <4> QED BY <4>1, <4>2 DEF Elements
    <3>5. Ascends(t)
      <4>1. ASSUME NEW i \in 1..Len(t), NEW j \in 1..Len(t), i < j PROVE t[i] < t[j]
        <5>1. i + 1 \in 1..Len(events) /\ j + 1 \in 1..Len(events) /\ i + 1 < j + 1
          BY <3>1, <3>3, <4>1
        <5> QED BY <1>1, <3>3, <5>1 DEF Ascends
      <4> QED BY <4>1 DEF Ascends
    <3>6. ASSUME NEW x \in X \ Elements(t), Len(t) > 0 PROVE x < t[1]
      <4>1. 1 \in 1..Len(t) /\ 1 \in 1..Len(events) /\ 2 \in 1..Len(events) /\ t[1] = events[2]
        BY <3>1, <3>3, <3>6
      <4>2. events[1] < events[2] /\ events[1] \in Nat /\ events[2] \in Nat /\ x \in Nat
        <5>1. events[1] \in Events /\ events[2] \in Events /\ x \in Events
          BY <4>1
        <5>2. events[1] < events[2]
          BY <1>1, <4>1 DEF Ascends
        <5> QED BY <1>0, <5>1, <5>2
      <4>3. CASE x \in Elements(events)
        BY <3>4, <4>1, <4>2, <4>3
      <4>4. CASE x \notin Elements(events)
        BY <1>1, <4>1, <4>2, <4>4
      <4> QED BY <4>3, <4>4
    <3>7. old = t
      BY <2>1 DEF t
    <3> HIDE DEF old
    <3> QED BY <1>0, <1>1, <3>1, <3>3, <3>4, <3>5, <3>6, <3>7
  <2>2. CASE ~ (Len(events) >= Keep)
    <3>1. old = events
      BY <2>2
    <3>2. Len(events) \in Nat /\ Len(events) # Keep /\ Len(events) + 1 <= Keep
      BY <1>0, <1>1, <2>2
    <3> HIDE DEF old
    <3> QED BY <1>1, <3>1, <3>2
  <2> QED BY <2>1, <2>2
<1> HIDE DEF old
<1>3. \A x \in Elements(old) : x < e
  BY <1>2
<1>4. /\ new \in Seq(Events) /\ Ascends(new) /\ Elements(new) = Elements(old) \cup {e}
      /\ Len(new) = Len(old) + 1
      /\ \A i \in 1..Len(old) : new[i] = old[i]
      /\ new[Len(old) + 1] = e
  BY <1>2, <1>3, AppendAscends
<1> HIDE DEF new
<1>5. Len(old) \in Nat
  BY <1>2
<1>6. ASSUME NEW x \in (X \cup {e}) \ Elements(new) PROVE Len(new) = Keep /\ x < new[1]
  <2>1. x \in X \ Elements(old) /\ x < e
    BY <1>4
  <2>2. CASE Len(old) = 0
    BY <1>2, <1>4, <2>1, <2>2
  <2>3. CASE Len(old) > 0
    <3>1. 1 \in 1..Len(old)
      BY <1>5, <2>3
    <3> QED BY <1>2, <1>4, <2>1, <2>3, <3>1
  <2> QED BY <1>5, <2>2, <2>3
<1>7. Newest(Keep, new, X \cup {e})
  BY <1>2, <1>4, <1>6, RangeIs DEF Newest, Ascends
<1> QED BY <1>7 DEF new, old
------------------------------------------------------------------------------
(***************************************************************************)
(* The table through the events: S are the events so far.                  *)
(***************************************************************************)
BeganIn(v, i) == v.table[v.order[i]].start
SinceIn(v, s, S) == {e \in S : SessionOf[e] = s /\ e >= v.table[s].start}

\* The ring names each session of the table once.
RingNames(v) ==
  /\ v.next \in 1..Window /\ Len(v.order) <= Window
  /\ Len(v.order) < Window => v.next = 1
  /\ {v.order[i] : i \in 1..Len(v.order)} = DOMAIN v.table
  /\ \A i, j \in 1..Len(v.order) : v.order[i] = v.order[j] => i = j
  /\ IsFiniteSet(DOMAIN v.table) /\ Cardinality(DOMAIN v.table) = Len(v.order)

\* From next on around the ring the sessions are in the order in which they began.
RingOrder(v) ==
  \A i, j \in 1..Len(v.order) : i < j => (BeganIn(v, i) < BeganIn(v, j) <=> ~ (i < v.next /\ v.next <= j))

RowsTell(v, S) ==
  \A s \in DOMAIN v.table :
    /\ v.table[s].start \in S /\ SessionOf[v.table[s].start] = s
    /\ Newest(Keep, v.table[s].events, SinceIn(v, s, S))
    /\ TellsStatus(v.table[s].status, SinceIn(v, s, S))

NoneEvicted(v, S) ==
  ~ v.evicted => \A e \in S : SessionOf[e] \in DOMAIN v.table /\ v.table[SessionOf[e]].start <= e

ViewInv(v, S) == v \in Views /\ RingNames(v) /\ RingOrder(v) /\ RowsTell(v, S) /\ NoneEvicted(v, S)

LEMMA NothingSeen == ViewInv(NoSessions, {})
<1>1. NoSessions.table \in [{} -> Rows] /\ DOMAIN NoSessions.table = {} /\ {} \in SUBSET Names
  BY DEF NoSessions
<1>2. NoSessions.table \in Tables
  BY <1>1, IsTable
<1>3. NoSessions \in Views
  BY <1>2 DEF NoSessions, Views
<1>4. NoSessions.order = <<>> /\ NoSessions.next = 1 /\ Len(NoSessions.order) = 0 /\ 1..0 = {}
  BY DEF NoSessions
<1>5. 1 \in 1..Window /\ 0 <= Window
  BY DashboardAssumption
<1>6. IsFiniteSet({}) /\ Cardinality({}) = 0
  BY FS_EmptySet
<1>7. RingNames(NoSessions)
  BY <1>1, <1>4, <1>5, <1>6 DEF RingNames
<1>8. RingOrder(NoSessions)
  BY <1>4 DEF RingOrder
<1>9. RowsTell(NoSessions, {}) /\ NoneEvicted(NoSessions, {})
  BY <1>1 DEF RowsTell, NoneEvicted
<1> QED BY <1>3, <1>7, <1>8, <1>9 DEF ViewInv

\* What was said of a session with no events yet.
LEMMA NoneTells == TellsStatus("observed", {}) /\ Newest(Keep, <<>>, {})
<1>1. LastIn({}, DOMAIN Told) = 0
  BY LastInIs
<1>2. TellsStatus("observed", {})
  BY <1>1, TellsStatusIs DEF TellsIs
<1>3. Range(<<>>) = {} /\ Len(<<>>) = 0 /\ DOMAIN <<>> = {}
  BY DEF Range
<1>4. Newest(Keep, <<>>, {})
  BY <1>3, DashboardAssumption DEF Newest
<1> QED BY <1>2, <1>4

LEMMA StartIn ==
  ASSUME NEW v \in Views, NEW s \in DOMAIN v.table
  PROVE  v.table[s] \in Rows /\ v.table[s].start \in Events /\ v.table[s].events \in Seq(Events)
<1>1. v.table \in [DOMAIN v.table -> Rows]
  BY TableIs DEF Views
<1>2. v.table[s] \in Rows
  BY <1>1
<1> QED BY <1>2 DEF Rows

\* The rows after one more event.
LEMMA RowsNext ==
  ASSUME NEW v, NEW S \in SUBSET Events, ViewInv(v, S), NEW e \in Events, \A x \in S : x < e
  PROVE  RowsTell(AddEvent(v, e), S \cup {e})
<1> DEFINE s == SessionOf[e]
           w == AddEvent(v, e)
           row == Row(v, s, e)
           S1 == S \cup {e}
<1>v. v \in Views /\ RowsTell(v, S)
  BY DEF ViewInv
<1>1. /\ DOMAIN w.table = KeptBy(v, s) \cup {s}
      /\ \A x \in KeptBy(v, s) \ {s} : w.table[x] = v.table[x]
      /\ w.table[s] = Recorded(row, e)
  BY <1>v, AddEventIs
<1> HIDE DEF w
<1>2. KeptBy(v, s) \in SUBSET (DOMAIN v.table)
  BY DEF KeptBy
<1>e. Events \in SUBSET Nat
  BY DEF Events
<1>3. ASSUME NEW x \in KeptBy(v, s) \ {s}
      PROVE  /\ w.table[x].start \in S1 /\ SessionOf[w.table[x].start] = x
             /\ Newest(Keep, w.table[x].events, SinceIn(w, x, S1))
             /\ TellsStatus(w.table[x].status, SinceIn(w, x, S1))
  <2>1. w.table[x] = v.table[x] /\ x \in DOMAIN v.table /\ SessionOf[e] # x
    BY <1>1, <1>2
  <2>2. SinceIn(w, x, S1) = SinceIn(v, x, S)
    BY <2>1 DEF SinceIn
  <2> QED BY <1>v, <2>1, <2>2 DEF RowsTell
<1>4. \E X \in SUBSET S : /\ row \in Rows /\ row.start \in S1 /\ SessionOf[row.start] = s
                          /\ Newest(Keep, row.events, X) /\ TellsStatus(row.status, X)
                          /\ SinceIn(w, s, S1) = X \cup {e}
  <2>1. CASE s \in DOMAIN v.table
    <3>1. row = v.table[s]
      BY <2>1 DEF Row
    <3> HIDE DEF s, row
    <3>2. row \in Rows /\ row.start \in Events /\ row.start \in S /\ SessionOf[row.start] = s
      BY <1>v, <2>1, <3>1, StartIn DEF RowsTell
    <3>3. w.table[s].start = row.start
      BY <1>1, <3>2, RecordedIs
    <3>4. e >= row.start
      <4>1. row.start < e
        BY <3>2
      <4>2. row.start \in Nat /\ e \in Nat
        BY <1>e, <3>2
      <4> QED BY <4>1, <4>2
    <3>5. SinceIn(w, s, S1) = SinceIn(v, s, S) \cup {e}
      <4>1. SessionOf[e] = s
        BY DEF s
      <4> QED BY <3>1, <3>3, <3>4, <4>1 DEF SinceIn
    <3>6. SinceIn(v, s, S) \in SUBSET S
      BY DEF SinceIn
    <3>7. Newest(Keep, row.events, SinceIn(v, s, S)) /\ TellsStatus(row.status, SinceIn(v, s, S))
      BY <1>v, <2>1, <3>1 DEF RowsTell
    <3> QED BY <3>2, <3>5, <3>6, <3>7
  <2>2. CASE s \notin DOMAIN v.table
    <3>1. row = NewSession(e)
      BY <2>2 DEF Row
    <3> HIDE DEF row
    <3>2. row \in Rows /\ row.start = e /\ row.status = "observed" /\ row.events = <<>>
      BY <3>1, NewSessionIs
    <3>3. w.table[s].start = e
      BY <1>1, <3>2, RecordedIs
    <3>4. SinceIn(w, s, S1) = {} \cup {e}
      <4>1. \A x \in S : ~ (x >= e)
        BY <1>e
      <4>2. e >= e
        BY <1>e
      <4> QED BY <3>3, <4>1, <4>2 DEF SinceIn
    <3>5. {} \in SUBSET S
      OBVIOUS
    <3> QED BY <3>2, <3>4, <3>5, NoneTells
  <2> QED BY <2>1, <2>2
<1>5. /\ w.table[s].start \in S1 /\ SessionOf[w.table[s].start] = s
      /\ Newest(Keep, w.table[s].events, SinceIn(w, s, S1))
      /\ TellsStatus(w.table[s].status, SinceIn(w, s, S1))
  <2>1. PICK X \in SUBSET S : /\ row \in Rows /\ row.start \in S1 /\ SessionOf[row.start] = s
                              /\ Newest(Keep, row.events, X) /\ TellsStatus(row.status, X)
                              /\ SinceIn(w, s, S1) = X \cup {e}
    BY <1>4
  <2> HIDE DEF row, s, S1
  <2>2. row.events \in Seq(Events) /\ X \in SUBSET Events /\ \A x \in X : x < e
    BY <2>1 DEF Rows
  <2>3. /\ w.table[s].start = row.start /\ w.table[s].status = StatusAfter(row.status, KindOf[e])
        /\ w.table[s].events = Append(IF Len(row.events) >= Keep THEN Tail(row.events) ELSE row.events, e)
    BY <1>1, <2>1, RecordedIs
  <2>4. Newest(Keep, w.table[s].events, X \cup {e})
    BY <2>1, <2>2, <2>3, NewestNext
  <2>5. TellsStatus(w.table[s].status, X \cup {e})
    <3>1. TellsStatus(StatusAfter(row.status, KindOf[e]), X \cup {e})
      BY <2>1, <2>2, StatusNext
    <3> QED BY <2>3, <3>1
  <2> QED BY <2>1, <2>3, <2>4, <2>5
<1> HIDE DEF s, S1
<1>6. RowsTell(w, S1)
  BY <1>1, <1>3, <1>5 DEF RowsTell
<1> QED BY <1>6 DEF w, S1

\* The ring after one more event.
LEMMA RingNext ==
  ASSUME NEW v, NEW S \in SUBSET Events, ViewInv(v, S), NEW e \in Events, \A x \in S : x < e
  PROVE  RingNames(AddEvent(v, e)) /\ RingOrder(AddEvent(v, e))
<1> DEFINE s == SessionOf[e]
           w == AddEvent(v, e)
           D == DOMAIN v.table
           n == Len(v.order)
<1>v. v \in Views /\ RingNames(v) /\ RingOrder(v) /\ RowsTell(v, S) /\ v.order \in Seq(Names)
  BY DEF ViewInv, Views
<1>1. /\ DOMAIN w.table = KeptBy(v, s) \cup {s}
      /\ \A x \in KeptBy(v, s) \ {s} : w.table[x] = v.table[x]
      /\ w.table[s] = Recorded(Row(v, s, e), e)
      /\ Staying(v, s) => w.order = v.order /\ w.next = v.next /\ w.evicted = v.evicted
      /\ Joining(v, s) => w.order = Append(v.order, s) /\ w.next = v.next /\ w.evicted = v.evicted
      /\ Evicting(v, s) => /\ w.order = [v.order EXCEPT ![v.next] = s]
                           /\ w.next = (v.next % Window) + 1 /\ w.evicted
  BY <1>v, AddEventIs
<1>s. s \in Names
  BY DEF Names
<1> HIDE DEF w, s
<1>e. Events \in SUBSET Nat
  BY DEF Events
<1>2. \A i \in 1..n : v.order[i] \in D /\ BeganIn(v, i) \in Nat /\ BeganIn(v, i) < e
  <2>1. ASSUME NEW i \in 1..n PROVE v.order[i] \in D
    BY <1>v DEF RingNames
  <2>2. ASSUME NEW x \in D PROVE v.table[x].start \in S
    BY <1>v DEF RowsTell
  <2>3. ASSUME NEW i \in 1..n PROVE BeganIn(v, i) \in S
    BY <2>1, <2>2 DEF BeganIn
  <2> QED BY <1>e, <2>1, <2>3
<1>3. /\ v.next \in 1..Window /\ n <= Window /\ n \in Nat /\ Window \in Nat \ {0}
      /\ n < Window => v.next = 1
      /\ {v.order[i] : i \in 1..n} = D
      /\ \A i, j \in 1..n : v.order[i] = v.order[j] => i = j
      /\ IsFiniteSet(D) /\ Cardinality(D) = n
  BY SMTT(30), <1>v, DashboardAssumption DEF RingNames
<1>4. \A i, j \in 1..n : i < j => (BeganIn(v, i) < BeganIn(v, j) <=> ~ (i < v.next /\ v.next <= j))
  BY <1>v DEF RingOrder
<1>5. CASE Staying(v, s)
  <2>1. /\ w.order = v.order /\ w.next = v.next /\ KeptBy(v, s) = D /\ s \in D
        /\ DOMAIN w.table = D
    BY <1>1, <1>5 DEF Staying, KeptBy
  <2>2. w.table[s].start = v.table[s].start
    <3>1. v.table[s] \in Rows /\ Row(v, s, e) = v.table[s]
      BY <1>v, <1>5, StartIn DEF Staying, Row
    <3> QED BY <1>1, <3>1, RecordedIs
  <2>3. \A i \in 1..n : BeganIn(w, i) = BeganIn(v, i)
    BY <1>1, <1>2, <2>1, <2>2 DEF BeganIn
  <2>4. RingNames(w)
    BY <1>3, <2>1 DEF RingNames
  <2>5. RingOrder(w)
    BY <1>4, <2>1, <2>3 DEF RingOrder
  <2> QED BY <2>4, <2>5 DEF w
<1>6. ASSUME ~ Staying(v, s) PROVE w.table[s].start = e
  <2>1. Row(v, s, e) = NewSession(e)
    BY <1>6 DEF Staying, Row
  <2> QED BY <1>1, <2>1, NewSessionIs, RecordedIs
<1>7. CASE Joining(v, s)
  <2>1. /\ w.order = Append(v.order, s) /\ w.next = v.next /\ KeptBy(v, s) = D /\ s \notin D
        /\ n < Window /\ v.next = 1
    BY <1>1, <1>3, <1>7 DEF Joining, KeptBy
  <2>2. /\ Len(w.order) = n + 1 /\ w.order[n + 1] = s
        /\ \A i \in 1..n : w.order[i] = v.order[i]
    BY <1>v, <1>s, <2>1
  <2>3. 1..n + 1 = 1..n \cup {n + 1}
    BY <1>3
  <2>4. DOMAIN w.table = D \cup {s}
    BY <1>1, <2>1
  <2>5. Cardinality(DOMAIN w.table) = n + 1 /\ IsFiniteSet(DOMAIN w.table)
    <3> HIDE DEF D, n
    <3>1. IsFiniteSet(D \cup {s}) /\ (s \notin D => Cardinality(D \cup {s}) = Cardinality(D) + 1)
      BY <1>3, FS_AddElement
    <3> QED BY <1>3, <2>1, <2>4, <3>1
  <2>6. {w.order[i] : i \in 1..n + 1} = D \cup {s}
    <3>1. \A i \in 1..n + 1 : w.order[i] \in D \cup {s}
      BY <1>2, <2>2, <2>3
    <3>2. ASSUME NEW x \in D PROVE \E i \in 1..n + 1 : w.order[i] = x
      <4>1. PICK i \in 1..n : v.order[i] = x
        BY <1>3
      <4> QED BY <2>2, <2>3, <4>1
    <3>3. n + 1 \in 1..n + 1
      BY <2>3
    <3> QED BY <2>2, <3>1, <3>2, <3>3
  <2>7. \A i, j \in 1..n + 1 : w.order[i] = w.order[j] => i = j
    BY <1>2, <1>3, <2>1, <2>2, <2>3
  <2>8. RingNames(w)
    BY <1>3, <2>1, <2>2, <2>4, <2>5, <2>6, <2>7 DEF RingNames
  <2>9. /\ \A i \in 1..n : BeganIn(w, i) = BeganIn(v, i)
        /\ BeganIn(w, n + 1) = e
    <3>1. ~ Staying(v, s)
      BY <2>1 DEF Staying
    <3>2. ASSUME NEW i \in 1..n PROVE BeganIn(w, i) = BeganIn(v, i)
      <4>1. v.order[i] \in KeptBy(v, s) \ {s}
        BY <1>2, <2>1
      <4> QED BY <1>1, <2>2, <4>1 DEF BeganIn
    <3> QED BY <1>6, <2>2, <3>1, <3>2 DEF BeganIn
  <2>10. RingOrder(w)
    <3> SUFFICES ASSUME NEW i \in 1..n + 1, NEW j \in 1..n + 1, i < j
                 PROVE  BeganIn(w, i) < BeganIn(w, j) <=> ~ (i < w.next /\ w.next <= j)
      BY <2>2 DEF RingOrder
    <3>1. ~ (i < w.next /\ w.next <= j)
      BY <2>1
    <3>2. i \in 1..n /\ (j \in 1..n \/ j = n + 1)
      BY <1>3, <2>3
    <3>3. BeganIn(w, i) < BeganIn(w, j)
      <4>1. CASE j = n + 1
        BY <1>2, <2>9, <3>2, <4>1
      <4>2. CASE j \in 1..n
        BY <1>4, <2>1, <2>9, <3>1, <3>2, <4>2
      <4> QED BY <3>2, <4>1, <4>2
    <3> QED BY <3>1, <3>3
  <2> QED BY <2>8, <2>10 DEF w
<1>8. CASE Evicting(v, s)
  <2> DEFINE k == v.next
             old == v.order[k]
  <2>1. /\ w.order = [v.order EXCEPT ![k] = s] /\ w.next = (k % Window) + 1
        /\ KeptBy(v, s) = D \ {old} /\ s \notin D
    BY <1>1, <1>8 DEF Evicting, KeptBy
  <2>2. n = Window /\ k \in 1..n /\ old \in D
    <3>1. ~ (n < Window)
      BY <1>3, <1>8 DEF Evicting
    <3> QED BY <1>2, <1>3, <3>1
  <2>3. /\ Len(w.order) = n /\ w.order[k] = s
        /\ \A i \in 1..n : i # k => w.order[i] = v.order[i]
    BY <1>v, <1>s, <2>1, <2>2
  <2>4. DOMAIN w.table = (D \ {old}) \cup {s}
    BY <1>1, <2>1
  <2>5. IsFiniteSet(DOMAIN w.table) /\ Cardinality(DOMAIN w.table) = n
    <3> DEFINE E == D \ {old}
    <3>0. n \in Nat /\ IsFiniteSet(D) /\ Cardinality(D) = n /\ old \in D /\ s \notin E /\ DOMAIN w.table = E \cup {s}
      BY <1>3, <2>1, <2>2, <2>4
    <3>1. IsFiniteSet(E) /\ (old \in D => Cardinality(E) = Cardinality(D) - 1)
      <4> HIDE DEF D, n, old, k
      <4> QED BY <3>0, FS_RemoveElement
    <3> HIDE DEF D, n, old, k, E
    <3>3. IsFiniteSet(E \cup {s}) /\ (s \notin E => Cardinality(E \cup {s}) = Cardinality(E) + 1)
      BY <3>1, FS_AddElement
    <3> QED BY <3>0, <3>1, <3>3
  <2> HIDE DEF k, old, n
  <2>6. {w.order[i] : i \in 1..n} = (D \ {old}) \cup {s}
    <3>1. ASSUME NEW i \in 1..n PROVE w.order[i] \in (D \ {old}) \cup {s}
      <4>1. CASE i = k
        BY <2>3, <4>1
      <4>2. CASE i # k
        BY <1>2, <1>3, <2>2, <2>3, <4>2 DEF old, n
      <4> QED BY <4>1, <4>2
    <3>2. ASSUME NEW x \in D \ {old} PROVE \E i \in 1..n : w.order[i] = x
      <4>1. PICK i \in 1..n : v.order[i] = x
        BY <1>3 DEF n
      <4>2. i # k
        BY <4>1 DEF old
      <4> QED BY <2>3, <4>1, <4>2
    <3> QED BY <2>2, <2>3, <3>1, <3>2
  <2>7. \A i, j \in 1..n : w.order[i] = w.order[j] => i = j
    <3> SUFFICES ASSUME NEW i \in 1..n, NEW j \in 1..n, w.order[i] = w.order[j] PROVE i = j
      OBVIOUS
    <3>1. v.order[i] # s /\ v.order[j] # s
      BY <1>2, <2>1 DEF n
    <3> QED BY <1>3, <2>3, <3>1 DEF n
  <2>8. /\ w.next \in 1..Window
        /\ k < n => w.next = k + 1
        /\ k = n => w.next = 1
    <3>1. CASE k < n
      <4>1. k % Window = k
        BY <1>3, <2>2, <3>1 DEF n
      <4> QED BY <1>3, <2>1, <2>2, <3>1, <4>1
    <3>2. CASE k = n
      <4>1. k % Window = 0
        BY <1>3, <2>2, <3>2
      <4> QED BY <1>3, <2>1, <2>2, <3>2, <4>1
    <3> QED BY <1>3, <2>2, <3>1, <3>2 DEF n
  <2>9. RingNames(w)
    BY <1>3, <2>2, <2>3, <2>4, <2>5, <2>6, <2>7, <2>8 DEF RingNames, n
  <2>10. /\ \A i \in 1..n : i # k => BeganIn(w, i) = BeganIn(v, i)
         /\ BeganIn(w, k) = e
    <3>1. ~ Staying(v, s)
      BY <2>1 DEF Staying
    <3>2. ASSUME NEW i \in 1..n, i # k PROVE BeganIn(w, i) = BeganIn(v, i)
      <4>1. v.order[i] \in KeptBy(v, s) \ {s}
        BY <1>2, <1>3, <2>1, <2>2, <3>2 DEF n, old
      <4> QED BY <1>1, <2>3, <3>2, <4>1 DEF BeganIn
    <3> QED BY <1>6, <2>3, <3>1, <3>2 DEF BeganIn
  <2>11. RingOrder(w)
    <3> SUFFICES ASSUME NEW i \in 1..n, NEW j \in 1..n, i < j
                 PROVE  BeganIn(w, i) < BeganIn(w, j) <=> ~ (i < w.next /\ w.next <= j)
      BY <2>3 DEF RingOrder
    <3>n. n \in Nat /\ k \in 1..n /\ i \in 1..n /\ j \in 1..n
      BY <1>3, <2>2 DEF n
    <3>1. CASE i # k /\ j # k
      <4>1. (i < w.next /\ w.next <= j) <=> (i < k /\ k <= j)
        BY <2>8, <3>n, <3>1
      <4>2. BeganIn(v, i) < BeganIn(v, j) <=> ~ (i < k /\ k <= j)
        BY <1>4 DEF n, k
      <4> QED BY <2>10, <3>1, <4>1, <4>2
    <3>2. CASE j = k
      <4>1. ~ (i < w.next /\ w.next <= j)
        BY <2>8, <3>n, <3>2
      <4>2. i \in 1..n /\ i # k
        BY <3>n, <3>2
      <4>3. BeganIn(w, i) = BeganIn(v, i) /\ BeganIn(v, i) < e /\ BeganIn(w, j) = e
        BY <1>2, <2>10, <3>2, <4>2 DEF n
      <4> QED BY <4>1, <4>3
    <3>3. CASE i = k
      <4>1. i < w.next /\ w.next <= j
        BY <2>8, <3>n, <3>3
      <4>2. j \in 1..n /\ j # k
        BY <3>n, <3>3
      <4>3. BeganIn(w, j) = BeganIn(v, j) /\ BeganIn(v, j) < e /\ BeganIn(v, j) \in Nat /\ BeganIn(w, i) = e
        BY <1>2, <2>10, <3>3, <4>2 DEF n
      <4>4. ~ (e < BeganIn(v, j))
        BY <1>e, <4>3
      <4> QED BY <4>1, <4>3, <4>4
    <3> QED BY <3>1, <3>2, <3>3
  <2> QED BY <2>9, <2>11 DEF w
<1> QED BY <1>5, <1>7, <1>8 DEF Staying, Joining, Evicting

LEMMA ViewNext ==
  ASSUME NEW v, NEW S \in SUBSET Events, ViewInv(v, S), NEW e \in Events, \A x \in S : x < e
  PROVE  /\ ViewInv(AddEvent(v, e), S \cup {e})
         /\ SessionOf[e] \in DOMAIN AddEvent(v, e).table
<1> DEFINE s == SessionOf[e]
           w == AddEvent(v, e)
<1>v. v \in Views /\ NoneEvicted(v, S)
  BY DEF ViewInv
<1>1. /\ w \in Views /\ DOMAIN w.table = KeptBy(v, s) \cup {s}
      /\ \A x \in KeptBy(v, s) \ {s} : w.table[x] = v.table[x]
      /\ w.table[s] = Recorded(Row(v, s, e), e)
      /\ Staying(v, s) => w.evicted = v.evicted
      /\ Joining(v, s) => w.evicted = v.evicted
      /\ Evicting(v, s) => w.evicted
  BY <1>v, AddEventIs
<1> HIDE DEF w
<1>e. Events \in SUBSET Nat
  BY DEF Events
<1>2. NoneEvicted(w, S \cup {e})
  <2> SUFFICES ASSUME ~ w.evicted, NEW x \in S \cup {e}
               PROVE  SessionOf[x] \in DOMAIN w.table /\ w.table[SessionOf[x]].start <= x
    BY DEF NoneEvicted
  <2>1. ~ Evicting(v, s) /\ ~ v.evicted
    BY <1>1 DEF Staying, Joining, Evicting
  <2>2. KeptBy(v, s) = DOMAIN v.table
    BY <2>1 DEF Evicting, KeptBy
  <2>3. ASSUME NEW y \in S PROVE SessionOf[y] \in DOMAIN v.table /\ v.table[SessionOf[y]].start <= y
    BY <1>v, <2>1 DEF NoneEvicted
  <2>4. CASE x \in S /\ SessionOf[x] # s
    BY <1>1, <2>2, <2>3, <2>4
  <2>5. CASE SessionOf[x] = s /\ s \in DOMAIN v.table
    <3>1. Row(v, s, e) = v.table[s] /\ v.table[s] \in Rows /\ v.table[s].start \in Events
      BY <1>v, <2>5, StartIn DEF Row
    <3>2. w.table[s].start = v.table[s].start
      BY SMTT(30), <1>1, <3>1, RecordedIs
    <3>3. w.table[s].start <= x
      <4>1. CASE x \in S
        BY <2>3, <2>5, <3>2, <4>1
      <4>2. CASE x = e
        <5>1. v.table[s].start \in S
          BY <2>5 DEF ViewInv, RowsTell
        <5>2. v.table[s].start < e /\ v.table[s].start \in Nat /\ e \in Nat
          BY <1>e, <3>1, <5>1
        <5>3. v.table[s].start <= e
          BY <5>2
        <5> QED BY <3>2, <4>2, <5>3
      <4> QED BY <4>1, <4>2
    <3> QED BY <1>1, <2>5, <3>3
  <2>6. CASE SessionOf[x] = s /\ s \notin DOMAIN v.table
    <3>1. x = e
      BY <2>3, <2>6
    <3>2. w.table[s].start = e
      BY <1>1, <2>6, NewSessionIs, RecordedIs DEF Row
    <3> QED BY <1>1, <1>e, <2>6, <3>1, <3>2
  <2> QED BY <2>4, <2>5, <2>6
<1>3. RowsTell(w, S \cup {e}) /\ RingNames(w) /\ RingOrder(w)
  BY RowsNext, RingNext DEF w
<1> QED BY <1>1, <1>2, <1>3 DEF ViewInv, w

\* The view of all events.
LEMMA SessionsIs ==
  ASSUME NEW events \in Seq(Events), Ascends(events)
  PROVE  /\ ViewInv(Sessions(events), Elements(events))
         /\ events # <<>> => SessionOf[events[Len(events)]] \in DOMAIN Sessions(events).table
<1> DEFINE m == Len(events)
           V == CHOOSE view : view = [n \in 0..m |->
                  IF n = 0 THEN NoSessions ELSE AddEvent(view[n - 1], events[n])]
           g == [n \in 1..m |-> [x \in Views |-> AddEvent(x, events[n])]]
<1>m. m \in Nat /\ \A n \in 1..m : events[n] \in Events
  OBVIOUS
<1>0. Sessions(events) = V[m]
  BY DEF Sessions
<1> HIDE DEF m
<1>1. g \in Steppers(m, Views)
  BY <1>m, AddEventIs DEF Steppers
<1>2. NoSessions \in Views
  BY NothingSeen DEF ViewInv
<1>3. PICK f : Recursive(f, m, Views, NoSessions, g)
  <2> HIDE DEF g
  <2> QED BY <1>m, <1>1, <1>2, IntervalRecursion
<1>4. f = [n \in 0..m |-> IF n = 0 THEN NoSessions ELSE AddEvent(f[n - 1], events[n])]
  <2>1. f \in [0..m -> Views] /\ f[0] = NoSessions /\ \A n \in 1..m : f[n] = g[n][f[n - 1]]
    BY <1>3 DEF Recursive
  <2>2. ASSUME NEW n \in 1..m PROVE f[n] = AddEvent(f[n - 1], events[n])
    <3>1. n - 1 \in 0..m
      BY <1>m
    <3>2. f[n - 1] \in Views
      BY <2>1, <3>1
    <3> QED BY <2>1, <3>2
  <2>3. ASSUME NEW n \in 0..m, n # 0 PROVE n \in 1..m
    BY <1>m, <2>3
  <2> QED BY <2>1, <2>2, <2>3
<1>5. V = [n \in 0..m |-> IF n = 0 THEN NoSessions ELSE AddEvent(V[n - 1], events[n])]
  BY <1>4
<1> HIDE DEF V
<1>6. V[0] = NoSessions
  BY <1>m, <1>5
<1>7. ASSUME NEW n \in 1..m PROVE V[n] = AddEvent(V[n - 1], events[n])
  <2>1. n \in 0..m /\ n # 0
    BY <1>m
  <2> QED BY <1>5, <2>1
<1> DEFINE So(n) == {events[i] : i \in 1..n}
           T == {n \in 0..m : /\ ViewInv(V[n], So(n))
                              /\ n > 0 => SessionOf[events[n]] \in DOMAIN V[n].table}
<1>8. 0 \in T
  <2>1. 1..0 = {}
    OBVIOUS
  <2>2. So(0) = {}
    BY <2>1
  <2>3. 0 \in 0..m /\ ~ (0 > 0)
    BY <1>m
  <2> HIDE DEF So
  <2> QED BY <1>6, <2>2, <2>3, NothingSeen
<1>9. ASSUME NEW n \in T, n < m PROVE n + 1 \in T
  <2>1. n \in 0..m /\ ViewInv(V[n], So(n))
    BY <1>9
  <2>2. n + 1 \in 1..m /\ (n + 1) - 1 = n /\ n + 1 \in 0..m /\ 1..n + 1 = 1..n \cup {n + 1}
    BY <1>m, <1>9, <2>1
  <2>3. V[n + 1] = AddEvent(V[n], events[n + 1]) /\ events[n + 1] \in Events
    BY <1>m, <1>7, <2>2
  <2>4. ASSUME NEW i \in 1..n PROVE events[i] \in Events /\ events[i] < events[n + 1]
    <3>1. i \in 1..m /\ i < n + 1
      BY <1>m, <2>1
    <3> QED BY <1>m, <2>2, <3>1 DEF Ascends, m
  <2>5. So(n) \in SUBSET Events /\ \A x \in So(n) : x < events[n + 1]
    BY <2>4
  <2>6. So(n + 1) = So(n) \cup {events[n + 1]}
    BY <2>2
  <2> HIDE DEF So
  <2>7. ViewInv(V[n + 1], So(n + 1)) /\ SessionOf[events[n + 1]] \in DOMAIN V[n + 1].table
    BY <2>1, <2>3, <2>5, <2>6, ViewNext
  <2> QED BY <2>2, <2>7
<1>10. T = 0..m
  <2> HIDE DEF T
  <2>1. T \in SUBSET (0..m)
    BY DEF T
  <2> QED BY <1>m, <1>8, <1>9, <2>1, IntervalInduction
<1>11. m \in T
  <2> HIDE DEF T
  <2> QED BY <1>m, <1>10
<1>12. So(m) = Elements(events)
  BY DEF Elements, m
<1>13. ViewInv(V[m], Elements(events)) /\ (m > 0 => SessionOf[events[m]] \in DOMAIN V[m].table)
  BY <1>11, <1>12
<1>14. events # <<>> => m > 0
  BY DEF m
<1> QED BY <1>0, <1>13, <1>14 DEF m
------------------------------------------------------------------------------
(***************************************************************************)
(* The log's order: what a reader finds is good, and every event of it     *)
(* comes before every event that is still to be stored.                    *)
(***************************************************************************)
EventsOf(entries) == {entries[i].event : i \in 1..Len(entries)}

Before(S, T) == \A x \in S, y \in T : x < y

Ordered ==
  /\ Good(Retained)
  /\ Buffered \in Seq(Events) /\ Ascends(Buffered)
  /\ Before(EventsOf(Retained), Elements(Buffered))
  /\ \A x \in EventsOf(Retained) \cup Elements(Buffered) : x <= emitted

\* The events that the file at path holds, or may yet receive.
Coming == EventsOf(Entries(live)) \cup Elements(Buffered) \cup (emitted + 1..MaxEvents)

LEMMA GoodAppend ==
  ASSUME NEW s, Good(s), NEW e \in Events, NEW n \in 1..Length[e], Before(EventsOf(s), {e})
  PROVE  /\ Good(Append(s, Entry(e, n)))
         /\ EventsOf(Append(s, Entry(e, n))) = EventsOf(s) \cup {e}
<1> DEFINE t == Append(s, Entry(e, n))
           m == Len(s)
<1>1. s \in Seq(EntrySet) /\ m \in Nat
  BY DEF Good
<1>2. Entry(e, n) \in EntrySet /\ Entry(e, n).event = e /\ Entry(e, n).bytes = n
  BY LengthType DEF Entry, EntrySet
<1>3. /\ t \in Seq(EntrySet) /\ Len(t) = m + 1 /\ t[m + 1] = Entry(e, n)
      /\ \A i \in 1..m : t[i] = s[i]
  BY <1>1, <1>2
<1> HIDE DEF t
<1>4. 1..Len(t) = 1..m \cup {m + 1}
  BY <1>1, <1>3
<1>5. EventsOf(t) = EventsOf(s) \cup {e}
  <2>1. \A i \in 1..Len(t) : t[i].event \in EventsOf(s) \cup {e}
    BY <1>2, <1>3, <1>4 DEF EventsOf
  <2>2. ASSUME NEW x \in EventsOf(s) \cup {e} PROVE \E i \in 1..Len(t) : t[i].event = x
    <3>1. CASE x = e
      BY <1>2, <1>3, <1>4, <3>1
    <3>2. CASE x \in EventsOf(s)
      <4>1. PICK i \in 1..m : s[i].event = x
        BY <3>2 DEF EventsOf
      <4> QED BY <1>3, <1>4, <4>1
    <3> QED BY <3>1, <3>2
  <2> QED BY <2>1, <2>2 DEF EventsOf
<1>6. ASSUME NEW i \in 1..Len(t) PROVE t[i].bytes \in 1..Length[t[i].event]
  <2>1. CASE i = m + 1
    BY <1>2, <1>3, <2>1
  <2>2. CASE i \in 1..m
    BY <1>3, <2>2 DEF Good
  <2> QED BY <1>4, <2>1, <2>2
<1>7. ASSUME NEW i \in 1..Len(t), NEW j \in 1..Len(t), i < j PROVE t[i].event < t[j].event
  <2>1. i \in 1..m
    BY <1>1, <1>3, <1>7
  <2>2. CASE j = m + 1
    <3>1. s[i].event \in EventsOf(s)
      BY <2>1 DEF EventsOf
    <3> QED BY <1>2, <1>3, <2>1, <2>2, <3>1 DEF Before
  <2>3. CASE j \in 1..m
    BY <1>3, <1>7, <2>1, <2>3 DEF Good
  <2> QED BY <1>4, <2>2, <2>3
<1>8. Good(t)
  BY <1>3, <1>6, <1>7 DEF Good
<1> QED BY <1>5, <1>8 DEF t

LEMMA GoodSuffix ==
  ASSUME NEW s, Good(s), NEW k \in 1..Len(s)
  PROVE  /\ Good(SubSeq(s, k, Len(s)))
         /\ EventsOf(SubSeq(s, k, Len(s))) \in SUBSET EventsOf(s)
<1> DEFINE t == SubSeq(s, k, Len(s))
           m == Len(s)
<1>1. s \in Seq(EntrySet) /\ m \in Nat
  BY DEF Good
<1>2. /\ t \in Seq(EntrySet) /\ Len(t) = m - k + 1
      /\ \A i \in 1..Len(t) : t[i] = s[k + i - 1]
  BY <1>1
<1> HIDE DEF t
<1>3. \A i \in 1..Len(t) : k + i - 1 \in 1..m
  BY <1>1, <1>2
<1>4. Good(t)
  <2>1. ASSUME NEW i \in 1..Len(t) PROVE t[i].bytes \in 1..Length[t[i].event]
    BY <1>2, <1>3 DEF Good
  <2>2. ASSUME NEW i \in 1..Len(t), NEW j \in 1..Len(t), i < j PROVE t[i].event < t[j].event
    <3>1. k + i - 1 \in 1..m /\ k + j - 1 \in 1..m /\ k + i - 1 < k + j - 1
      BY <1>1, <1>2, <1>3, <2>2
    <3> QED BY <1>2, <3>1 DEF Good
  <2> QED BY <1>2, <2>1, <2>2 DEF Good
<1>5. EventsOf(t) \in SUBSET EventsOf(s)
  BY <1>2, <1>3 DEF EventsOf
<1> QED BY <1>4, <1>5 DEF t

\* Of two good files that are good in a row each is good, and the first is before the second.
LEMMA GoodParts ==
  ASSUME NEW s \in Seq(EntrySet), NEW t \in Seq(EntrySet), Good(s \o t)
  PROVE  /\ Good(s) /\ Good(t) /\ Before(EventsOf(s), EventsOf(t))
         /\ EventsOf(s \o t) = EventsOf(s) \cup EventsOf(t)
<1> DEFINE u == s \o t
           m == Len(s)
           n == Len(t)
<1>1. /\ u \in Seq(EntrySet) /\ Len(u) = m + n /\ m \in Nat /\ n \in Nat
      /\ \A i \in 1..m : u[i] = s[i]
      /\ \A i \in 1..n : u[m + i] = t[i]
  OBVIOUS
<1>u. Good(u)
  OBVIOUS
<1> HIDE DEF u
<1>2. /\ \A i \in 1..m : i \in 1..Len(u)
      /\ \A i \in 1..n : m + i \in 1..Len(u)
      /\ \A i \in 1..Len(u) : i \in 1..m \/ i - m \in 1..n
  BY <1>1
<1>3. Good(s)
  <2>1. ASSUME NEW i \in 1..m PROVE s[i].bytes \in 1..Length[s[i].event]
    BY <1>1, <1>2, <1>u DEF Good
  <2>2. ASSUME NEW i \in 1..m, NEW j \in 1..m, i < j PROVE s[i].event < s[j].event
    BY <1>1, <1>2, <1>u, <2>2 DEF Good
  <2> QED BY <2>1, <2>2 DEF Good
<1>4. Good(t)
  <2>1. ASSUME NEW i \in 1..n PROVE t[i].bytes \in 1..Length[t[i].event]
    BY <1>1, <1>2, <1>u DEF Good
  <2>2. ASSUME NEW i \in 1..n, NEW j \in 1..n, i < j PROVE t[i].event < t[j].event
    <3>1. m + i < m + j
      BY <1>1, <2>2
    <3> QED BY <1>1, <1>2, <1>u, <3>1 DEF Good
  <2> QED BY <2>1, <2>2 DEF Good
<1>5. ASSUME NEW i \in 1..m, NEW j \in 1..n PROVE s[i].event < t[j].event
  <2>1. i < m + j
    BY <1>1
  <2> QED BY <1>1, <1>2, <1>u, <2>1 DEF Good
<1>6. Before(EventsOf(s), EventsOf(t))
  BY <1>5 DEF Before, EventsOf
<1>7. EventsOf(u) = EventsOf(s) \cup EventsOf(t)
  <2>1. ASSUME NEW i \in 1..Len(u) PROVE u[i].event \in EventsOf(s) \cup EventsOf(t)
    <3>1. CASE i \in 1..m
      BY <1>1, <3>1 DEF EventsOf
    <3>2. CASE i - m \in 1..n
      <4>1. u[m + (i - m)] = t[i - m] /\ m + (i - m) = i
        BY <1>1, <3>2
      <4> QED BY <3>2, <4>1 DEF EventsOf
    <3> QED BY <1>2, <3>1, <3>2
  <2>2. ASSUME NEW i \in 1..m PROVE s[i].event \in EventsOf(u)
    BY <1>1, <1>2 DEF EventsOf
  <2>3. ASSUME NEW i \in 1..n PROVE t[i].event \in EventsOf(u)
    <3>1. m + i \in 1..Len(u) /\ u[m + i] = t[i]
      BY <1>1, <1>2
    <3> QED BY <3>1 DEF EventsOf
  <2> QED BY <2>1, <2>2, <2>3 DEF EventsOf
<1> QED BY <1>3, <1>4, <1>6, <1>7 DEF u

LEMMA HeadFirst ==
  ASSUME NEW s \in Seq(Events), Ascends(s), s # <<>>
  PROVE  /\ Head(s) \in Events /\ Tail(s) \in Seq(Events) /\ Ascends(Tail(s))
         /\ Elements(s) = {Head(s)} \cup Elements(Tail(s))
         /\ Before({Head(s)}, Elements(Tail(s)))
<1> DEFINE t == Tail(s)
           n == Len(s)
<1>1. /\ Head(s) = s[1] /\ Head(s) \in Events /\ t \in Seq(Events) /\ n \in Nat \ {0}
      /\ Len(t) = n - 1 /\ \A i \in 1..n - 1 : t[i] = s[i + 1]
  OBVIOUS
<1> HIDE DEF t
<1>2. /\ \A i \in 1..n - 1 : i + 1 \in 1..n /\ 1 < i + 1
      /\ \A i \in 1..n : i = 1 \/ (i - 1 \in 1..n - 1 /\ (i - 1) + 1 = i)
      /\ 1 \in 1..n
  BY <1>1
<1>3. Ascends(t)
  <2>1. ASSUME NEW i \in 1..Len(t), NEW j \in 1..Len(t), i < j PROVE t[i] < t[j]
    <3>1. i + 1 < j + 1
      BY <1>1, <2>1
    <3> QED BY <1>1, <1>2, <3>1 DEF Ascends
  <2> QED BY <2>1 DEF Ascends
<1>4. Elements(s) = {Head(s)} \cup Elements(t)
  <2>1. ASSUME NEW i \in 1..n PROVE s[i] \in {Head(s)} \cup Elements(t)
    <3>1. CASE i = 1
      BY <1>1, <3>1
    <3>2. CASE i # 1
      <4>1. i - 1 \in 1..Len(t) /\ t[i - 1] = s[i]
        BY <1>1, <1>2, <3>2
      <4> QED BY <4>1 DEF Elements
    <3> QED BY <3>1, <3>2
  <2>2. ASSUME NEW i \in 1..Len(t) PROVE t[i] \in Elements(s)
    BY <1>1, <1>2 DEF Elements
  <2>3. Head(s) \in Elements(s)
    BY <1>1, <1>2 DEF Elements
  <2> QED BY <2>1, <2>2, <2>3 DEF Elements
<1>5. Before({Head(s)}, Elements(t))
  BY <1>1, <1>2 DEF Before, Elements, Ascends
<1> QED BY <1>1, <1>3, <1>4, <1>5 DEF t

LEMMA ElementTypes ==
  /\ \A s \in Seq(Events) : Elements(s) \in SUBSET Events
  /\ \A s \in Seq(EntrySet) : EventsOf(s) \in SUBSET Events
  /\ Elements(<<>>) = {} /\ EventsOf(<<>>) = {} /\ Ascends(<<>>) /\ <<>> \in Seq(Events)
<1>1. ASSUME NEW s \in Seq(EntrySet) PROVE EventsOf(s) \in SUBSET Events
  BY EntryIs DEF EventsOf
<1> QED BY <1>1 DEF Elements, EventsOf, Ascends

\* The number of events that were emitted never falls.
LEMMA EmittedGrows ==
  ASSUME Inv, [Next]_vars
  PROVE  emitted \in Nat /\ emitted' \in Nat /\ emitted <= emitted' /\ MaxEvents \in Nat
<1>1. emitted \in Nat /\ MaxEvents \in Nat
  BY EventLogAssumption DEF Inv, TypeOK
<1>2. emitted' = emitted \/ emitted' = emitted + 1
  <2>1. ASSUME NEW g \in Emitters, EmitStep(g) PROVE emitted' = emitted \/ emitted' = emitted + 1
    BY <2>1 DEF EmitStep, BeginEmit, CheckOpen, Send
  <2>2. CASE BeginClose \/ CloseStep \/ TakeError \/ UNCHANGED vars
    BY <2>2 DEF BeginClose, CloseStep, LockClose, CloseQueue, Closed, TakeError, vars
  <2>3. CASE WriterStep
    BY <2>3 DEF WriterStep, Stat, Receive, ReceiveClosed, CloseFile, Remove, Rename, Create, Write, Sync
  <2>4. CASE Crash \/ Exit \/ Start
    BY <2>4 DEF Crash, Exit, Start, Gone
  <2> QED BY <2>1, <2>2, <2>3, <2>4 DEF Next
<1> QED BY <1>1, <1>2

\* One more record in the files, or a part of one.
LEMMA StoreOrdered ==
  ASSUME Ordered, Buffered # <<>>, NEW n \in 1..Length[Head(Buffered)],
         Retained' = Append(Retained, J!Entry(Head(Buffered), n)),
         Buffered' = Tail(Buffered) \/ Buffered' = <<>>,
         emitted \in Nat, emitted' \in Nat, emitted <= emitted'
  PROVE  Ordered' /\ Elements(Buffered') \in SUBSET Elements(Buffered)
<1> DEFINE h == Head(Buffered)
<1>1. /\ Good(Retained) /\ Buffered \in Seq(Events) /\ Ascends(Buffered)
      /\ Before(EventsOf(Retained), Elements(Buffered))
      /\ \A x \in EventsOf(Retained) \cup Elements(Buffered) : x <= emitted
  BY DEF Ordered
<1>2. /\ h \in Events /\ Tail(Buffered) \in Seq(Events) /\ Ascends(Tail(Buffered))
      /\ Elements(Buffered) = {h} \cup Elements(Tail(Buffered))
      /\ Before({h}, Elements(Tail(Buffered)))
  BY <1>1, HeadFirst
<1>3. Retained' = Append(Retained, Entry(h, n))
  BY DEF Entry, J!Entry
<1> HIDE DEF h
<1>4. n \in 1..Length[h]
  BY DEF h
<1>5. Before(EventsOf(Retained), {h})
  BY <1>1, <1>2 DEF Before
<1>6. Good(Retained') /\ EventsOf(Retained') = EventsOf(Retained) \cup {h}
  BY <1>1, <1>2, <1>3, <1>4, <1>5, GoodAppend
<1>7. /\ Buffered' \in Seq(Events) /\ Ascends(Buffered')
      /\ Elements(Buffered') \in SUBSET Elements(Tail(Buffered))
  BY <1>2, ElementTypes
<1>8. Before(EventsOf(Retained'), Elements(Buffered'))
  BY <1>1, <1>2, <1>6, <1>7 DEF Before
<1>9. \A x \in EventsOf(Retained') \cup Elements(Buffered') : x <= emitted'
  <2>1. EventsOf(Retained) \in SUBSET Events /\ Elements(Buffered) \in SUBSET Events
    BY <1>1, ElementTypes DEF Good
  <2>2. ASSUME NEW x \in EventsOf(Retained) \cup Elements(Buffered) PROVE x <= emitted'
    <3>1. x \in Nat /\ x <= emitted
      BY <1>1, <2>1 DEF Events
    <3> QED BY <3>1
  <2>3. EventsOf(Retained') \cup Elements(Buffered') \in SUBSET (EventsOf(Retained) \cup Elements(Buffered))
    BY <1>2, <1>6, <1>7
  <2> QED BY <2>2, <2>3
<1> QED BY <1>2, <1>6, <1>7, <1>8, <1>9 DEF Ordered

LEMMA NextOrdered ==
  ASSUME PInv, Ordered, [Next]_vars
  PROVE  /\ Ordered'
         /\ \A x \in Elements(Buffered') : x \in Elements(Buffered) \/ x \in emitted + 1..MaxEvents
<1>1. /\ Good(Retained) /\ Buffered \in Seq(Events) /\ Ascends(Buffered)
      /\ Before(EventsOf(Retained), Elements(Buffered))
      /\ \A x \in EventsOf(Retained) \cup Elements(Buffered) : x <= emitted
  BY DEF Ordered
<1>2. emitted \in Nat /\ emitted' \in Nat /\ emitted <= emitted' /\ MaxEvents \in Nat
  BY EmittedGrows DEF PInv, RInv
<1>3. EventsOf(Retained) \in SUBSET Events /\ Elements(Buffered) \in SUBSET Events
  BY <1>1, ElementTypes DEF Good
<1>4. \A x \in EventsOf(Retained) \cup Elements(Buffered) : x <= emitted'
  <2>1. ASSUME NEW x \in EventsOf(Retained) \cup Elements(Buffered) PROVE x <= emitted'
    <3>1. x \in Nat /\ x <= emitted
      BY <1>1, <1>3 DEF Events
    <3> QED BY <1>2, <3>1
  <2> QED BY <2>1
<1>5. CASE UNCHANGED <<Buffered, Retained>>
  BY <1>1, <1>4, <1>5 DEF Ordered
<1>6. CASE emitted' = emitted + 1 /\ J!Accept(emitted')
  <2>1. Buffered' = Append(Buffered, emitted') /\ Retained' = Retained
    BY <1>6 DEF J!Accept
  <2>2. emitted' \in Events
    <3>1. emitted' \in 0..MaxEvents
      BY NextInv DEF PInv, RInv, Inv, TypeOK
    <3> QED BY <1>2, <1>6, <3>1 DEF Events
  <2>3. \A x \in EventsOf(Retained) \cup Elements(Buffered) : x < emitted'
    <3>1. ASSUME NEW x \in EventsOf(Retained) \cup Elements(Buffered) PROVE x < emitted'
      <4>1. x \in Nat /\ x <= emitted
        BY <1>1, <1>3 DEF Events
      <4> QED BY <1>2, <1>6, <4>1
    <3> QED BY <3>1
  <2>4. /\ Buffered' \in Seq(Events) /\ Ascends(Buffered')
        /\ Elements(Buffered') = Elements(Buffered) \cup {emitted'}
    BY <1>1, <2>1, <2>2, <2>3, AppendAscends
  <2>5. Before(EventsOf(Retained'), Elements(Buffered'))
    BY <1>1, <2>1, <2>3, <2>4 DEF Before
  <2>6. \A x \in EventsOf(Retained') \cup Elements(Buffered') : x <= emitted'
    BY <1>2, <1>4, <2>1, <2>4
  <2>7. emitted' \in emitted + 1..MaxEvents
    BY <1>2, <1>6, <2>2 DEF Events
  <2> QED BY <1>1, <2>1, <2>4, <2>5, <2>6, <2>7 DEF Ordered
<1>7. CASE J!Store
  <2>1. /\ Buffered # <<>> /\ Buffered' = Tail(Buffered)
        /\ Retained' = Append(Retained, J!Entry(Head(Buffered), Length[Head(Buffered)]))
    BY <1>7 DEF J!Store
  <2>2. Head(Buffered) \in Events
    BY <1>1, <2>1
  <2>3. Length[Head(Buffered)] \in 1..Length[Head(Buffered)]
    BY <2>2, LengthType
  <2> QED BY <1>2, <2>1, <2>3, StoreOrdered
<1>8. CASE J!Discard
  <2>1. PICK k \in 1..Len(Retained) : Retained' = SubSeq(Retained, k, Len(Retained))
    BY <1>8 DEF J!Discard
  <2>2. Good(Retained') /\ EventsOf(Retained') \in SUBSET EventsOf(Retained)
    BY <1>1, <2>1, GoodSuffix
  <2>3. Buffered' = Buffered
    BY <1>8 DEF J!Discard
  <2>4. Before(EventsOf(Retained'), Elements(Buffered'))
    BY <1>1, <2>2, <2>3 DEF Before
  <2> QED BY <1>1, <1>4, <2>2, <2>3, <2>4 DEF Ordered
<1>9. CASE J!Lose
  <2>1. Buffered' = <<>>
    BY <1>9 DEF J!Lose
  <2>2. CASE Retained' = Retained
    BY <1>1, <1>4, <2>1, <2>2, ElementTypes DEF Ordered, Before
  <2>3. ASSUME Buffered # <<>>, NEW n \in 1..Length[Head(Buffered)] - 1,
               Retained' = Append(Retained, J!Entry(Head(Buffered), n))
        PROVE  Ordered' /\ Elements(Buffered') \in SUBSET Elements(Buffered)
    <3>1. Head(Buffered) \in Events
      BY <1>1, <2>3
    <3>2. n \in 1..Length[Head(Buffered)]
      BY <3>1, LengthType
    <3> QED BY <1>2, <2>1, <2>3, <3>2, StoreOrdered
  <2> QED BY <1>9, <2>2, <2>3, <2>1, ElementTypes DEF J!Lose
<1> QED BY <1>5, <1>6, <1>7, <1>8, <1>9, NextSteps DEF Steps

LEMMA LaterEvents ==
  ASSUME NEW a \in Nat, NEW b \in Nat, a <= b, NEW m \in Nat
  PROVE  (b + 1..m) \in SUBSET (a + 1..m)
<1>1. ASSUME NEW x \in b + 1..m PROVE x \in a + 1..m
  OBVIOUS
<1> QED BY <1>1

\* Nothing comes that was not to come before.
LEMMA ComingShrinks ==
  ASSUME PInv, Ordered, [Next]_vars
  PROVE  Coming' \in SUBSET Coming
<1>1. \A x \in Elements(Buffered') : x \in Elements(Buffered) \/ x \in emitted + 1..MaxEvents
  BY NextOrdered
<1>2. emitted' + 1..MaxEvents \in SUBSET (emitted + 1..MaxEvents)
  <2>1. emitted \in Nat /\ emitted' \in Nat /\ emitted <= emitted' /\ MaxEvents \in Nat
    BY EmittedGrows DEF PInv, RInv
  <2> QED BY <2>1, LaterEvents
<1>3. EventsOf(Entries(live)') \in SUBSET (EventsOf(Entries(live)) \cup Elements(Buffered))
  <2>1. CASE SameFiles
    <3>1. Entries(live)' = Entries(live)
      BY <2>1, FileTypes DEF SameFiles, Entries, EmptyFile
    <3> QED BY <3>1
  <2>2. CASE Puts
    <3>1. PICK n \in 1..Length[current] : Put(n)
      BY <2>2 DEF Puts
    <3>2. writer = "writing" /\ UNCHANGED backup
      BY <2>2 DEF Puts
    <3>3. Buffered # <<>> /\ Head(Buffered) = current
      BY <3>1, <3>2, PutRetained DEF PInv, RInv
    <3>4. Buffered \in Seq(Events) /\ Ascends(Buffered)
      BY DEF Ordered
    <3>5. current \in Elements(Buffered) /\ current \in Events
      BY <3>3, <3>4, HeadFirst
    <3>6. Entries(live)' = Append(Entries(live), Entry(current, n))
      <4>1. live \in Files /\ live # NoFile
        BY <3>2 DEF PInv, RInv, Inv, QueueTypes, InHandStates, Disk, DiskTypes, Lengths, OpenStates
      <4>2. live' \in Files /\ live'.entries = Append(live.entries, Entry(current, n))
        <5>1. n \in Nat
          BY <3>5, LengthType
        <5> QED BY <3>1, <3>5, <4>1, <5>1, FileTypes DEF Put, Extended
      <4> QED BY <4>1, <4>2, FileTypes DEF Entries
    <3>7. Entries(live) \in Seq(EntrySet)
      BY RetainedTypes DEF PInv, RInv
    <3>8. Entry(current, n) \in EntrySet /\ Entry(current, n).event = current
      BY <3>5, LengthType DEF Entry, EntrySet
    <3>9. ASSUME NEW i \in 1..Len(Entries(live)')
          PROVE  Entries(live)'[i].event \in EventsOf(Entries(live)) \cup {current}
      <4> DEFINE l == Entries(live)
                 t == Append(l, Entry(current, n))
      <4>1. /\ Len(t) = Len(l) + 1 /\ Len(l) \in Nat /\ t[Len(l) + 1] = Entry(current, n)
            /\ \A k \in 1..Len(l) : t[k] = l[k]
        BY <3>7, <3>8
      <4>2. i \in 1..Len(t)
        BY <3>6, <3>9
      <4>3. t[i].event \in EventsOf(l) \cup {current}
        <5> HIDE DEF l, t
        <5>1. i \in 1..Len(l) \/ i = Len(l) + 1
          BY <4>1, <4>2
        <5> QED BY <3>8, <4>1, <5>1 DEF EventsOf
      <4> QED BY <3>6, <4>3
    <3> QED BY <3>5, <3>9 DEF EventsOf
  <2>3. CASE Discards
    BY <2>3 DEF Discards, Entries
  <2>4. CASE Renames
    <3>1. Entries(live)' = <<>>
      BY <2>4 DEF Renames, Entries
    <3> QED BY <3>1, ElementTypes
  <2> QED BY <2>1, <2>2, <2>3, <2>4, FileStep DEF PInv, RInv
<1>4. Coming' = EventsOf(Entries(live)') \cup Elements(Buffered') \cup (emitted' + 1..MaxEvents)
  BY DEF Coming
<1> QED BY <1>1, <1>2, <1>3, <1>4 DEF Coming
------------------------------------------------------------------------------
(***************************************************************************)
(* Files.  A file is sound when its entries are good and make up its       *)
(* length.                                                                 *)
(***************************************************************************)
Sound(f) == f \in Files /\ Good(f.entries) /\ f.bytes = Offset(f.entries, Len(f.entries))

LEMMA SoundIs ==
  ASSUME NEW f, Sound(f)
  PROVE  /\ f # NoFile /\ f.bytes \in Nat /\ f.entries \in Seq(EntrySet) /\ Len(f.entries) \in Nat
         /\ DOMAIN f.entries = 1..Len(f.entries) /\ Good(f.entries)
         /\ Entries(f) = f.entries /\ BytesOf(f) = f.bytes
<1>1. f \in Files /\ f # NoFile /\ Good(f.entries)
  BY FileTypes DEF Sound
<1>2. f.entries \in Seq(EntrySet)
  BY <1>1 DEF Good
<1> QED BY <1>1, <1>2 DEF Files, Entries, BytesOf

\* The journal's size of entries is where the last one ends.
LEMMA SizeIsOffset ==
  ASSUME NEW s \in Seq(EntrySet)
  PROVE  J!Size(s) = Offset(s, Len(s))
<1>1. PICK f \in Sums(s, Len(s)) : J!Size(s) = f[Len(s)]
  BY SizeIsSum
<1>2. f[0] = 0 /\ \A i \in 1..Len(s) : f[i] = f[i - 1] + s[i].bytes
  BY <1>1 DEF Sums
<1>3. /\ Offset(s, 0) = 0
      /\ \A i \in 1..Len(s) : Offset(s, i) = Offset(s, i - 1) + s[i].bytes
  BY OffsetIs
<1>n. Len(s) \in Nat
  OBVIOUS
<1> DEFINE T == {i \in 0..Len(s) : f[i] = Offset(s, i)}
<1>4. 0 \in T
  BY <1>2, <1>3, <1>n
<1>5. ASSUME NEW i \in T, i < Len(s) PROVE i + 1 \in T
  <2>1. i \in 0..Len(s) /\ f[i] = Offset(s, i)
    BY <1>5
  <2>2. i + 1 \in 1..Len(s) /\ (i + 1) - 1 = i /\ i + 1 \in 0..Len(s)
    BY <1>n, <1>5, <2>1
  <2>3. f[i + 1] = f[i] + s[i + 1].bytes /\ Offset(s, i + 1) = Offset(s, i) + s[i + 1].bytes
    BY <1>2, <1>3, <2>2
  <2> QED BY <2>1, <2>2, <2>3
<1>6. T = 0..Len(s)
  <2> HIDE DEF T
  <2>1. T \in SUBSET (0..Len(s))
    BY DEF T
  <2> QED BY <1>n, <1>4, <1>5, <2>1, IntervalInduction
<1>7. Len(s) \in T
  <2> HIDE DEF T
  <2> QED BY <1>n, <1>6
<1> QED BY <1>1, <1>7

\* The two files are sound, and the backup is before all that comes.
LEMMA FilesSound ==
  PInv /\ Ordered =>
    /\ live # NoFile => Sound(live) /\ EventsOf(live.entries) \in SUBSET Coming
    /\ backup # NoFile => Sound(backup) /\ Before(EventsOf(backup.entries), Coming)
<1> SUFFICES ASSUME PInv, Ordered
             PROVE  /\ live # NoFile => Sound(live) /\ EventsOf(live.entries) \in SUBSET Coming
                    /\ backup # NoFile => Sound(backup) /\ Before(EventsOf(backup.entries), Coming)
  OBVIOUS
<1>1. /\ live \in Files \cup {NoFile} /\ backup \in Files \cup {NoFile}
      /\ Entries(live) \in Seq(EntrySet) /\ Entries(backup) \in Seq(EntrySet)
  BY RetainedTypes DEF PInv, RInv
<1>2. /\ Good(Entries(backup)) /\ Good(Entries(live))
      /\ Before(EventsOf(Entries(backup)), EventsOf(Entries(live)))
      /\ EventsOf(Retained) = EventsOf(Entries(backup)) \cup EventsOf(Entries(live))
  BY <1>1, GoodParts DEF Ordered, Retained
<1>3. ASSUME live # NoFile PROVE Sound(live) /\ EventsOf(live.entries) \in SUBSET Coming
  <2>1. Entries(live) = live.entries /\ live \in Files
    BY <1>1, <1>3, EntriesTypes
  <2>2. live.bytes = Offset(live.entries, Len(live.entries))
    BY <1>1, <1>3, <2>1, SizeIsOffset DEF PInv, RInv, Kept, FileSums
  <2> QED BY <1>2, <2>1, <2>2 DEF Sound, Coming
<1>4. ASSUME backup # NoFile PROVE Sound(backup) /\ Before(EventsOf(backup.entries), Coming)
  <2>1. Entries(backup) = backup.entries /\ backup \in Files
    BY <1>1, <1>4, EntriesTypes
  <2>2. backup.bytes = Offset(backup.entries, Len(backup.entries))
    BY <1>1, <1>4, <2>1, SizeIsOffset DEF PInv, RInv, Kept, FileSums
  <2>3. ASSUME NEW x \in EventsOf(backup.entries), NEW y \in Coming PROVE x < y
    <3>1. x \in EventsOf(Retained) /\ x \in Events /\ emitted \in Nat
      BY <1>1, <1>2, <2>1, ElementTypes, EventLogAssumption DEF PInv, RInv, Inv, TypeOK
    <3>2. CASE y \in EventsOf(Entries(live))
      BY <1>2, <2>1, <3>2 DEF Before
    <3>3. CASE y \in Elements(Buffered)
      BY <3>1, <3>3 DEF Ordered, Before
    <3>4. CASE y \in emitted + 1..MaxEvents
      <4>1. x <= emitted
        BY <3>1 DEF Ordered
      <4>2. x \in Nat /\ MaxEvents \in Nat
        BY <3>1, EventLogAssumption DEF Events
      <4> QED BY <3>1, <3>4, <4>1, <4>2
    <3> QED BY <3>2, <3>3, <3>4 DEF Coming
  <2> QED BY <1>2, <2>1, <2>2, <2>3 DEF Sound, Before
<1> QED BY <1>3, <1>4

(***************************************************************************)
(* What a file owes: the events of its records that share no line with a   *)
(* torn one; of those, the ones in its first bytes.                        *)
(***************************************************************************)
IsApart(s, i) ==
  IsWhole(s[i]) /\ SessionOf[s[i].event] # NoSession /\ (i > 1 => IsWhole(s[i - 1]))

ApartBy(s, b) == {s[i].event : i \in {j \in 1..Len(s) : IsApart(s, j) /\ Offset(s, j) <= b}}

Due(f) == ApartBy(f.entries, TailBytes)

All(f) == IF f = NoFile THEN {} ELSE Apart(f)

LEMMA OffsetWithin ==
  ASSUME NEW s, Good(s), NEW i \in 1..Len(s)
  PROVE  Offset(s, i) \in Nat /\ Offset(s, Len(s)) \in Nat /\ Offset(s, i) <= Offset(s, Len(s))
<1> DEFINE n == Len(s)
<1>s. s \in Seq(EntrySet) /\ n \in Nat
  BY DEF Good
<1>1. \A j \in 0..n : Offset(s, j) \in Nat
  BY <1>s, OffsetIs
<1>2. i \in 1..n /\ \A j \in 0..n, k \in 0..n : j < k => Offset(s, j) < Offset(s, k)
  BY OffsetGrows
<1> HIDE DEF n
<1>3. i \in 0..n /\ n \in 0..n /\ (i < n \/ i = n)
  BY <1>s, <1>2
<1>4. Offset(s, i) \in Nat /\ Offset(s, n) \in Nat
  BY <1>1, <1>3
<1>5. Offset(s, i) <= Offset(s, n)
  <2>1. CASE i < n
    BY <1>2, <1>3, <1>4, <2>1
  <2>2. CASE i = n
    BY <1>4, <2>2
  <2> QED BY <1>3, <2>1, <2>2
<1> QED BY <1>4, <1>5 DEF n

LEMMA ApartIs ==
  ASSUME NEW f, Sound(f)
  PROVE  /\ Apart(f) = {f.entries[i].event : i \in {j \in 1..Len(f.entries) : IsApart(f.entries, j)}}
         /\ Apart(f) \in SUBSET Events /\ Due(f) \in SUBSET Events
         /\ f.bytes <= TailBytes => Apart(f) = Due(f)
<1> DEFINE s == f.entries
<1>1. s \in Seq(EntrySet) /\ Len(s) \in Nat /\ DOMAIN s = 1..Len(s) /\ Good(s) /\ f.bytes \in Nat
  BY SoundIs
<1>2. f.bytes = Offset(s, Len(s))
  BY DEF Sound
<1> HIDE DEF s
<1>3. Apart(f) = {s[i].event : i \in {j \in 1..Len(s) : IsApart(s, j)}}
  BY <1>1 DEF Apart, IsApart, s
<1>4. \A i \in 1..Len(s) : s[i].event \in Events
  BY <1>1, EntryIs
<1>5. Apart(f) \in SUBSET Events /\ Due(f) \in SUBSET Events
  BY <1>3, <1>4 DEF Due, ApartBy, s
<1>6. ASSUME f.bytes <= TailBytes, NEW i \in 1..Len(s) PROVE Offset(s, i) <= TailBytes
  <2>1. Offset(s, i) \in Nat /\ Offset(s, i) <= f.bytes
    BY <1>1, <1>2, OffsetWithin
  <2> QED BY <1>1, <1>6, <2>1, DashboardAssumption
<1>7. f.bytes <= TailBytes => Apart(f) = Due(f)
  BY <1>3, <1>6 DEF Due, ApartBy, s
<1> QED BY <1>3, <1>5, <1>7 DEF s

\* A file that grows owes what it owed.
LEMMA ApartStays ==
  ASSUME NEW f, NEW g, Sound(f), Sound(g), NEW entry \in EntrySet, g.entries = Append(f.entries, entry)
  PROVE  Apart(f) \in SUBSET Apart(g) /\ Due(f) \in SUBSET Due(g)
<1> DEFINE s == f.entries
           t == g.entries
<1>1. s \in Seq(EntrySet) /\ Len(s) \in Nat
  BY SoundIs
<1>2. /\ Len(t) = Len(s) + 1
      /\ \A i \in 1..Len(s) : i \in 1..Len(t) /\ t[i] = s[i] /\ (i > 1 => t[i - 1] = s[i - 1])
  <2>1. Len(t) = Len(s) + 1 /\ \A i \in 1..Len(s) : t[i] = s[i]
    BY <1>1
  <2>2. \A i \in 1..Len(s) : i > 1 => i - 1 \in 1..Len(s)
    BY <1>1
  <2>3. \A i \in 1..Len(s) : i \in 1..Len(s) + 1
    BY <1>1
  <2> HIDE DEF s, t
  <2> QED BY <2>1, <2>2, <2>3
<1>3. \A i \in 1..Len(s) : Offset(t, i) = Offset(s, i)
  <2>1. \A i \in 0..Len(s) : Offset(Append(s, entry), i) = Offset(s, i)
    BY <1>1, OffsetAppend
  <2>2. \A i \in 1..Len(s) : i \in 0..Len(s)
    BY <1>1
  <2> QED BY <2>1, <2>2
<1>4. /\ Apart(f) = {s[i].event : i \in {j \in 1..Len(s) : IsApart(s, j)}}
      /\ Apart(g) = {t[i].event : i \in {j \in 1..Len(t) : IsApart(t, j)}}
  BY ApartIs
<1> HIDE DEF s, t
<1>5. \A i \in 1..Len(s) : IsApart(s, i) => IsApart(t, i)
  BY <1>2 DEF IsApart
<1>6. Apart(f) \in SUBSET Apart(g)
  BY <1>2, <1>4, <1>5
<1>7. ApartBy(s, TailBytes) \in SUBSET ApartBy(t, TailBytes)
  BY <1>2, <1>3, <1>5 DEF ApartBy
<1> QED BY <1>6, <1>7 DEF Due, s, t

(***************************************************************************)
(* A scan of a sound file.                                                 *)
(***************************************************************************)
LEMMA MinIs ==
  ASSUME NEW a \in Nat, NEW b \in Nat
  PROVE  Min({a, b}) = IF a <= b THEN a ELSE b
<1>1. \E x \in {a, b} : \A y \in {a, b} : x <= y
  BY DEF Min
<1>2. Min({a, b}) \in {a, b} /\ \A y \in {a, b} : Min({a, b}) <= y
  BY <1>1 DEF Min
<1> QED BY <1>2

LEMMA ScanIs ==
  ASSUME NEW f, Sound(f), NEW start \in Nat
  PROVE  LET end == Min({f.bytes, start + TailBytes})
             cut == end < f.bytes /\ \A i \in DOMAIN f.entries : Offset(f.entries, i) # end
             broken == Cardinality({i \in DOMAIN f.entries : ~ IsWhole(f.entries[i])})
             got == EventsRead(f.entries, start, end)
         IN /\ got \in Seq(Events) /\ Ascends(got) /\ Elements(got) \in SUBSET EventsOf(f.entries)
            /\ InvalidLines(f.entries, start, end) \in Int /\ broken \in Nat
            /\ InvalidLines(f.entries, start, end) <= broken + (IF cut THEN 1 ELSE 0)
            /\ start = 0 => Due(f) \in SUBSET Elements(got)
<1> DEFINE s == f.entries
           end == Min({f.bytes, start + TailBytes})
           cut == end < f.bytes /\ \A i \in DOMAIN s : Offset(s, i) # end
           broken == Cardinality({i \in DOMAIN s : ~ IsWhole(s[i])})
           got == EventsRead(s, start, end)
<1>1. s \in Seq(EntrySet) /\ Len(s) \in Nat /\ DOMAIN s = 1..Len(s) /\ Good(s) /\ f.bytes \in Nat
  BY SoundIs
<1>2. f.bytes = Offset(s, Len(s))
  BY DEF Sound
<1>3. /\ end \in Nat /\ end <= f.bytes
      /\ start = 0 /\ ~ (end = f.bytes) => end = TailBytes
  <2>1. start + TailBytes \in Nat
    BY DashboardAssumption
  <2>2. end = IF f.bytes <= start + TailBytes THEN f.bytes ELSE start + TailBytes
    BY <1>1, <2>1, MinIs
  <2>3. start = 0 => start + TailBytes = TailBytes
    BY DashboardAssumption
  <2> HIDE DEF end
  <2> QED BY <1>1, <2>1, <2>2, <2>3
<1> HIDE DEF s, end
<1>4. /\ got \in Seq(Events) /\ Ascends(got)
      /\ Elements(got) = {s[i].event : i \in {j \in Parsed(s, start, end) : SessionOf[s[j].event] # NoSession}}
  BY <1>1, EventsReadIs
<1>5. Parsed(s, start, end) \in SUBSET (1..Len(s))
  BY <1>1 DEF Parsed
<1>6. Elements(got) \in SUBSET EventsOf(s)
  BY <1>4, <1>5 DEF EventsOf
<1>7. /\ InvalidLines(s, start, end) \in Int /\ broken \in Nat
      /\ InvalidLines(s, start, end) <= broken + (IF cut THEN 1 ELSE 0)
  <2>1. /\ InvalidLines(s, start, end) \in Int
        /\ Cardinality(Broken(s)) \in Nat
        /\ InvalidLines(s, start, end) <= Cardinality(Broken(s)) + (IF CutAt(s, end) THEN 1 ELSE 0)
    BY <1>1, <1>2, <1>3, InvalidBlamed
  <2>2. broken = Cardinality(Broken(s)) /\ cut = CutAt(s, end)
    BY <1>1, <1>2 DEF Broken, CutAt
  <2> QED BY <2>1, <2>2
<1>8. ASSUME start = 0 PROVE Due(f) \in SUBSET Elements(got)
  <2>1. ASSUME NEW i \in 1..Len(s), IsApart(s, i), Offset(s, i) <= TailBytes
        PROVE  s[i].event \in Elements(got)
    <3>1. Offset(s, i) <= end
      <4>1. CASE end = f.bytes
        <5>1. Offset(s, i) <= Offset(s, Len(s))
          BY <1>1, OffsetWithin
        <5> QED BY <1>2, <4>1, <5>1
      <4>2. CASE end = TailBytes
        BY <2>1, <4>2
      <4> QED BY <1>3, <1>8, <4>1, <4>2
    <3>2. i \in Parsed(s, 0, end)
      BY <1>1, <1>3, <2>1, <3>1, ApartParsed DEF IsApart
    <3> QED BY <1>4, <1>8, <2>1, <3>2 DEF IsApart
  <2> QED BY <2>1 DEF Due, ApartBy, s
<1> QED BY <1>4, <1>6, <1>7, <1>8 DEF s, end

\* What is read after what was seen.
LEMMA ConcatIs ==
  ASSUME NEW s \in Seq(Events), NEW t \in Seq(Events), Ascends(s), Ascends(t),
         Before(Elements(s), Elements(t))
  PROVE  /\ s \o t \in Seq(Events) /\ Ascends(s \o t)
         /\ Elements(s \o t) = Elements(s) \cup Elements(t)
<1> DEFINE u == s \o t
           m == Len(s)
           n == Len(t)
<1>1. /\ u \in Seq(Events) /\ Len(u) = m + n /\ m \in Nat /\ n \in Nat
      /\ \A i \in 1..m : u[i] = s[i]
      /\ \A i \in 1..n : u[m + i] = t[i]
  OBVIOUS
<1> HIDE DEF u
<1>2. /\ \A i \in 1..m : i \in 1..Len(u)
      /\ \A i \in 1..n : m + i \in 1..Len(u)
      /\ \A i \in 1..Len(u) : i \in 1..m \/ (i - m \in 1..n /\ m + (i - m) = i)
  BY <1>1
<1>3. ASSUME NEW i \in 1..Len(u)
      PROVE  \/ i \in 1..m /\ u[i] = s[i] /\ u[i] \in Elements(s)
             \/ i - m \in 1..n /\ u[i] = t[i - m] /\ u[i] \in Elements(t)
  <2>1. CASE i \in 1..m
    BY <1>1, <2>1 DEF Elements
  <2>2. CASE i - m \in 1..n /\ m + (i - m) = i
    <3>1. u[i] = t[i - m]
      BY <1>1, <2>2
    <3> QED BY <2>2, <3>1 DEF Elements
  <2> QED BY <1>2, <2>1, <2>2
<1>4. ASSUME NEW i \in 1..Len(u), NEW j \in 1..Len(u), i < j PROVE u[i] < u[j]
  <2>1. CASE j \in 1..m
    <3>1. i \in 1..m
      BY <1>1, <1>4, <2>1
    <3> QED BY <1>1, <1>4, <2>1, <3>1 DEF Ascends
  <2>2. CASE j \notin 1..m /\ i \in 1..m
    BY <1>1, <1>3, <2>2 DEF Before, Elements
  <2>3. CASE j \notin 1..m /\ i \notin 1..m
    <3>1. /\ i - m \in 1..n /\ u[i] = t[i - m] /\ j - m \in 1..n /\ u[j] = t[j - m]
      BY <1>3, <2>3
    <3>2. i - m < j - m
      BY <1>1, <1>4
    <3> QED BY <3>1, <3>2 DEF Ascends
  <2> QED BY <2>1, <2>2, <2>3
<1>5. Elements(u) = Elements(s) \cup Elements(t)
  <2>1. Elements(u) \in SUBSET (Elements(s) \cup Elements(t))
    BY <1>3 DEF Elements
  <2>2. ASSUME NEW i \in 1..m PROVE s[i] \in Elements(u)
    BY <1>1, <1>2 DEF Elements
  <2>3. ASSUME NEW i \in 1..n PROVE t[i] \in Elements(u)
    <3>1. m + i \in 1..Len(u) /\ u[m + i] = t[i]
      BY <1>1, <1>2
    <3> QED BY <3>1 DEF Elements
  <2> QED BY <2>1, <2>2, <2>3 DEF Elements
<1> QED BY <1>1, <1>4, <1>5 DEF Ascends, u
------------------------------------------------------------------------------
(***************************************************************************)
(* A Read beside the log.  What it has seen ascends and is before whatever *)
(* it may still find; the file it scans is sound; and unless it is sampled *)
(* or the log has rotated, what it owes and has not seen is in the file    *)
(* that it scans or in the one that is to come.  What the backup held when *)
(* it began, rotations do not take away.                                   *)
(***************************************************************************)
ReadTypes ==
  [at : {"opening", "scanning", "done", "failed"}, name : 1..2,
   held : Files \cup {NoFile}, grows : BOOLEAN, start : Nat, seen : Seq(Events),
   invalid : Int, sampled : BOOLEAN, owed : SUBSET Events, older : SUBSET Events,
   torn : Int, rotated : BOOLEAN]

\* In the following L is the file at path, and C are the events to come.
HeldBy(r, L) == IF r.grows THEN L ELSE r.held

ScanOK(r, L, C) ==
  LET f == HeldBy(r, L)
  IN /\ Sound(f)
     /\ Before(Elements(r.seen), EventsOf(f.entries))
     /\ r.name = 1 => Before(EventsOf(f.entries), C)
     /\ r.grows => Before(Elements(r.seen), C)
     /\ ~ r.sampled => r.start = 0

Awaited(r, L) ==
  Elements(r.seen)
  \cup (IF r.at = "scanning" THEN Due(HeldBy(r, L)) ELSE {})
  \cup (IF r.at \in {"opening", "scanning"} /\ <<r.at, r.name>> # <<"scanning", 2>> THEN All(L) ELSE {})

OlderAwaited(r) ==
  Elements(r.seen) \cup (IF r.at = "scanning" /\ r.name = 1 THEN Due(r.held) ELSE {})

ReadOK(r, L, C) ==
  /\ r \in ReadTypes
  /\ Ascends(r.seen) /\ r.invalid <= r.torn
  /\ r.name = 1 => r.seen = <<>> /\ ~ r.grows
  /\ r.at = "opening" => Before(Elements(r.seen), C)
  /\ r.at = "scanning" => ScanOK(r, L, C)
  /\ r.at = "opening" /\ r.name = 1 => r.owed = {} /\ r.older = {}
  /\ ~ r.sampled /\ ~ r.rotated => r.owed \in SUBSET Awaited(r, L)
  /\ ~ r.sampled => r.older \in SUBSET OlderAwaited(r)

LEMMA AllIs ==
  /\ All(NoFile) = {}
  /\ \A f : Sound(f) => All(f) = Apart(f)
BY FileTypes DEF All, Sound

LEMMA NewReadOK ==
  ASSUME NEW L, NEW C
  PROVE  ReadOK(NewRead, L, C) /\ ReadOK([NewRead EXCEPT !.at = "failed"], L, C)
<1> DEFINE q == [NewRead EXCEPT !.at = "failed"]
<1>1. /\ NewRead \in ReadTypes /\ NewRead.at = "opening" /\ NewRead.name = 1 /\ NewRead.grows = FALSE
      /\ NewRead.seen = <<>> /\ NewRead.invalid = 0 /\ NewRead.torn = 0 /\ NewRead.owed = {}
      /\ NewRead.older = {}
  BY ElementTypes DEF NewRead, ReadTypes
<1>2. /\ q \in ReadTypes /\ q.at = "failed" /\ q.name = 1 /\ q.grows = FALSE
      /\ q.seen = <<>> /\ q.invalid = 0 /\ q.torn = 0 /\ q.owed = {} /\ q.older = {}
  BY <1>1 DEF NewRead, ReadTypes
<1> HIDE DEF q
<1>3. Before({}, C)
  BY DEF Before
<1>4. ASSUME NEW r \in ReadTypes, r.at \in {"opening", "failed"}, r.name = 1, r.grows = FALSE,
             r.seen = <<>>, r.invalid = 0, r.torn = 0, r.owed = {}, r.older = {}
      PROVE  ReadOK(r, L, C)
  <2>1. Ascends(r.seen) /\ Elements(r.seen) = {} /\ r.invalid <= r.torn /\ r.at # "scanning"
    BY <1>4, ElementTypes
  <2>2. r.owed \in SUBSET Awaited(r, L) /\ r.older \in SUBSET OlderAwaited(r)
    BY <1>4
  <2> QED BY <1>3, <1>4, <2>1, <2>2 DEF ReadOK
<1> QED BY <1>1, <1>2, <1>4 DEF q

\* The file at path is renamed beside a Read.
LEMMA RenameBeside ==
  ASSUME NEW L \in Files, NEW C, NEW D \in SUBSET C, NEW r, ReadOK(r, L, C),
         NEW q, q = [r EXCEPT !.held = IF r.grows THEN L ELSE @, !.grows = FALSE,
                              !.rotated = @ \/ <<r.at, r.name>> \in {<<"scanning", 1>>, <<"opening", 2>>}]
  PROVE  ReadOK(q, NoFile, D)
<1>1. r \in ReadTypes
  BY DEF ReadOK
<1>2. /\ q \in ReadTypes /\ q.at = r.at /\ q.name = r.name /\ q.seen = r.seen
      /\ q.invalid = r.invalid /\ q.torn = r.torn /\ q.owed = r.owed /\ q.older = r.older
      /\ q.sampled = r.sampled
      /\ q.start = r.start /\ q.grows = FALSE /\ q.held = IF r.grows THEN L ELSE r.held
  BY <1>1 DEF ReadTypes
<1>3. q.rotated = (r.rotated \/ <<r.at, r.name>> \in {<<"scanning", 1>>, <<"opening", 2>>})
  BY <1>1 DEF ReadTypes
<1>4. HeldBy(q, NoFile) = HeldBy(r, L)
  BY <1>2 DEF HeldBy
<1>5. r.at = "opening" => Before(Elements(q.seen), D)
  BY <1>2 DEF ReadOK, Before
<1>6. ASSUME r.at = "scanning" PROVE ScanOK(q, NoFile, D)
  <2>1. ScanOK(r, L, C)
    BY <1>6 DEF ReadOK
  <2> QED BY <1>2, <1>4, <2>1 DEF ScanOK, Before
<1>7. ASSUME ~ q.sampled, ~ q.rotated PROVE q.owed \in SUBSET Awaited(q, NoFile)
  <2>1. r.owed \in SUBSET Awaited(r, L) /\ <<r.at, r.name>> \notin {<<"scanning", 1>>, <<"opening", 2>>}
    BY <1>2, <1>3, <1>7 DEF ReadOK
  <2>2. r.name \in 1..2 /\ (r.name = 1 \/ r.name = 2)
    BY <1>1 DEF ReadTypes
  <2>3. CASE r.at = "opening"
    <3>1. r.name = 1
      BY <2>1, <2>2, <2>3
    <3> QED BY <1>2, <2>3, <3>1 DEF ReadOK
  <2>4. CASE r.at = "scanning"
    BY <1>2, <1>4, <2>1, <2>2, <2>4 DEF Awaited
  <2>5. CASE r.at \notin {"opening", "scanning"}
    BY <1>2, <2>1, <2>5 DEF Awaited
  <2> QED BY <2>3, <2>4, <2>5
<1>8. ASSUME ~ q.sampled PROVE q.older \in SUBSET OlderAwaited(q)
  <2>1. r.older \in SUBSET OlderAwaited(r) /\ (r.name = 1 => ~ r.grows)
    BY <1>2, <1>8 DEF ReadOK
  <2> QED BY <1>2, <2>1 DEF OlderAwaited
<1> QED BY <1>2, <1>5, <1>6, <1>7, <1>8 DEF ReadOK

\* The log moves beside a Read, and the file at path is not renamed.
LEMMA MoveBeside ==
  ASSUME NEW L, NEW M, NEW C, NEW D \in SUBSET C, NEW r, ReadOK(r, L, C),
         \/ L = NoFile
         \/ Sound(L) /\ Sound(M) /\ Apart(L) \in SUBSET Apart(M) /\ Due(L) \in SUBSET Due(M),
         M # NoFile => EventsOf(M.entries) \in SUBSET C
  PROVE  ReadOK(r, M, D)
<1>1. r.at = "opening" => Before(Elements(r.seen), D)
  BY DEF ReadOK, Before
<1>2. All(L) \in SUBSET All(M)
  BY AllIs
<1>3. ASSUME r.at = "scanning"
      PROVE  ScanOK(r, M, D) /\ Due(HeldBy(r, L)) \in SUBSET Due(HeldBy(r, M))
  <2>1. ScanOK(r, L, C)
    BY <1>3 DEF ReadOK
  <2>2. CASE ~ r.grows
    <3>1. HeldBy(r, M) = HeldBy(r, L)
      BY <2>2 DEF HeldBy
    <3> QED BY <2>1, <2>2, <3>1 DEF ScanOK, Before
  <2>3. CASE r.grows
    <3>1. HeldBy(r, M) = M /\ HeldBy(r, L) = L
      BY <2>3 DEF HeldBy
    <3>2. Sound(L) /\ L # NoFile
      BY <2>1, <3>1, SoundIs DEF ScanOK
    <3>3. Sound(M) /\ M # NoFile /\ Due(L) \in SUBSET Due(M) /\ EventsOf(M.entries) \in SUBSET C
      BY <3>2, SoundIs
    <3>4. r.name # 1
      BY <2>3 DEF ReadOK
    <3>5. Before(Elements(r.seen), C) /\ (~ r.sampled => r.start = 0)
      BY <2>1, <2>3 DEF ScanOK
    <3>6. Before(Elements(r.seen), D) /\ Before(Elements(r.seen), EventsOf(M.entries))
      BY <3>3, <3>5 DEF Before
    <3> QED BY <3>1, <3>3, <3>4, <3>5, <3>6 DEF ScanOK
  <2> QED BY <2>2, <2>3
<1>4. Awaited(r, L) \in SUBSET Awaited(r, M)
  BY <1>2, <1>3 DEF Awaited
<1> QED BY <1>1, <1>3, <1>4 DEF ReadOK

\* What the log's step does to the file at path.
LEMMA PathMoves ==
  ASSUME PInv, Ordered, [Next]_vars, ~ Renamed
  PROVE  /\ \/ live = NoFile
            \/ /\ Sound(live) /\ Sound(live')
               /\ Apart(live) \in SUBSET Apart(live') /\ Due(live) \in SUBSET Due(live')
         /\ live' # NoFile => EventsOf(live'.entries) \in SUBSET Coming
<1>1. PInv' /\ Ordered' /\ Coming' \in SUBSET Coming
  BY NextPInv, NextOrdered, ComingShrinks
<1>2. live # NoFile => Sound(live)
  BY FilesSound
<1>3. live' # NoFile => Sound(live') /\ EventsOf(live'.entries) \in SUBSET Coming'
  <2>1. (PInv /\ Ordered =>
           /\ live # NoFile => Sound(live) /\ EventsOf(live.entries) \in SUBSET Coming
           /\ backup # NoFile => Sound(backup) /\ Before(EventsOf(backup.entries), Coming))'
    BY FilesSound, PTL
  <2> QED BY <1>1, <2>1
<1>4. CASE live' = live
  BY <1>1, <1>2, <1>3, <1>4
<1>5. CASE live = NoFile
  BY <1>1, <1>3, <1>5
<1>6. CASE Puts
  <2>1. PICK entry \in EntrySet : live # NoFile /\ live' = Extended(live, entry) /\ live' # NoFile
    BY <1>6, PutKeeps DEF PInv, RInv
  <2>2. live'.entries = Append(live.entries, entry)
    BY <2>1 DEF Extended
  <2>3. Sound(live) /\ Sound(live')
    BY <1>2, <1>3, <2>1
  <2>4. Apart(live) \in SUBSET Apart(live') /\ Due(live) \in SUBSET Due(live')
    BY <2>2, <2>3, ApartStays
  <2> QED BY <1>1, <1>3, <2>3, <2>4
<1>7. CASE Discards
  BY <1>4, <1>7 DEF Discards
<1>8. CASE Renames
  BY <1>5, <1>8 DEF Renames, Renamed
<1>9. CASE SameFiles
  BY <1>4, <1>5, <1>9 DEF SameFiles
<1> QED BY <1>6, <1>7, <1>8, <1>9, FileStep DEF PInv, RInv

(***************************************************************************)
(* The steps of a Read.                                                    *)
(***************************************************************************)
\* The name 1 is path.1, and the name 2 is path.
LEMMA NameIs == Name(1) = "path.1" /\ Name(2) = "path" /\ Named("path.1") = backup /\ Named("path") = live
BY DEF Name, Named

\* What a step makes of a Read: it notes what it owes, opens a file, sees its
\* events, or is done with a name.
Scanning(r, start, grows, h) ==
  [r EXCEPT !.at = "scanning", !.start = start, !.grows = grows, !.held = h, !.sampled = @ \/ start > 0]

Seeing(r, s, i, t) == [r EXCEPT !.seen = s, !.invalid = i, !.torn = t]

Passing(r, a) == [r EXCEPT !.at = a, !.name = 2, !.held = NoFile, !.grows = FALSE, !.start = 0]

LEMMA BegunIs ==
  ASSUME NEW r \in ReadTypes, NEW q, q = Begun(r),
         ApartIn({live, backup}) \in SUBSET Events, ApartIn({backup}) \in SUBSET Events
  PROVE  /\ q \in ReadTypes
         /\ q.at = r.at /\ q.name = r.name /\ q.seen = r.seen /\ q.grows = r.grows
         /\ q.invalid = r.invalid /\ q.torn = r.torn /\ q.sampled = r.sampled /\ q.rotated = r.rotated
         /\ q.owed = IF r.name = 1 THEN ApartIn({live, backup}) ELSE r.owed
         /\ q.older = IF r.name = 1 THEN ApartIn({backup}) ELSE r.older
<1>1. CASE r.name = 1
  <2>1. PICK a \in SUBSET Events : a = ApartIn({live, backup})
    OBVIOUS
  <2>2. PICK b \in SUBSET Events : b = ApartIn({backup})
    OBVIOUS
  <2>3. q = [r EXCEPT !.owed = a, !.older = b]
    BY <1>1, <2>1, <2>2 DEF Begun
  <2>4. q \in ReadTypes
    BY <2>3 DEF ReadTypes
  <2>5. /\ q.at = r.at /\ q.name = r.name /\ q.seen = r.seen /\ q.grows = r.grows
        /\ q.invalid = r.invalid /\ q.torn = r.torn /\ q.sampled = r.sampled /\ q.rotated = r.rotated
        /\ q.owed = a /\ q.older = b
    BY <2>3 DEF ReadTypes
  <2> QED BY <1>1, <2>1, <2>2, <2>4, <2>5
<1>2. CASE r.name # 1
  BY <1>2 DEF Begun
<1> QED BY <1>1, <1>2

Scans(q, r, start, grows, h) ==
  /\ q \in ReadTypes /\ q.at = "scanning" /\ q.start = start /\ q.grows = grows
  /\ q.held = h /\ q.sampled = (r.sampled \/ start > 0)
  /\ q.name = r.name /\ q.seen = r.seen /\ q.invalid = r.invalid /\ q.torn = r.torn
  /\ q.owed = r.owed /\ q.older = r.older /\ q.rotated = r.rotated

LEMMA ScanningIs ==
  ASSUME NEW r \in ReadTypes, NEW start \in Nat, NEW grows \in BOOLEAN, NEW h \in Files \cup {NoFile}
  PROVE  Scans(Scanning(r, start, grows, h), r, start, grows, h)
<1>1. Scanning(r, start, grows, h) \in ReadTypes
  BY DEF ReadTypes, Scanning
<1> QED BY <1>1 DEF ReadTypes, Scanning, Scans

Sees(q, r, s, i, t) ==
  /\ q \in ReadTypes /\ q.seen = s /\ q.invalid = i /\ q.torn = t
  /\ q.name = r.name /\ q.owed = r.owed /\ q.older = r.older
  /\ q.sampled = r.sampled /\ q.rotated = r.rotated

LEMMA SeeingIs ==
  ASSUME NEW r \in ReadTypes, NEW s \in Seq(Events), NEW i \in Int, NEW t \in Int
  PROVE  Sees(Seeing(r, s, i, t), r, s, i, t)
BY DEF ReadTypes, Seeing, Sees

Passes(q, r, a) ==
  /\ q \in ReadTypes /\ q.at = a
  /\ q.name = 2 /\ q.grows = FALSE /\ q.held = NoFile /\ q.start = 0
  /\ q.seen = r.seen /\ q.invalid = r.invalid /\ q.torn = r.torn /\ q.owed = r.owed
  /\ q.older = r.older /\ q.sampled = r.sampled /\ q.rotated = r.rotated

LEMMA PassingIs ==
  ASSUME NEW r \in ReadTypes, NEW a, a = "opening" \/ a = "done"
  PROVE  Passes(Passing(r, a), r, a)
<1>1. ASSUME NEW p, p = [r EXCEPT !.at = a] PROVE p \in ReadTypes
  <2>1. CASE a = "opening"
    BY <1>1, <2>1 DEF ReadTypes
  <2>2. CASE a = "done"
    BY <1>1, <2>2 DEF ReadTypes
  <2> QED BY <2>1, <2>2
<1>2. ASSUME NEW p \in ReadTypes, NEW n \in 1..2, NEW o, o = [p EXCEPT !.name = n]
      PROVE  o \in ReadTypes
  BY <1>2 DEF ReadTypes
<1>3. ASSUME NEW p \in ReadTypes, NEW o, o = [p EXCEPT !.held = NoFile, !.grows = FALSE, !.start = 0]
      PROVE  o \in ReadTypes
  BY <1>3 DEF ReadTypes
<1> DEFINE p1 == [r EXCEPT !.at = a]
           p2 == [p1 EXCEPT !.name = 2]
           p3 == [p2 EXCEPT !.held = NoFile, !.grows = FALSE, !.start = 0]
<1>4. Passing(r, a) = p3
  BY DEF Passing
<1>5. p1 \in ReadTypes
  BY <1>1
<1> HIDE DEF p1
<1>6. p2 \in ReadTypes
  BY <1>2, <1>5
<1> HIDE DEF p2
<1>7. p3 \in ReadTypes
  BY <1>3, <1>6
<1> HIDE DEF p3
<1>8. Passing(r, a) \in ReadTypes
  BY <1>4, <1>7
<1> QED BY <1>8 DEF ReadTypes, Passing, Passes

LEMMA NextNameIs ==
  ASSUME NEW r \in ReadTypes
  PROVE  Passes(NextName(r), r, IF r.name = 1 THEN "opening" ELSE "done")
<1> DEFINE a == IF r.name = 1 THEN "opening" ELSE "done"
<1>1. NextName(r) = Passing(r, a)
  BY DEF NextName, Passing
<1>2. a = "opening" \/ a = "done"
  OBVIOUS
<1> HIDE DEF a
<1>3. Passes(Passing(r, a), r, a)
  BY <1>2, PassingIs
<1>4. Passes(NextName(r), r, a)
  BY <1>1, <1>3
<1> QED BY <1>4 DEF a

LEMMA OwedIs ==
  ASSUME PInv, Ordered
  PROVE  /\ ApartIn({live, backup}) = All(live) \cup All(backup) /\ ApartIn({backup}) = All(backup)
         /\ ApartIn({live, backup}) \in SUBSET Events /\ ApartIn({backup}) \in SUBSET Events
<1>1. ApartIn({live, backup}) = All(live) \cup All(backup) /\ ApartIn({backup}) = All(backup)
  BY DEF ApartIn, All
<1>2. (live # NoFile => Sound(live)) /\ (backup # NoFile => Sound(backup))
  BY FilesSound
<1>3. All(live) \in SUBSET Events /\ All(backup) \in SUBSET Events
  BY <1>2, ApartIs DEF All
<1> QED BY <1>1, <1>3

\* The events that a Read owes are noted when it begins.
LEMMA OwedTaken ==
  ASSUME PInv, Ordered, NEW r, ReadOK(r, live, Coming), r.at = "opening",
         NEW q, q = Begun(r)
  PROVE  /\ q \in ReadTypes
         /\ q.at = r.at /\ q.name = r.name /\ q.seen = r.seen /\ q.grows = r.grows
         /\ q.invalid = r.invalid /\ q.torn = r.torn /\ q.sampled = r.sampled /\ q.rotated = r.rotated
         /\ q.name = 1 => q.owed = All(live) \cup All(backup)
         /\ q.name = 2 /\ ~ q.sampled /\ ~ q.rotated => q.owed \in SUBSET (Elements(q.seen) \cup All(live))
         /\ q.name = 1 => q.older = All(backup)
         /\ q.name = 2 /\ ~ q.sampled => q.older \in SUBSET Elements(q.seen)
<1>1. r \in ReadTypes
  BY DEF ReadOK
<1>2. /\ ApartIn({live, backup}) = All(live) \cup All(backup) /\ ApartIn({backup}) = All(backup)
      /\ ApartIn({live, backup}) \in SUBSET Events /\ ApartIn({backup}) \in SUBSET Events
  BY OwedIs
<1>3. /\ q \in ReadTypes
      /\ q.at = r.at /\ q.name = r.name /\ q.seen = r.seen /\ q.grows = r.grows
      /\ q.invalid = r.invalid /\ q.torn = r.torn /\ q.sampled = r.sampled /\ q.rotated = r.rotated
      /\ q.owed = IF r.name = 1 THEN ApartIn({live, backup}) ELSE r.owed
      /\ q.older = IF r.name = 1 THEN ApartIn({backup}) ELSE r.older
  BY <1>1, <1>2, BegunIs
<1>4. ASSUME q.name = 2, ~ q.sampled, ~ q.rotated
      PROVE  q.owed \in SUBSET (Elements(q.seen) \cup All(live))
  <2>1. r.owed \in SUBSET Awaited(r, live) /\ q.owed = r.owed
    BY <1>3, <1>4 DEF ReadOK
  <2>2. Awaited(r, live) = Elements(r.seen) \cup All(live)
    BY DEF Awaited
  <2> QED BY <1>3, <2>1, <2>2
<1>5. ASSUME q.name = 2, ~ q.sampled PROVE q.older \in SUBSET Elements(q.seen)
  <2>1. r.older \in SUBSET OlderAwaited(r) /\ q.older = r.older
    BY <1>3, <1>5 DEF ReadOK
  <2>2. OlderAwaited(r) = Elements(r.seen)
    BY DEF OlderAwaited
  <2> QED BY <1>3, <2>1, <2>2
<1> QED BY <1>2, <1>3, <1>4, <1>5

\* A name that does not exist is passed over.
LEMMA PassedOver ==
  ASSUME PInv, Ordered, NEW r, ReadOK(r, live, Coming), r.at = "opening",
         Named(Name(r.name)) = NoFile,
         NEW q, q = Begun(r)
  PROVE  ReadOK(NextName(q), live, Coming)
<1> DEFINE n == NextName(q)
<1>1. /\ q \in ReadTypes
      /\ q.at = r.at /\ q.name = r.name /\ q.seen = r.seen
      /\ q.invalid = r.invalid /\ q.torn = r.torn
      /\ q.name = 1 => q.owed = All(live) \cup All(backup)
      /\ q.name = 2 /\ ~ q.sampled /\ ~ q.rotated => q.owed \in SUBSET (Elements(q.seen) \cup All(live))
      /\ q.name = 1 => q.older = All(backup)
      /\ q.name = 2 /\ ~ q.sampled => q.older \in SUBSET Elements(q.seen)
  BY OwedTaken
<1>2. /\ n \in ReadTypes /\ n.at = (IF q.name = 1 THEN "opening" ELSE "done")
      /\ n.name = 2 /\ n.seen = q.seen /\ n.invalid = q.invalid /\ n.torn = q.torn
      /\ n.owed = q.owed /\ n.older = q.older /\ n.sampled = q.sampled /\ n.rotated = q.rotated
  BY <1>1, NextNameIs DEF Passes
<1> HIDE DEF n
<1>3. Ascends(r.seen) /\ r.invalid <= r.torn /\ Before(Elements(r.seen), Coming) /\ r.name \in 1..2
  BY DEF ReadOK, ReadTypes
<1>4. ASSUME ~ n.sampled, ~ n.rotated PROVE n.owed \in SUBSET Awaited(n, live)
  <2>1. CASE r.name = 1
    <3>1. backup = NoFile
      BY <2>1, NameIs
    <3> QED BY <1>1, <1>2, <2>1, <3>1, AllIs DEF Awaited
  <2>2. CASE r.name = 2
    <3>1. live = NoFile
      BY <2>2, NameIs
    <3> QED BY <1>1, <1>2, <1>4, <2>2, <3>1, AllIs DEF Awaited
  <2> QED BY <1>3, <2>1, <2>2
<1>5. ASSUME ~ n.sampled PROVE n.older \in SUBSET OlderAwaited(n)
  <2>1. CASE r.name = 1
    <3>1. n.older = {}
      BY <1>1, <1>2, <2>1, NameIs, AllIs
    <3> QED BY <3>1
  <2>2. CASE r.name = 2
    BY <1>1, <1>2, <1>5, <2>2 DEF OlderAwaited
  <2> QED BY <1>3, <2>1, <2>2
<1>6. ReadOK(n, live, Coming)
  BY SMTT(30), <1>1, <1>2, <1>3, <1>4, <1>5 DEF ReadOK
<1> QED BY <1>6 DEF n

\* A file is opened.
LEMMA Opened ==
  ASSUME PInv, Ordered, NEW r, ReadOK(r, live, Coming), r.at = "opening",
         NEW f, f = Named(Name(r.name)), f # NoFile,
         NEW start, start = (IF BytesOf(f) > TailBytes THEN BytesOf(f) - TailBytes ELSE 0),
         NEW grows, grows = (Name(r.name) = "path"),
         NEW q, q = Begun(r),
         NEW n, n = Scanning(q, start, grows, IF grows THEN NoFile ELSE f)
  PROVE  ReadOK(n, live, Coming)
<1>1. /\ q \in ReadTypes
      /\ q.name = r.name /\ q.seen = r.seen
      /\ q.invalid = r.invalid /\ q.torn = r.torn
      /\ q.name = 1 => q.owed = All(live) \cup All(backup)
      /\ q.name = 2 /\ ~ q.sampled /\ ~ q.rotated => q.owed \in SUBSET (Elements(q.seen) \cup All(live))
      /\ q.name = 1 => q.older = All(backup)
      /\ q.name = 2 /\ ~ q.sampled => q.older \in SUBSET Elements(q.seen)
  BY OwedTaken
<1>2. /\ Ascends(r.seen) /\ r.invalid <= r.torn /\ Before(Elements(r.seen), Coming)
      /\ r.name \in {1, 2} /\ (r.name = 1 => r.seen = <<>>)
  BY DEF ReadOK, ReadTypes
<1>3. /\ r.name = 1 => f = backup /\ grows = FALSE
      /\ r.name = 2 => f = live /\ grows = TRUE
  BY NameIs
<1>4. /\ Sound(f)
      /\ r.name = 1 => Before(EventsOf(f.entries), Coming)
      /\ r.name = 2 => EventsOf(f.entries) \in SUBSET Coming
  BY <1>2, <1>3, FilesSound
<1>5. f \in Files /\ f.bytes \in Nat /\ BytesOf(f) = f.bytes /\ grows \in BOOLEAN
  BY <1>2, <1>3, <1>4, SoundIs DEF Sound
<1>6. /\ start \in Nat /\ (start > 0) \in BOOLEAN
      /\ ~ (start > 0) => start = 0 /\ f.bytes <= TailBytes
  BY <1>5, DashboardAssumption
<1>7. /\ n \in ReadTypes /\ n.at = "scanning" /\ n.start = start /\ n.grows = grows
      /\ n.held = (IF grows THEN NoFile ELSE f) /\ n.sampled = (q.sampled \/ start > 0)
      /\ n.name = q.name /\ n.seen = q.seen /\ n.invalid = q.invalid /\ n.torn = q.torn
      /\ n.owed = q.owed /\ n.older = q.older /\ n.rotated = q.rotated
  <2> DEFINE h == IF grows THEN NoFile ELSE f
  <2>1. h \in Files \cup {NoFile}
    BY <1>5
  <2>2. n = Scanning(q, start, grows, h)
    OBVIOUS
  <2> HIDE DEF h
  <2>3. Scans(Scanning(q, start, grows, h), q, start, grows, h)
    BY <1>1, <1>5, <1>6, <2>1, ScanningIs
  <2>4. Scans(n, q, start, grows, h)
    BY <2>2, <2>3
  <2> QED BY <2>4 DEF h, Scans
<1>8. HeldBy(n, live) = f
  BY <1>2, <1>3, <1>7 DEF HeldBy
<1>9. Before(Elements(r.seen), EventsOf(f.entries))
  <2>1. CASE r.name = 1
    BY <1>2, <2>1, ElementTypes DEF Before
  <2>2. CASE r.name = 2
    BY <1>2, <1>4, <2>2 DEF Before
  <2> QED BY <1>2, <2>1, <2>2
<1>10. ScanOK(n, live, Coming)
  BY ZenonT(60), <1>1, <1>2, <1>4, <1>6, <1>7, <1>8, <1>9 DEF ScanOK
<1>11. ASSUME ~ n.sampled, ~ n.rotated PROVE n.owed \in SUBSET Awaited(n, live)
  <2>1. Apart(f) = Due(f) /\ All(f) = Due(f)
    BY ZenonT(60), <1>4, <1>6, <1>7, <1>11, ApartIs, AllIs
  <2>2. CASE r.name = 1
    BY <1>1, <1>3, <1>7, <1>8, <2>1, <2>2 DEF Awaited
  <2>3. CASE r.name = 2
    <3>1. Awaited(n, live) = Elements(n.seen) \cup Due(f)
      BY <1>1, <1>7, <1>8, <2>3 DEF Awaited
    <3>2. f = live /\ All(live) = Due(f)
      BY <1>3, <2>1, <2>3
    <3>3. q.owed \in SUBSET (Elements(q.seen) \cup All(live))
      BY <1>1, <1>7, <1>11, <2>3
    <3> QED BY <1>7, <3>1, <3>2, <3>3
  <2> QED BY <1>2, <2>2, <2>3
<1>12. ASSUME ~ n.sampled PROVE n.older \in SUBSET OlderAwaited(n)
  <2>1. Apart(f) = Due(f) /\ All(f) = Due(f)
    BY ZenonT(60), <1>4, <1>6, <1>7, <1>12, ApartIs, AllIs
  <2>2. CASE r.name = 1
    <3>1. n.older = Due(f) /\ n.held = f
      BY <1>1, <1>3, <1>7, <2>1, <2>2
    <3> QED BY <1>1, <1>7, <2>2, <3>1 DEF OlderAwaited
  <2>3. CASE r.name = 2
    BY ZenonT(60), <1>1, <1>7, <1>12, <2>3 DEF OlderAwaited
  <2> QED BY <1>2, <2>2, <2>3
<1> QED BY <1>1, <1>2, <1>3, <1>7, <1>10, <1>11, <1>12 DEF ReadOK

\* A file is scanned to its end: what is got of it is as in ScanIs.
LEMMA Scanned ==
  ASSUME NEW r, ReadOK(r, live, Coming), r.at = "scanning",
         NEW f, f = Held(r),
         NEW got \in Seq(Events), Ascends(got), Elements(got) \in SUBSET EventsOf(f.entries),
         r.start = 0 => Due(f) \in SUBSET Elements(got),
         NEW lost \in Int, NEW torn \in Int, r.torn + lost <= torn,
         NEW q, q = Seeing(r, r.seen \o got, r.invalid + lost, torn)
  PROVE  ReadOK(NextName(q), live, Coming)
<1> DEFINE n == NextName(q)
<1>1. /\ r \in ReadTypes /\ Ascends(r.seen) /\ r.invalid <= r.torn /\ ScanOK(r, live, Coming)
      /\ r.name \in {1, 2} /\ r.start \in Nat /\ r.seen \in Seq(Events)
      /\ r.invalid \in Int /\ r.torn \in Int /\ (r.name = 1 => r.seen = <<>>)
      /\ ~ r.sampled /\ ~ r.rotated => r.owed \in SUBSET Awaited(r, live)
      /\ ~ r.sampled => r.older \in SUBSET OlderAwaited(r)
      /\ r.name = 1 => ~ r.grows
  BY DEF ReadOK, ReadTypes
<1>2. HeldBy(r, live) = f /\ Sound(f)
  BY <1>1 DEF HeldBy, Held, ScanOK
<1>4. /\ r.seen \o got \in Seq(Events) /\ Ascends(r.seen \o got)
      /\ Elements(r.seen \o got) = Elements(r.seen) \cup Elements(got)
  <2>1. Before(Elements(r.seen), Elements(got))
    BY <1>1, <1>2 DEF ScanOK, Before
  <2> QED BY <1>1, <2>1, ConcatIs
<1>5. r.invalid + lost \in Int /\ r.invalid + lost <= torn
  BY <1>1
<1>6. /\ q \in ReadTypes /\ q.seen = r.seen \o got /\ q.invalid = r.invalid + lost
      /\ q.torn = torn
      /\ q.name = r.name /\ q.owed = r.owed /\ q.older = r.older
      /\ q.sampled = r.sampled /\ q.rotated = r.rotated
  <2> DEFINE s == r.seen \o got
             i == r.invalid + lost
  <2>1. s \in Seq(Events) /\ i \in Int /\ torn \in Int
    BY <1>4, <1>5
  <2>2. q = Seeing(r, s, i, torn)
    OBVIOUS
  <2> HIDE DEF s, i
  <2>3. Sees(Seeing(r, s, i, torn), r, s, i, torn)
    BY <1>1, <2>1, SeeingIs
  <2>4. Sees(q, r, s, i, torn)
    BY <2>2, <2>3
  <2> QED BY <2>4 DEF s, i, Sees
<1>7. /\ n \in ReadTypes /\ n.at = (IF q.name = 1 THEN "opening" ELSE "done")
      /\ n.name = 2 /\ n.seen = q.seen /\ n.invalid = q.invalid /\ n.torn = q.torn
      /\ n.owed = q.owed /\ n.older = q.older /\ n.sampled = q.sampled /\ n.rotated = q.rotated
  BY <1>6, NextNameIs DEF Passes
<1> HIDE DEF n
<1>8. r.name = 1 => Before(Elements(n.seen), Coming)
  <2> SUFFICES ASSUME r.name = 1 PROVE Before(Elements(n.seen), Coming)
    OBVIOUS
  <2>1. Elements(n.seen) = Elements(got)
    BY <1>1, <1>4, <1>6, <1>7, ElementTypes
  <2> QED BY <1>1, <1>2, <2>1 DEF ScanOK, Before
<1>9. ASSUME ~ n.sampled, ~ n.rotated PROVE n.owed \in SUBSET Awaited(n, live)
  <2>1. n.owed = r.owed /\ r.owed \in SUBSET Awaited(r, live) /\ Due(f) \in SUBSET Elements(got)
    BY <1>1, <1>2, <1>6, <1>7, <1>9 DEF ScanOK
  <2>2. Elements(n.seen) = Elements(r.seen) \cup Elements(got)
    BY <1>4, <1>6, <1>7
  <2>3. CASE r.name = 1
    <3>1. Awaited(r, live) = Elements(r.seen) \cup Due(f) \cup All(live)
      BY <1>2, <2>3 DEF Awaited
    <3>2. Awaited(n, live) = Elements(n.seen) \cup All(live)
      BY <1>6, <1>7, <2>3 DEF Awaited
    <3> QED BY <2>1, <2>2, <3>1, <3>2
  <2>4. CASE r.name = 2
    <3>1. Awaited(r, live) = Elements(r.seen) \cup Due(f)
      BY <1>2, <2>4 DEF Awaited
    <3>2. Awaited(n, live) = Elements(n.seen)
      BY <1>6, <1>7, <2>4 DEF Awaited
    <3> QED BY <2>1, <2>2, <3>1, <3>2
  <2> QED BY <1>1, <2>3, <2>4
<1>10. ASSUME ~ n.sampled PROVE n.older \in SUBSET OlderAwaited(n)
  <2>1. n.older = r.older /\ r.older \in SUBSET OlderAwaited(r) /\ Due(f) \in SUBSET Elements(got)
    BY <1>1, <1>2, <1>6, <1>7, <1>10 DEF ScanOK
  <2>2. Elements(n.seen) = Elements(r.seen) \cup Elements(got)
    BY <1>4, <1>6, <1>7
  <2>3. r.name = 1 => r.held = f
    BY <1>1, <1>2 DEF HeldBy
  <2>4. OlderAwaited(r) \in SUBSET Elements(n.seen)
    BY <2>1, <2>2, <2>3 DEF OlderAwaited
  <2> QED BY <2>1, <2>4 DEF OlderAwaited
<1>11. ReadOK(n, live, Coming)
  BY <1>1, <1>4, <1>5, <1>6, <1>7, <1>8, <1>9, <1>10 DEF ReadOK
<1> QED BY <1>11 DEF n
------------------------------------------------------------------------------
(***************************************************************************)
(* The dashboard beside the log: every Read is as ReadOK says, in every    *)
(* state.                                                                  *)
(***************************************************************************)
ReadsOK == \A c \in Conns : read[c] = NoRead \/ ReadOK(read[c], live, Coming)

DInv == PInv /\ Ordered /\ SlotInv /\ ReadsOK

LEMMA StillComing ==
  ASSUME UNCHANGED vars
  PROVE  UNCHANGED <<live, backup, Coming>>
BY DEF vars, Coming, Buffered, InHand, Entries

\* The log goes on beside the Reads.
LEMMA LogReads ==
  ASSUME DInv, LogStep
  PROVE  ReadsOK'
<1>1. /\ PInv /\ Ordered /\ [Next]_vars /\ ReadsOK
      /\ read' = [c \in Conns |-> Beside(read[c])]
  BY DEF DInv, LogStep
<1>2. Coming' \in SUBSET Coming /\ PInv' /\ Ordered'
  BY <1>1, ComingShrinks, NextPInv, NextOrdered
<1>3. ASSUME NEW c \in Conns, read[c] # NoRead
      PROVE  ReadOK(Beside(read[c]), live', Coming')
  <2>1. PICK r : r = read[c]
    OBVIOUS
  <2>2. ReadOK(r, live, Coming) /\ r # NoRead
    BY <1>1, <1>3, <2>1 DEF ReadsOK
  <2>3. CASE ~ Renamed
    <3>1. Beside(read[c]) = r
      BY <2>1, <2>3 DEF Beside
    <3>2. /\ \/ live = NoFile
             \/ /\ Sound(live) /\ Sound(live')
                /\ Apart(live) \in SUBSET Apart(live') /\ Due(live) \in SUBSET Due(live')
          /\ live' # NoFile => EventsOf(live'.entries) \in SUBSET Coming
      BY <1>1, <2>3, PathMoves
    <3> QED BY <1>2, <2>2, <3>1, <3>2, MoveBeside
  <2>4. CASE Renamed
    <3>1. PICK q : q = [r EXCEPT !.held = IF r.grows THEN live ELSE @, !.grows = FALSE,
                                 !.rotated = @ \/ <<r.at, r.name>> \in {<<"scanning", 1>>, <<"opening", 2>>}]
      OBVIOUS
    <3>2. Beside(read[c]) = q
      BY <2>1, <2>2, <2>4, <3>1 DEF Beside
    <3>3. live \in Files /\ live' = NoFile
      BY <1>1, <2>4, FilesSound DEF Renamed, Sound
    <3>4. ReadOK(q, NoFile, Coming')
      BY <1>2, <2>2, <3>1, <3>3, RenameBeside
    <3> QED BY <3>2, <3>3, <3>4
  <2> QED BY <2>3, <2>4
<1>4. ASSUME NEW c \in Conns PROVE read'[c] = NoRead \/ ReadOK(read'[c], live', Coming')
  <2>1. read'[c] = Beside(read[c])
    BY <1>1
  <2>2. CASE read[c] = NoRead
    BY <2>1, <2>2 DEF Beside
  <2>3. CASE read[c] # NoRead
    BY <1>3, <2>1, <2>3
  <2> QED BY <2>2, <2>3
<1> QED BY <1>4 DEF ReadsOK

\* A Read becomes another.
LEMMA ReadMoves ==
  ASSUME ReadsOK, SlotInv, UNCHANGED vars, NEW c \in Conns,
         NEW q, q = NoRead \/ ReadOK(q, live, Coming), read' = [read EXCEPT ![c] = q]
  PROVE  ReadsOK'
<1>1. live' = live /\ Coming' = Coming
  BY StillComing
<1>2. DOMAIN read = Conns
  BY DEF SlotInv, ConnTypes
<1>3. ASSUME NEW d \in Conns PROVE read'[d] = NoRead \/ ReadOK(read'[d], live', Coming')
  <2>1. read'[d] = IF d = c THEN q ELSE read[d]
    BY <1>2
  <2> QED BY <1>1, <2>1 DEF ReadsOK
<1> QED BY <1>3 DEF ReadsOK

LEMMA FailReads ==
  ASSUME DInv, NEW c \in Conns, ReadFails(c)
  PROVE  ReadsOK'
<1>1. PICK q : q = [NewRead EXCEPT !.at = "failed"]
  OBVIOUS
<1>2. ReadOK(q, live, Coming)
  BY <1>1, NewReadOK
<1>3. ReadsOK /\ SlotInv /\ UNCHANGED vars /\ read' = [read EXCEPT ![c] = q]
  BY <1>1 DEF DInv, ReadFails, Becomes
<1> QED BY <1>2, <1>3, ReadMoves

LEMMA OpenReads ==
  ASSUME DInv, NEW c \in Conns, OpenName(c)
  PROVE  ReadsOK'
<1>1. PICK r : r = read[c]
  OBVIOUS
<1>2. PICK q : q = Begun(r)
  OBVIOUS
<1>3. r # NoRead /\ r.at = "opening" /\ PInv /\ Ordered /\ SlotInv /\ ReadsOK
  BY <1>1 DEF OpenName, DInv
<1>4. ReadOK(r, live, Coming)
  BY <1>1, <1>3 DEF ReadsOK
<1>5. q.name = r.name
  BY <1>2, <1>3, <1>4, OwedTaken
<1>6. q = Begun(read[c])
  BY <1>1, <1>2
<1>7. PICK f : f = Named(Name(r.name))
  OBVIOUS
<1>8. PICK start : start = (IF BytesOf(f) > TailBytes THEN BytesOf(f) - TailBytes ELSE 0)
  OBVIOUS
<1>9. PICK grows : grows = (Name(r.name) = "path")
  OBVIOUS
<1>10. \/ f = NoFile /\ Becomes(c, NextName(q))
       \/ f # NoFile /\ Becomes(c, Scanning(q, start, grows, IF grows THEN NoFile ELSE f))
       \/ ReadFails(c)
  BY <1>5, <1>6, <1>7, <1>8, <1>9 DEF OpenName, Scanning
<1>11. ASSUME NEW n, ReadOK(n, live, Coming), Becomes(c, n) PROVE ReadsOK'
  BY <1>3, <1>11, ReadMoves DEF Becomes
<1>12. CASE f = NoFile /\ Becomes(c, NextName(q))
  <2>1. ReadOK(NextName(q), live, Coming)
    BY <1>2, <1>3, <1>4, <1>7, <1>12, PassedOver
  <2> QED BY <1>11, <1>12, <2>1
<1>13. CASE f # NoFile /\ Becomes(c, Scanning(q, start, grows, IF grows THEN NoFile ELSE f))
  <2>1. PICK n : n = Scanning(q, start, grows, IF grows THEN NoFile ELSE f)
    OBVIOUS
  <2>2. ReadOK(n, live, Coming)
    BY <1>2, <1>3, <1>4, <1>7, <1>8, <1>9, <1>13, <2>1, Opened
  <2> QED BY <1>11, <1>13, <2>1, <2>2
<1> QED BY <1>10, <1>12, <1>13, FailReads

LEMMA ScanReads ==
  ASSUME DInv, NEW c \in Conns, Scan(c)
  PROVE  ReadsOK'
<1>1. PICK r : r = read[c]
  OBVIOUS
<1>2. PICK f : f = Held(r)
  OBVIOUS
<1>3. r # NoRead /\ r.at = "scanning" /\ PInv /\ Ordered /\ SlotInv /\ ReadsOK
  BY <1>1 DEF Scan, DInv
<1>4. ReadOK(r, live, Coming)
  BY <1>1, <1>3 DEF ReadsOK
<1>5. Sound(f) /\ r.start \in Nat /\ r.torn \in Int
  <2>1. ScanOK(r, live, Coming) /\ r \in ReadTypes
    BY <1>3, <1>4 DEF ReadOK
  <2> QED BY <1>2, <2>1 DEF ScanOK, HeldBy, Held, ReadTypes
<1> DEFINE end == Min({f.bytes, r.start + TailBytes})
           cut == end < f.bytes /\ \A i \in DOMAIN f.entries : Offset(f.entries, i) # end
           broken == Cardinality({i \in DOMAIN f.entries : ~ IsWhole(f.entries[i])})
           got == EventsRead(f.entries, r.start, end)
           lost == InvalidLines(f.entries, r.start, end)
           torn == r.torn + broken + (IF cut THEN 1 ELSE 0)
           q == Seeing(r, r.seen \o got, r.invalid + lost, torn)
<1>6. /\ got \in Seq(Events) /\ Ascends(got) /\ Elements(got) \in SUBSET EventsOf(f.entries)
      /\ lost \in Int /\ broken \in Nat /\ lost <= broken + (IF cut THEN 1 ELSE 0)
      /\ r.start = 0 => Due(f) \in SUBSET Elements(got)
  BY <1>5, ScanIs
<1>7. ReadFails(c) \/ Becomes(c, NextName(q))
  BY <1>1, <1>2 DEF Scan, Seeing
<1> HIDE DEF end, cut, broken, got, lost
<1>8. torn \in Int /\ r.torn + lost <= torn
  BY <1>5, <1>6
<1> HIDE DEF torn, q
<1>9. q = Seeing(r, r.seen \o got, r.invalid + lost, torn)
  BY DEF q
<1>10. ReadOK(NextName(q), live, Coming)
  BY <1>2, <1>3, <1>4, <1>6, <1>8, <1>9, Scanned
<1>11. ASSUME NEW n, ReadOK(n, live, Coming), Becomes(c, n) PROVE ReadsOK'
  BY <1>3, <1>11, ReadMoves DEF Becomes
<1> QED BY <1>7, <1>10, <1>11, FailReads

LEMMA ViewerReads ==
  ASSUME DInv, NEW c \in Conns, ViewerStep(c)
  PROVE  ReadsOK'
<1>1. SlotInv /\ ReadsOK
  BY DEF DInv
<1>2. CASE Accept(c) \/ CloseConn(c)
  <2>1. UNCHANGED <<vars, read>>
    BY <1>2 DEF Accept, CloseConn
  <2> QED BY <1>1, <2>1, StillComing DEF ReadsOK
<1>3. CASE Request(c)
  <2>1. UNCHANGED vars /\ read' = [read EXCEPT ![c] = NewRead] /\ ReadOK(NewRead, live, Coming)
    BY <1>3, NewReadOK DEF Request
  <2> QED BY <1>1, <2>1, ReadMoves
<1>4. CASE Respond(c)
  <2>1. UNCHANGED vars /\ read' = [read EXCEPT ![c] = NoRead]
    BY <1>4 DEF Respond
  <2> QED BY <1>1, <2>1, ReadMoves
<1> QED BY <1>2, <1>3, <1>4, OpenReads, ScanReads DEF ViewerStep

LEMMA NextReads ==
  ASSUME DInv, [DashNext]_allVars
  PROVE  DInv'
<1>1. PInv /\ Ordered /\ SlotInv /\ ReadsOK
  BY SMTT(30) DEF DInv
<1>2. [Next]_vars
  BY DEF DashNext, allVars, LogStep, ViewerStep, Accept, Request, CloseConn, OpenName, Scan,
         Respond, ReadFails, Becomes, StopServing, ServeReturns
<1>3. PInv' /\ Ordered' /\ SlotInv'
  BY <1>1, <1>2, NextPInv, NextOrdered, NextSlots
<1>4. ReadsOK'
  <2>1. CASE UNCHANGED <<vars, read>>
    BY <1>1, <2>1, StillComing DEF ReadsOK
  <2>2. CASE StopServing \/ UNCHANGED allVars
    BY <2>1, <2>2 DEF StopServing, allVars, viewVars
  <2>3. CASE ServeReturns
    <3>1. read' = [c \in Conns |-> NoRead]
      BY <2>3 DEF ServeReturns
    <3> QED BY <3>1 DEF ReadsOK
  <2> QED BY <2>2, <2>3, LogReads, ViewerReads DEF DashNext
<1> QED BY <1>3, <1>4 DEF DInv

LEMMA InitReads == DashInit => DInv
<1> SUFFICES ASSUME DashInit PROVE DInv
  OBVIOUS
<1>1. Init /\ read = [c \in Conns |-> NoRead]
  BY DEF DashInit
<1>2. PInv
  BY <1>1, InitPInv
<1>3. Ordered
  <2>1. Retained = <<>> /\ Buffered = <<>>
    <3>1. live = EmptyFile /\ backup = NoFile /\ writer = "stat" /\ queue = <<>>
      BY <1>1 DEF Init
    <3>2. Entries(live) = <<>> /\ Entries(backup) = <<>>
      BY <3>1 DEF Entries, EmptyFile
    <3>3. InHand = <<>>
      BY <3>1 DEF InHand
    <3> QED BY <3>1, <3>2, <3>3 DEF Retained, Buffered
  <2>2. Good(<<>>)
    BY DEF Good
  <2> QED BY <2>1, <2>2, ElementTypes DEF Ordered, Before
<1>4. SlotInv
  BY InitSlots
<1> QED BY <1>1, <1>2, <1>3, <1>4 DEF DInv, ReadsOK

LEMMA DashInvariance == DashSpec => []DInv
BY InitReads, NextReads, PTL DEF DashSpec

(***************************************************************************)
(* What the page shows.                                                    *)
(***************************************************************************)
\* A Read that is done has ascending events.
LEMMA SeenIs ==
  ASSUME DInv, NEW c \in Reads
  PROVE  /\ read[c].seen \in Seq(Events) /\ Ascends(read[c].seen)
         /\ read[c].invalid <= read[c].torn
         /\ read[c].at = "done" /\ ~ read[c].sampled /\ ~ read[c].rotated
              => read[c].owed \in SUBSET Elements(read[c].seen)
         /\ read[c].at = "done" /\ ~ read[c].sampled => read[c].older \in SUBSET Elements(read[c].seen)
<1>1. PICK r : r = read[c]
  OBVIOUS
<1>2. ReadOK(r, live, Coming)
  BY <1>1 DEF DInv, ReadsOK, Reads
<1>3. r.seen \in Seq(Events)
  BY <1>2 DEF ReadOK, ReadTypes
<1>4. ASSUME r.at = "done", ~ r.sampled, ~ r.rotated PROVE r.owed \in SUBSET Elements(r.seen)
  <2>1. Awaited(r, live) = Elements(r.seen)
    BY <1>4 DEF Awaited
  <2> QED BY <1>2, <1>4, <2>1 DEF ReadOK
<1>5. ASSUME r.at = "done", ~ r.sampled PROVE r.older \in SUBSET Elements(r.seen)
  BY <1>2, <1>5 DEF ReadOK, OlderAwaited
<1> QED BY <1>1, <1>2, <1>3, <1>4, <1>5 DEF ReadOK

\* However the log rotates under a Read, the page is a window of sessions, each
\* with its own newest events and the status they tell, and the ring keeps them
\* in the order in which they began: for any files, tails, windows and viewers.
THEOREM ViewCorrect == DashSpec => []ViewConsistent
<1>1. DInv => ViewConsistent
  <2> SUFFICES ASSUME DInv, NEW c \in Reads
               PROVE  LET seen == read[c].seen
                          view == Sessions(seen)
                          Began(i) == view.table[view.order[i]].start
                          Since(s) == {e \in Range(seen) : SessionOf[e] = s /\ e >= view.table[s].start}
                      IN /\ \A i, j \in DOMAIN seen : i < j => seen[i] < seen[j]
                         /\ Len(view.order) <= Window
                         /\ Cardinality(DOMAIN view.table) = Len(view.order)
                         /\ Range(view.order) = DOMAIN view.table
                         /\ \A i, j \in DOMAIN view.order :
                              i < j => (Began(i) < Began(j) <=> ~ (i < view.next /\ view.next <= j))
                         /\ seen # <<>> => SessionOf[seen[Len(seen)]] \in DOMAIN view.table
                         /\ \A s \in DOMAIN view.table :
                              /\ Newest(Keep, view.table[s].events, Since(s))
                              /\ TellsStatus(view.table[s].status, Since(s))
    BY DEF ViewConsistent
  <2>1. PICK seen : seen = read[c].seen
    OBVIOUS
  <2>2. seen \in Seq(Events) /\ Ascends(seen)
    BY <2>1, SeenIs
  <2>3. /\ ViewInv(Sessions(seen), Elements(seen))
        /\ seen # <<>> => SessionOf[seen[Len(seen)]] \in DOMAIN Sessions(seen).table
    BY <2>2, SessionsIs
  <2>4. Range(seen) = Elements(seen) /\ DOMAIN seen = 1..Len(seen)
    BY <2>2, RangeIs
  <2> DEFINE view == Sessions(seen)
             Since(s) == {e \in Range(seen) : SessionOf[e] = s /\ e >= view.table[s].start}
  <2>5. RingNames(view) /\ RingOrder(view) /\ RowsTell(view, Elements(seen)) /\ view.order \in Seq(Names)
    BY <2>3 DEF ViewInv, Views
  <2>6. DOMAIN view.order = 1..Len(view.order) /\ Range(view.order) = DOMAIN view.table
    BY <2>5 DEF RingNames, Range
  <2>7. \A i, j \in DOMAIN seen : i < j => seen[i] < seen[j]
    BY <2>2, <2>4 DEF Ascends
  <2>8. \A s \in DOMAIN view.table : SinceIn(view, s, Elements(seen)) = Since(s)
    BY <2>4 DEF SinceIn
  <2>9. \A s \in DOMAIN view.table :
          Newest(Keep, view.table[s].events, Since(s)) /\ TellsStatus(view.table[s].status, Since(s))
    <3> HIDE DEF view, Since
    <3> QED BY <2>5, <2>8 DEF RowsTell
  <2>10. \A i, j \in DOMAIN view.order :
           i < j => (view.table[view.order[i]].start < view.table[view.order[j]].start
                     <=> ~ (i < view.next /\ view.next <= j))
    <3> HIDE DEF view
    <3> QED BY <2>5, <2>6 DEF RingOrder, BeganIn
  <2>11. Len(view.order) <= Window /\ Cardinality(DOMAIN view.table) = Len(view.order)
    BY <2>5 DEF RingNames
  <2> QED BY <2>1, <2>3, <2>6, <2>7, <2>9, <2>10, <2>11
<1> QED BY <1>1, DashInvariance, PTL

(***************************************************************************)
(* What a page leaves out.                                                 *)
(***************************************************************************)
\* The last of the newest events of a set is the latest of them all.
LEMMA NewestEnds ==
  ASSUME NEW X \in SUBSET Events, X # {}, NEW events \in Seq(Events), Newest(Keep, events, X)
  PROVE  events[Len(events)] = Max(X) /\ Max(X) \in X /\ \A x \in X : x <= Max(X)
<1> DEFINE n == Len(events)
           m == Max(X)
<1>1. /\ n \in Nat /\ Range(events) = {events[i] : i \in 1..n} /\ Range(events) \in SUBSET X
      /\ \A i, j \in 1..n : i < j => events[i] < events[j]
      /\ \A e \in X \ Range(events) : n = Keep /\ e < events[1]
  BY RangeIs DEF Newest, Elements
<1>2. m \in X /\ \A x \in X : x <= m
  <2>1. MaxEvents \in Nat /\ X \in SUBSET (0..MaxEvents)
    BY EventLogAssumption DEF Events
  <2> QED BY <2>1, MaxIs
<1>3. X \in SUBSET Nat
  BY DEF Events
<1> HIDE DEF n, m
<1>4. n # 0
  <2> SUFFICES ASSUME n = 0 PROVE FALSE
    OBVIOUS
  <2>1. Range(events) = {}
    BY <1>1
  <2> QED BY <1>1, <1>2, <2>1, DashboardAssumption
<1>5. 1 \in 1..n /\ n \in 1..n /\ \A i \in 1..n : events[i] \in X /\ events[i] <= events[n]
  <2>1. 1 \in 1..n /\ n \in 1..n
    BY <1>1, <1>4
  <2>2. ASSUME NEW i \in 1..n PROVE events[i] \in X /\ events[i] <= events[n]
    <3>1. events[i] \in Nat /\ events[n] \in Nat /\ events[i] \in X
      BY <1>1, <1>3, <2>1
    <3>2. i = n \/ i < n
      BY <1>1
    <3> QED BY <1>1, <2>1, <3>1, <3>2
  <2> QED BY <2>1, <2>2
<1>t. m \in Nat /\ events[1] \in Nat /\ events[n] \in Nat
  BY <1>2, <1>3, <1>5
<1>6. m <= events[n]
  <2>1. CASE m \in Range(events)
    <3>1. PICK i \in 1..n : m = events[i]
      BY <1>1, <2>1
    <3> QED BY <1>5, <3>1
  <2>2. CASE m \notin Range(events)
    <3>1. m < events[1] /\ events[1] <= events[n]
      BY <1>1, <1>2, <1>5, <2>2
    <3> QED BY <1>t, <3>1
  <2> QED BY <2>1, <2>2
<1>7. events[n] = m
  <2>1. events[n] <= m
    BY <1>2, <1>5
  <2> QED BY <1>t, <1>6, <2>1
<1> QED BY <1>2, <1>7 DEF n, m

\* A session of the table ends with the last of its events that was read.
LEMMA EndIs ==
  ASSUME NEW seen \in Seq(Events), NEW s \in DOMAIN Sessions(seen).table,
         ViewInv(Sessions(seen), Elements(seen))
  PROVE  End(Sessions(seen).table[s]) = Ended(seen, s)
<1> DEFINE view == Sessions(seen)
           row == view.table[s]
           X == SinceIn(view, s, Elements(seen))
           Y == {e \in Range(seen) : SessionOf[e] = s}
<1>1. /\ Range(seen) = Elements(seen) /\ Elements(seen) \in SUBSET Events /\ Events \in SUBSET Nat
      /\ MaxEvents \in Nat /\ Events \in SUBSET (0..MaxEvents)
  BY RangeIs, ElementTypes, EventLogAssumption DEF Events
<1>2. row.events \in Seq(Events) /\ row.start \in Events
  BY StartIn DEF ViewInv
<1>3. row.start \in Elements(seen) /\ SessionOf[row.start] = s /\ Newest(Keep, row.events, X)
  BY DEF ViewInv, RowsTell
<1>4. /\ X \in SUBSET Y /\ Y \in SUBSET Events /\ row.start \in X
      /\ \A e \in Y : e >= row.start => e \in X
  <2>1. row.start >= row.start
    <3> HIDE DEF row
    <3>1. row.start \in Nat
      BY <1>1, <1>2
    <3>2. \A i \in Nat : i >= i
      OBVIOUS
    <3> QED BY <3>1, <3>2
  <2> QED BY <1>1, <1>3, <2>1 DEF SinceIn
<1>5. Ended(seen, s) = TimeOf[Max(Y)] /\ End(row) = TimeOf[row.events[Len(row.events)]]
  BY DEF Ended, End
<1> HIDE DEF view, row, X, Y
<1>6. row.events[Len(row.events)] = Max(X) /\ Max(X) \in X /\ \A x \in X : x <= Max(X)
  <2>1. X \in SUBSET Events /\ X # {}
    BY <1>4
  <2> QED BY <1>2, <1>3, <2>1, NewestEnds
<1>7. Max(Y) \in Y /\ \A y \in Y : y <= Max(Y)
  <2>1. Y \in SUBSET (0..MaxEvents) /\ Y # {}
    BY <1>1, <1>4
  <2> QED BY <1>1, <2>1, MaxIs
<1>8. Max(Y) \in X
  BY <1>1, <1>4, <1>7
<1>9. Max(X) = Max(Y)
  <2>1. Max(Y) <= Max(X) /\ Max(X) <= Max(Y)
    BY <1>4, <1>6, <1>7, <1>8
  <2>2. Max(X) \in Nat /\ Max(Y) \in Nat
    BY <1>1, <1>4, <1>6, <1>7
  <2> QED BY <2>1, <2>2
<1>10. End(row) = Ended(seen, s)
  BY <1>5, <1>6, <1>9
<1> QED BY <1>10 DEF row, view

\* When no session was evicted, an event that was read is on the page, or the bounds
\* of the page leave it out.
LEMMA Accounted ==
  ASSUME NEW seen \in Seq(Events), ViewInv(Sessions(seen), Elements(seen)), ~ Sessions(seen).evicted,
         NEW page \in Pages(Sessions(seen)), NEW e \in Elements(seen),
         ~ Shown(Sessions(seen), page, e)
  PROVE  LeftOut(Sessions(seen), seen, page, e)
<1> DEFINE view == Sessions(seen)
           all == DOMAIN view.table
           s == SessionOf[e]
           row == view.table[s]
<1>1. s \in all /\ row.start <= e
  BY DEF ViewInv, NoneEvicted
<1>2. e \in Nat /\ row.start \in Nat /\ row.events \in Seq(Events) /\ Events \in SUBSET Nat
  <2>1. row.start \in Events /\ row.events \in Seq(Events) /\ e \in Events
    BY <1>1, StartIn, ElementTypes DEF ViewInv
  <2> QED BY <2>1 DEF Events
<1>3. e \in SinceIn(view, s, Elements(seen)) /\ Newest(Keep, row.events, SinceIn(view, s, Elements(seen)))
  <2>1. row.start <= e => e >= row.start
    BY <1>2
  <2> QED BY <1>1, <2>1 DEF SinceIn, ViewInv, RowsTell
<1>4. \A t \in all : End(view.table[t]) = Ended(seen, t)
  BY EndIs
<1>5. /\ page \in SUBSET all
      /\ Cardinality(page) = IF Cardinality(all) > PageSize THEN PageSize ELSE Cardinality(all)
      /\ \A t \in page, u \in all \ page : End(view.table[t]) >= End(view.table[u])
  BY DEF Pages
<1>6. IsFiniteSet(all)
  BY DEF ViewInv, RingNames
<1>7. s \in page => e \notin Range(row.events)
  BY DEF Shown
<1> HIDE DEF view, all, s, row
<1>8. ASSUME s \in page PROVE Len(row.events) = Keep /\ \A n \in Range(row.events) : e < n
  <2>1. /\ Len(row.events) = Keep /\ e < row.events[1] /\ Len(row.events) \in Nat
        /\ Range(row.events) = {row.events[i] : i \in 1..Len(row.events)}
        /\ \A i, j \in 1..Len(row.events) : i < j => row.events[i] < row.events[j]
    BY SMTT(30), <1>2, <1>3, <1>7, <1>8, RangeIs DEF Newest, Elements
  <2>2. ASSUME NEW i \in 1..Len(row.events) PROVE e < row.events[i]
    <3>1. 1 \in 1..Len(row.events) /\ (i = 1 \/ 1 < i)
      BY <2>1
    <3>2. row.events[1] \in Nat /\ row.events[i] \in Nat
      <4>1. row.events[1] \in Events /\ row.events[i] \in Events
        BY <1>2, <3>1
      <4> QED BY <1>2, <4>1
    <3>3. CASE 1 < i
      <4>1. row.events[1] < row.events[i]
        BY <2>1, <3>1, <3>3
      <4> QED BY <1>2, <2>1, <3>2, <4>1
    <3> QED BY <2>1, <3>1, <3>3
  <2> QED BY <2>1, <2>2
<1>9. ASSUME s \notin page
      PROVE  Cardinality(page) = PageSize /\ \A t \in page : Ended(seen, t) >= Ended(seen, s)
  <2>1. Cardinality(page) # Cardinality(all)
    BY <1>1, <1>5, <1>6, <1>9, FS_Subset
  <2> QED BY <1>1, <1>4, <1>5, <1>9, <2>1
<1> QED BY <1>1, <1>8, <1>9 DEF LeftOut, view, all, s, row

\* A page that does not say it is a sample accounts for every event of a record of
\* its own line that the two files held when Read began - of the backup alone when
\* the log rotated between the two openings - and for every event that was read: the
\* page shows it, or has as many newer events of its session, or as many sessions
\* that ended no earlier, as it names.  Each line counted as invalid has a torn
\* record to blame.  For any files, tails, windows, pages and viewers.
THEOREM MissesNothing == DashSpec => []NothingMissed
<1>1. DInv => NothingMissed
  <2> SUFFICES ASSUME DInv, NEW c \in Reads, read[c].at = "done"
               PROVE  LET r == read[c]
                      IN /\ r.invalid <= r.torn
                         /\ ~ Sampled(r) => Tells(r, Promised(r) \cup Range(r.seen))
    BY DEF NothingMissed
  <2>1. PICK r : r = read[c]
    OBVIOUS
  <2>2. /\ r.seen \in Seq(Events) /\ Ascends(r.seen) /\ r.invalid <= r.torn
        /\ ~ r.sampled /\ ~ r.rotated => r.owed \in SUBSET Elements(r.seen)
        /\ ~ r.sampled => r.older \in SUBSET Elements(r.seen)
    BY <2>1, SeenIs
  <2>3. ViewInv(Sessions(r.seen), Elements(r.seen))
    BY <2>2, SessionsIs
  <2>4. ASSUME ~ Sampled(r) PROVE Tells(r, Promised(r) \cup Range(r.seen))
    <3>1. ~ r.sampled /\ ~ Sessions(r.seen).evicted
      BY <2>4 DEF Sampled
    <3>2. Promised(r) \cup Range(r.seen) \in SUBSET Elements(r.seen)
      BY <2>2, <3>1, RangeIs DEF Promised
    <3>3. \A page \in Pages(Sessions(r.seen)), e \in Elements(r.seen) :
            Shown(Sessions(r.seen), page, e) \/ LeftOut(Sessions(r.seen), r.seen, page, e)
      BY <2>2, <2>3, <3>1, Accounted
    <3> QED BY <3>2, <3>3 DEF Tells
  <2> QED BY <2>1, <2>2, <2>4
<1> QED BY <1>1, DashInvariance, PTL
==============================================================================
