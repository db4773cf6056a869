------------------------------ MODULE LogView ------------------------------
(***************************************************************************)
(* What the dashboard makes of the bytes of a log file                     *)
(* (internal/dashboard/dashboard.go, the loop of Read): the lines in the   *)
(* window that is read, the records that parse, and the table of sessions  *)
(* with its ring of evictions, and the sessions of it that a page lists.   *)
(* There is no state here.                                                 *)
(*                                                                         *)
(* A file is a sequence of entries [event, bytes].  The last byte of a     *)
(* record ends its line; an entry shorter than its event's record was      *)
(* torn, and what follows it is glued to it.                               *)
(***************************************************************************)
EXTENDS Integers, Sequences, FiniteSets

CONSTANTS
  RecordLength,  \* the length of the record of an event
  MaxToken,      \* the longest line that the scanner takes (16384 bytes)
  Window,        \* sessions in the table (2000)
  Keep,          \* events kept of a session (40)
  PageSize,      \* sessions on a page (50)
  TimeOf,        \* the time in an event
  SessionOf,     \* the session of an event
  KindOf,        \* the kind of an event
  NoSession      \* an event of no session
-----------------------------------------------------------------------------
(* Lines *)

IsWhole(entry) == entry.bytes = RecordLength[entry.event]

\* Where entry i of a file ends.
Offset(entries, i) ==
  LET end[n \in 0..Len(entries)] == IF n = 0 THEN 0 ELSE end[n - 1] + entries[n].bytes
  IN  end[i]

\* Where lines end in the bytes that follow a, up to b.
Breaks(entries, a, b) ==
  {n \in {Offset(entries, i) : i \in {j \in DOMAIN entries : IsWhole(entries[j])}} :
     a < n /\ n <= b}

\* Mutant: the first line is discarded from a file that is read whole as well.
LineStartsLater(entries, a, b) == Breaks(entries, a, b) \ {b}

\* Where lines start in the window from a to b.  When the window does not begin
\* with the file, the bytes up to the first end of a line are discarded.
LineStarts(entries, a, b) ==
  (Breaks(entries, a, b) \cup (IF a = 0 THEN {0} ELSE {})) \ {b}

\* Where the line that starts at s ends: at a break, or with the window.
LineEnd(entries, s, b) ==
  CHOOSE e \in {b} \cup Breaks(entries, s, b) : \A n \in Breaks(entries, s, b) : e <= n

\* A line does not fit in the scanner's buffer, which an unterminated line must
\* leave a place in.
TooLong(entries, a, b) ==
  \E s \in LineStarts(entries, a, b) :
    LET e == LineEnd(entries, s, b)
    IN e - s > MaxToken - (IF e \in Breaks(entries, s, b) THEN 0 ELSE 1)

\* The bytes from s to e are the record of entry i, with or without its end of
\* line, and nothing else.
IsRecord(entries, i, s, e) ==
  /\ s = Offset(entries, i - 1)
  /\ e \in s + RecordLength[entries[i].event] - 1..Offset(entries, i)

\* The entries whose lines parse, and how many lines do not.
Parsed(entries, a, b) ==
  {i \in DOMAIN entries : \E s \in LineStarts(entries, a, b) :
     IsRecord(entries, i, s, LineEnd(entries, s, b))}

InvalidLines(entries, a, b) ==
  Cardinality(LineStarts(entries, a, b)) - Cardinality(Parsed(entries, a, b))

\* The events of the sessions among them, in the order of the lines.
EventsRead(entries, a, b) ==
  LET parsed == Parsed(entries, a, b)
      got[n \in 0..Len(entries)] ==
        IF n = 0 THEN <<>>
        ELSE IF n \in parsed /\ SessionOf[entries[n].event] # NoSession
        THEN Append(got[n - 1], entries[n].event) ELSE got[n - 1]
  IN  got[Len(entries)]
-----------------------------------------------------------------------------
(* The table of sessions *)

NoSessions == [table |-> <<>>, order |-> <<>>, next |-> 1, evicted |-> FALSE]

NewSession(e) == [start |-> e, status |-> "observed", commands |-> 0, events |-> <<>>]

\* The sessions in kept, and the new session s.
With(table, kept, s, e) == [x \in kept \cup {s} |-> IF x = s THEN NewSession(e) ELSE table[x]]

\* A session that is not in the table takes the place of the oldest one there
\* when the table is full.
Place(view, s, e) ==
  IF s \in DOMAIN view.table THEN view
  ELSE IF Cardinality(DOMAIN view.table) < Window
  THEN [view EXCEPT !.table = With(@, DOMAIN @, s, e), !.order = Append(@, s)]
  ELSE [table |-> With(view.table, DOMAIN view.table \ {view.order[view.next]}, s, e),
        order |-> [view.order EXCEPT ![view.next] = s],
        next |-> (view.next % Window) + 1, evicted |-> TRUE]

\* The kinds of events that give a session its status, whatever it was.
Told == [connect |-> "connected", victory |-> "vault recovered", limit |-> "limited",
         handshake_error |-> "handshake failed"]

StatusAfter(status, kind) ==
  IF kind \in DOMAIN Told THEN Told[kind]
  ELSE IF kind = "disconnect" /\ status = "connected" THEN "disconnected"
  ELSE status

\* The newest events of a session push out the oldest.
Recorded(session, e) ==
  [session EXCEPT
     !.events = Append(IF Len(@) >= Keep THEN Tail(@) ELSE @, e),
     !.commands = @ + (IF KindOf[e] = "command" THEN 1 ELSE 0),
     !.status = StatusAfter(@, KindOf[e])]

AddEvent(view, e) ==
  LET s == SessionOf[e]
  IN  [Place(view, s, e) EXCEPT !.table[s] = Recorded(@, e)]

Sessions(events) ==
  LET view[n \in 0..Len(events)] ==
        IF n = 0 THEN NoSessions ELSE AddEvent(view[n - 1], events[n])
  IN  view[Len(events)]
-----------------------------------------------------------------------------
(* The page *)

\* A session ends with its last event so far.  Events are dated when they are
\* emitted, and may be written in another order.
End(session) == TimeOf[session.events[Len(session.events)]]

\* What a page may list: the sessions that ended last, as many as it holds.  Which
\* comes first of two that ended together is left open.
Pages(view) ==
  LET all == DOMAIN view.table
      size == IF Cardinality(all) > PageSize THEN PageSize ELSE Cardinality(all)
  IN  {page \in SUBSET all :
         /\ Cardinality(page) = size
         /\ \A s \in page, t \in all \ page : End(view.table[s]) >= End(view.table[t])}
=============================================================================
