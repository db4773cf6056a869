----------------------------- MODULE Dashboard -----------------------------
(***************************************************************************)
(* The dashboard (internal/dashboard/dashboard.go) beside the event log:   *)
(* another process, which only reads.  Connections come through            *)
(* limitedListener to an HTTP server, whose handler lets a few requests    *)
(* Read path.1 and then path, while the log writes, rotates, dies and      *)
(* starts again.                                                           *)
(*                                                                         *)
(* An open file is followed by its inode: a file that is renamed or        *)
(* removed keeps what it holds, and only the file at path still grows.     *)
(* The scanner reads until it finds the end of the file, so what it has    *)
(* read in pieces is what the file holds at that moment.                   *)
(***************************************************************************)
EXTENDS EventLog, FiniteSetsExt, Functions

CONSTANTS
  Conns,          \* the connections of viewers
  ListenerSlots,  \* slots of limitedListener (8)
  HandlerSlots,   \* slots of Handler (2)
  TailBytes,      \* how much of a file is read (2 MiB)
  MaxToken, Window, Keep, PageSize, TimeOf, SessionOf, KindOf, NoSession  \* see LogView

ASSUME DashboardAssumption ==
  /\ IsFiniteSet(Conns)
  /\ ListenerSlots \in Nat \ {0} /\ HandlerSlots \in Nat \ {0}
  /\ TailBytes \in Nat \ {0} /\ MaxToken \in Nat \ {0}
  /\ Window \in Nat \ {0} /\ Keep \in Nat \ {0} /\ PageSize \in Nat \ {0}
  /\ TimeOf \in [Events -> Nat]

INSTANCE LogView WITH RecordLength <- Length

VARIABLES
  conn,      \* what became of each connection
  slots,     \* how many values limitedListener's channel holds
  busy,      \* how many values Handler's channel holds
  serving,   \* the HTTP server: "up", "closed" or "down"
  read       \* the Read of each connection's handler

viewVars == <<conn, slots, busy, serving, read>>
allVars == <<vars, viewVars>>

\* The two names in the order in which Read opens them.
\* Mutant: the file first, its backup second.
NameSwapped(i) == IF i = 1 THEN "path" ELSE "path.1"

Name(i) == IF i = 1 THEN "path.1" ELSE "path"

Named(name) == IF name = "path" THEN live ELSE backup

\* A Read: the name it is at, and the file it holds if that no longer grows.
\* The last four are history: the events of both files, and of the backup alone, when
\* it began, the torn entries it has met, and whether the log rotated between its two
\* openings.
NewRead == [at |-> "opening", name |-> 1, held |-> NoFile, grows |-> FALSE, start |-> 0,
            seen |-> <<>>, invalid |-> 0, sampled |-> FALSE,
            owed |-> {}, older |-> {}, torn |-> 0, rotated |-> FALSE]

\* No handler of the connection is in Read.
NoRead == [NewRead EXCEPT !.at = "none"]

Held(r) == IF r.grows THEN live ELSE r.held

DashInit ==
  /\ Init
  /\ conn = [c \in Conns |-> "none"]
  /\ slots = 0 /\ busy = 0 /\ serving = "up"
  /\ read = [c \in Conns |-> NoRead]
-----------------------------------------------------------------------------
(* The log goes on meanwhile. *)

\* The file that grows at path is renamed.
Renamed == live # NoFile /\ live' = NoFile

Beside(r) ==
  IF r = NoRead \/ ~ Renamed THEN r
  ELSE [r EXCEPT !.held = IF r.grows THEN live ELSE @, !.grows = FALSE,
                 !.rotated = @ \/ <<r.at, r.name>> \in {<<"scanning", 1>>, <<"opening", 2>>}]

LogStep ==
  /\ Next
  /\ read' = [c \in Conns |-> Beside(read[c])]
  /\ UNCHANGED <<conn, slots, busy, serving>>
-----------------------------------------------------------------------------
(* Connections.  One that finds no slot is closed at once, and a request    *)
(* that names another host, lacks the token, is no GET or HEAD of "/" or    *)
(* finds Handler busy is answered without a step of its own here.           *)

Accept(c) ==
  /\ serving = "up" /\ conn[c] = "none"
  /\ slots < ListenerSlots
  /\ conn' = [conn EXCEPT ![c] = "open"]
  /\ slots' = slots + 1
  /\ UNCHANGED <<vars, busy, serving, read>>

\* The connection is closed and, once, its slot is given back.
\* Mutant: every call of Close gives a slot back.
ReleaseEach(c) == slots' = slots - 1

Release(c) == slots' = IF conn[c] = "closed" THEN slots ELSE slots - 1

\* The peer has left, or a timeout of the server has passed: the goroutine of a
\* connection closes it when no handler runs.
CloseConn(c) ==
  /\ conn[c] \in {"open", "closed"} /\ read[c] = NoRead
  /\ Release(c)
  /\ conn' = [conn EXCEPT ![c] = "none"]
  /\ UNCHANGED <<vars, busy, serving, read>>

Request(c) ==
  /\ conn[c] = "open" /\ read[c] = NoRead
  /\ busy < HandlerSlots
  /\ busy' = busy + 1
  /\ read' = [read EXCEPT ![c] = NewRead]
  /\ UNCHANGED <<vars, conn, slots, serving>>

\* The handler answers with the page or with an error, and its deferred function
\* gives the place back.
Respond(c) ==
  /\ read[c] # NoRead /\ read[c].at \in {"done", "failed"}
  /\ busy' = busy - 1
  /\ read' = [read EXCEPT ![c] = NoRead]
  /\ UNCHANGED <<vars, conn, slots, serving>>

\* The context of Serve is done: the HTTP server closes the listener and the
\* connections, whose goroutines close them once more.
StopServing ==
  /\ serving = "up"
  /\ serving' = "closed"
  /\ slots' = slots - Cardinality({c \in Conns : conn[c] = "open"})
  /\ conn' = [c \in Conns |-> IF conn[c] = "open" THEN "closed" ELSE conn[c]]
  /\ UNCHANGED <<vars, busy, read>>

\* Serve returns, and the process ends with its handlers and connections.
ServeReturns ==
  /\ serving \in {"up", "closed"}
  /\ serving' = "down"
  /\ conn' = [c \in Conns |-> "none"] /\ slots' = 0
  /\ read' = [c \in Conns |-> NoRead] /\ busy' = 0
  /\ UNCHANGED vars
-----------------------------------------------------------------------------
(* Read *)

Becomes(c, r) == read' = [read EXCEPT ![c] = r] /\ UNCHANGED <<vars, conn, slots, busy, serving>>

ReadFails(c) == Becomes(c, [NewRead EXCEPT !.at = "failed"])

\* A name is done with: the other one is opened, or the view is complete.
NextName(r) ==
  [r EXCEPT !.at = IF r.name = 1 THEN "opening" ELSE "done", !.name = 2,
            !.held = NoFile, !.grows = FALSE, !.start = 0]

\* The events of the sessions in records that share no line with a torn one.
Apart(f) ==
  {f.entries[i].event : i \in {j \in DOMAIN f.entries :
     /\ IsWhole(f.entries[j]) /\ SessionOf[f.entries[j].event] # NoSession
     /\ j > 1 => IsWhole(f.entries[j - 1])}}

ApartIn(files) == UNION {Apart(f) : f \in files \ {NoFile}}

\* What is noted when Read begins.
Begun(r) ==
  IF r.name = 1
  THEN [r EXCEPT !.owed = ApartIn({live, backup}), !.older = ApartIn({backup})] ELSE r

\* A name that does not exist is passed over; of a long file the tail is read.
OpenName(c) ==
  LET r == Begun(read[c])
      f == Named(Name(r.name))
      grows == Name(r.name) = "path"
      start == IF BytesOf(f) > TailBytes THEN BytesOf(f) - TailBytes ELSE 0
  IN /\ read[c] # NoRead /\ read[c].at = "opening"
     /\ \/ f = NoFile /\ Becomes(c, NextName(r))
        \/ f # NoFile /\ Becomes(c, [r EXCEPT !.at = "scanning", !.start = start,
                !.grows = grows, !.held = IF grows THEN NoFile ELSE f,
                !.sampled = @ \/ start > 0])
        \/ ReadFails(c)

\* The loop over the lines up to the end of the file, or of the tail when the
\* file has grown.  The peer may have left, and the request's context be done:
\* the next line then ends the Read.
Scan(c) ==
  LET r == read[c]
      f == Held(r)
      end == Min({f.bytes, r.start + TailBytes})
      cut == end < f.bytes /\ \A i \in DOMAIN f.entries : Offset(f.entries, i) # end
      broken == Cardinality({i \in DOMAIN f.entries : ~ IsWhole(f.entries[i])})
  IN /\ r # NoRead /\ r.at = "scanning"
     /\ \/ TooLong(f.entries, r.start, end) /\ ReadFails(c)
        \/ LineStarts(f.entries, r.start, end) # {} /\ ReadFails(c)
        \/ /\ ~ TooLong(f.entries, r.start, end)
           /\ Becomes(c, NextName([r EXCEPT
                !.seen = @ \o EventsRead(f.entries, r.start, end),
                !.invalid = @ + InvalidLines(f.entries, r.start, end),
                !.torn = @ + broken + (IF cut THEN 1 ELSE 0)]))

ViewerStep(c) ==
  \/ Accept(c) \/ Request(c) \/ CloseConn(c)
  \/ OpenName(c) \/ Scan(c) \/ Respond(c)

DashNext ==
  \/ LogStep
  \/ \E c \in Conns : ViewerStep(c)
  \/ StopServing
  \/ ServeReturns

DashSpec == DashInit /\ [][DashNext]_allVars
-----------------------------------------------------------------------------
(* Properties *)

Reads == {c \in Conns : read[c] # NoRead}

\* A sequence is the newest n of a set of events, in order.
Newest(n, events, set) ==
  /\ Range(events) \subseteq set /\ Len(events) <= n
  /\ \A i, j \in DOMAIN events : i < j => events[i] < events[j]
  /\ \A e \in set \ Range(events) : Len(events) = n /\ e < events[1]

\* What a session's status says of its events: the last that gives a status
\* tells, and a disconnect tells only of a session that was last connected.
TellsStatus(status, events) ==
  LET LastOf(kinds) == Max({0} \cup {e \in events : KindOf[e] \in kinds})
      mark == LastOf(DOMAIN Told)
  IN status = IF mark = 0 THEN "observed"
              ELSE IF KindOf[mark] = "connect" /\ LastOf({"disconnect"}) > mark
              THEN "disconnected" ELSE Told[KindOf[mark]]

\* However the log rotates under a Read, the view holds no event twice and none
\* before an older one, and the table built from it is a window of sessions,
\* each with its own newest events and the status they tell.  From next on
\* around the ring they are in the order in which they began, so that the one
\* that makes room is the oldest.
ViewConsistent ==
  \A c \in Reads :
    LET seen == read[c].seen
        view == Sessions(seen)
        Began(i) == view.table[view.order[i]].start
        Since(s) == {e \in Range(seen) : SessionOf[e] = s /\ e >= view.table[s].start}
    IN /\ \A i, j \in DOMAIN seen : i < j => seen[i] < seen[j]
       /\ Len(view.order) <= Window
       /\ Cardinality(DOMAIN view.table) = Len(view.order)
       /\ Range(view.order) = DOMAIN view.table
       /\ \A i, j \in DOMAIN view.order :
            i < j => (Began(i) < Began(j) <=> ~ (i < view.next /\ view.next <= j))
       /\ seen # <<>> => SessionOf[seen[Len(seen)]] \in DOMAIN view.table
       /\ \A s \in DOMAIN view.table :
            /\ Newest(Keep, view.table[s].events, Since(s))
            /\ TellsStatus(view.table[s].status, Since(s))

\* The page says that it is a sample.
Sampled(r) == r.sampled \/ Sessions(r.seen).evicted

\* The time of the last event of a session in the lines that were read.
Ended(seen, s) == TimeOf[Max({e \in Range(seen) : SessionOf[e] = s})]

Shown(view, page, e) ==
  SessionOf[e] \in page /\ e \in Range(view.table[SessionOf[e]].events)

\* The bounds that a page names leave an event out: its session is listed with as
\* many events as are kept, all of them newer, or it is known but not listed, and as
\* many others are that ended no earlier.
LeftOut(view, seen, page, e) ==
  LET s == SessionOf[e]
  IN  /\ s \in DOMAIN view.table
      /\ s \in page =>
           /\ Len(view.table[s].events) = Keep
           /\ \A n \in Range(view.table[s].events) : e < n
      /\ s \notin page =>
           /\ Cardinality(page) = PageSize
           /\ \A t \in page : Ended(seen, t) >= Ended(seen, s)

\* Whatever page is made of a Read, it shows these events or leaves them out within
\* the bounds that it names.
Tells(r, events) ==
  LET view == Sessions(r.seen)
  IN  \A page \in Pages(view), e \in events : Shown(view, page, e) \/ LeftOut(view, r.seen, page, e)

\* Of the events that a Read found in records of their own lines when it began: those
\* of the backup, and those of the other file unless the log rotated before Read came
\* to it, when they are in the file that Read did not open.
Promised(r) == IF r.rotated THEN r.older ELSE r.owed

\* A page that does not say it is a sample accounts for every event that was promised
\* and for every one that was read: it shows it, or has the last PageSize sessions
\* without the event's, or the last Keep events of the session without this one.  Each
\* line that is counted as invalid has a torn record to blame.
NothingMissed ==
  \A c \in Reads :
    LET r == read[c]
    IN r.at = "done" =>
         /\ r.invalid <= r.torn
         /\ ~ Sampled(r) => Tells(r, Promised(r) \cup Range(r.seen))

\* The last line of a page: "Last 50 sessions, up to 40 events each".  So it would be
\* of the files that Read began with, if a rotation made no difference.
LastSessions ==
  \A c \in Reads : LET r == read[c] IN r.at = "done" /\ ~ Sampled(r) => Tells(r, r.owed)

\* Slots are neither lost nor given back twice: limitedListener holds one for
\* each open connection, Handler one for each Read, through failed and cancelled
\* reads, connections that outlive their peer, and the stop of the server.
SlotsExact ==
  /\ slots = Cardinality({c \in Conns : conn[c] = "open"})
  /\ busy = Cardinality(Reads) /\ busy <= HandlerSlots
=============================================================================
