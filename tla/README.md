# MudPot in TLA+

TLA+ modules, TLC configurations and TLAPS proofs for MudPot v2, the adventure
honeypot under `src/`. Each module is translated from the Go source; the README
says what corresponds to what, what every run shows, what is proved, and what is
left.

## The system

`mudpot serve` (`cmd/mudpot/main.go`) loads and validates an adventure, opens
the event log, binds the listeners and serves until a signal. `mudpot
dashboard` is another process that reads the log's two files.

| Part | Source | State it keeps | Operations |
| --- | --- | --- | --- |
| Server lifecycle | `honeypot/server.go` | listeners, `closing`, `closeOnce`, wait group, `errCh` | `New`, `Serve`, `Close`, `accept`, `handle` |
| Admission | `honeypot/limits.go:11-53` | `active`, `ips`, `closed` under one mutex | `acquire`, `release`, `closeAll` |
| Guarded connection | `honeypot/limits.go:55-104` | phase deadline, byte counters | `Read`, `Write`, `deadline` |
| Command budget | `honeypot/limits.go:106-120` | window start, two counters | `allow` |
| Plain protocols | `honeypot/plain.go`, `terminal.go` | probe phase; Telnet, escape and CR state | `handlePlain`, `serveTerminal`, `serveHTTP`, `serveFTP`, `line` |
| SSH session | `honeypot/ssh.go` | `accepted`, `finished`, request counts | `handleSSH`, `serveSSHChannel` |
| Key store | `honeypot/keys.go` | three files | `hostKey`, `tlsCertificate`, `privateFile` |
| Event log | `eventlog/log.go` | queue, `closed`, `failed`, `dropped`, file, backup | `Open`, `Emit`, `Close`, `run` |
| Adventure session | `adventure/game.go`, `guidance.go` | room, inventory, unlocked, panel, rewards | `Run`, `nextCommand` |
| World | `adventure/config.go` | immutable after `Load` | `Load`, `Validate` |
| Dashboard | `dashboard/dashboard.go` | slots; a view per request | `Serve`, `Handler`, `Read` |
| Service | `cmd/mudpot/main.go` | none of its own | `run` and its deferred calls |

How they interact. Each accept loop is a goroutine; each admitted connection
has one more, which owns an adventure session and a lifetime timer. Handlers
share the admission table (a mutex), the wait group, the world (read only) and
the logger. `Emit` never blocks: it puts an event in a bounded channel or
counts it as dropped. One writer goroutine empties the channel into a file and
rotates it to `path.1`. The writer's first error goes to `Errors()`, on which
`Serve` selects together with the context, `closing` and the results of the
loops. `Close` runs once, closes listeners and admitted sockets, and `Serve`
then waits for the goroutines. `run` closes the server before the log. The
dashboard shares nothing with the server but the two files.

What is hard: `Close` against a connection between `Accept` and its admission;
the order of the deferred calls of a handler against `closeAll`; results that
nobody receives; handlers that stall above the socket; `Emit` against `Close`
of the log; a kill in the middle of a rotation or of a record; a panel left
open, gates that need a key and an answer, and a search for hints that must
not circle. `PROJECT.json` lists these hazards at their lines.

## What makes each part correct

* Server and admission: limits never exceeded, exact counters, no socket
  outside the table, nothing left after `Serve` returns, `nil` only when asked
  to stop, and a stop that ends.
* Event log: no send on a closed channel, bounded files, a reader finds a
  contiguous newest part of what was stored, and `Close` stores what was
  accepted.
* Adventure: nothing is entered, read or taken that the exits, keys and answers
  did not allow; one victory; suggestions that work and lead to the end.
* World: what validation accepts can be played to the end.
* Guarded connection and protocols: fragmentation changes neither what a peer
  said nor who serves him; no read waits past what its stage allows, and no
  established connection is cut before; a session has one user, and ends.
* Dashboard: what a page shows was stored, is in order and there once, and it
  accounts for every event of the files unless it says it is a sample or the log
  rotated meanwhile.
* Key store and service: one identity for ever, and a service that comes back.

## Modules

| Module | Models | Checked by |
| --- | --- | --- |
| `Server` | server lifecycle and admission | `server`, `server_live` |
| `ServerProofs` | theorems about `Server` | TLAPS |
| `Journal` | what the event log promises: a bounded buffer before a bounded journal | as a property of `eventlog` |
| `EventLog` | the event log, the life of its process, its files | `eventlog` |
| `EventLogProofs` | theorems about `EventLog`; that it implements `Journal` | TLAPS |
| `World` | worlds, `Validate` and its search | with `Adventure` |
| `Adventure` | a session, its hints, and a visitor who follows them | `adventure`, `guide`, `reserved_answer`, `one_way_fork` |
| `AdventureProofs` | theorems about `Adventure` | TLAPS |
| `GuardedConn` | the socket's deadlines and budgets, the clock, the lifetime timer | with `Connection` |
| `Terminal`, `Keystrokes` | the line reader, one byte at a time; what a whole stream of bytes means | with `Connection` |
| `KeystrokesProofs` | lemmas: `Terminal` does to a stream what `Keystrokes` says | TLAPS |
| `Console` | the services that read lines, and the command budget (extends `GuardedConn`, `Terminal`) | with `Connection` |
| `PlainConn` | the probe, the choice of a service, HTTP (extends `Console`) | with `Connection` |
| `SSHSession` | the goroutines of an SSH connection over the multiplexer (extends `Console`) | with `Connection` |
| `Connection` | one admitted connection of any kind | `connection`, `ssh_lifetime` |
| `ConnectionProofs` | theorems about `Connection` and the modules it extends | TLAPS |
| `LogView` | lines, records, the table of sessions and what a page lists of it: operators only | with `Dashboard` |
| `Dashboard` | the dashboard beside the log (extends `EventLog`) | `dashboard`, `page` |
| `DashboardProofs` | theorems about `Dashboard` | TLAPS |
| `KeyStore` | the three private files | with `Service` |
| `Service` | `mudpot serve` under its service manager (extends `KeyStore`) | `service` |
| `ServiceProofs` | a theorem about `Service` | TLAPS |
| `SetInduction` | induction and recursion over intervals, which the proofs cite | TLAPS |
| `MCServer`, `MCEventLog`, `MCAdventure`, `MCConnection`, `MCDashboard`, `MCService` | the instances | |

### Server

`serve` is the position of the goroutine that runs `New` and then `Serve`,
`once` how far `closeOnce`'s function has come (any caller may have started
it), `loop[ep]` and `handler[c]` those of the goroutines; `held[ep]` is the
connection in the hand of a loop. Each action is one step between two points at
which another goroutine may run: `CheckClosing`, `Admit` and `Spawn` are the
three parts of the loop's body, `CloseConn`, `ReleaseConn` and `HandlerDone`
the handler's deferred calls in the order in which they run. `Acquire`,
`Release` and `CloseAll` are atomic because the code holds the table's mutex.
`Return(c)` is a handler that returns for any reason; a stalled handler is one
that does not take it. `AcceptFails` yields an error of its own at any time, and
`net.ErrClosed` once the listener is closed. `Select` takes any ready case, as
Go does.

### Event log

`emitter[g]`, `closer` and `writer` are the positions of the goroutines. The
read lock is held from `BeginEmit` to the end of `CheckOpen` or `Send`; a
waiting `Close` keeps new readers out, as `sync.RWMutex` does. Rotation is the
four actions `CloseFile`, `Remove`, `Rename`, `Create`, each of which may fail;
`Write` may leave a part of the record. `Crash` may come at any step, also in
the middle of a record, and loses all but the files; `Start` opens them again.
An event is the number of its `Emit`, a record its length, and a file the
entries it holds. Encoding an event cannot fail (its fields are strings,
numbers and a time), so the branches for it have no action.

### World and Adventure

A world is a record of rooms, exits, puzzles and rewards; `Validate` is the
code's `Validate` without its rules about text. A line is given to `Run` in the
forms the code derives from it: first word, rest, rest with underscores, and
the whole without spaces. `AtPanel` is the part of `Run` before the command
switch, `Command` the switch, `Move`, `Read`, `Take`, `Use` and `Reward` its
functions. `NextCommand` is the search of `guidance.go`: `Enqueue` appends the
rooms behind one step of the queue, in the order of the directions, `Action` is
what is left to do in a room, `Suggestion` what is said of it. The code's loop
ends because every room is queued once; the function counts that down.
`reply` and `hint` are what the visitor sees. Every reachable behaviour of a
session is a sequence of `Run(l)`.

### Connection

`GuardedConn` has `Read` in parts: the deadline is computed (`ComputeDeadline`),
set on the socket (`SetDeadline`), and the socket's `Read` returns bytes, times
out or fails. A plain connection has one goroutine, for which the first two are
one step; for SSH they are apart while `handleSSH` may still clear the phase and
set a deadline of its own. Time is a counter. The code takes no time: the clock
advances (`Pass`) while a read waits or the multiplexer waits for room, and the
peer sends or leaves only then, because nothing but a read sees what he does.
What has come due may happen late.

`PlainConn.stage` is the position in `handle` and `handlePlain`: TLS handshake,
probe, prefix, HTTP header, service. `wire` is what waits in the socket and
`buf` what the `bufio.Reader` holds, so that a byte is peeked at before it is
consumed. `Console` is `serveTerminal` and `serveFTP`: greet, take bytes until a
line, count it against the budget, answer. What an answer says is not modelled;
that it may fail, end the session, or wait for a peer who does not read, is: the
answer to a line that is too long as well (`Said`), which FTP does not give.

`Terminal.Byte` is the body of `line`'s loop: the state after a byte, what
`line` returns, what is echoed. A correction takes away the last rune, of one to
four bytes, which is found from the end of the line, as `utf8.DecodeLastRune`
does (`RuneSize`). `Keystrokes` says the same of a whole stream without a state
between bytes: which bytes are payload, which of them are keys, which end lines,
and what corrections leave of a line. There a row is cut into runes from its
beginning, and a correction drops the last of them (`WithoutLast`).

`SSHSession` has an action for each step of the goroutines of `ssh.go`
(`MainStep`, `DenyGlobal`, `ChanStep`, `DrainRequest`). The multiplexer of
`x/crypto/ssh` is not in the repository: it is one loop that hands a packet to
the queue of its receiver and handles nothing else while that queue is full; a
channel's writes wait for the window that the peer opens. One packet is one unit
of the read budget; the transport's own small buffer is left out.

### Dashboard

`LogStep` is any step of `EventLog`, with its kills and restarts; the viewers'
steps change nothing of the log. `OpenName` opens and stats one of the two names,
`Scan` is the loop over its lines. A Read keeps the file it has opened: `Beside`
lets it keep what a rotation renames, and only the file at `path` grows under it.
The scanner goes on until the end of the file, so all its reads are as one at
that moment, up to the limit of the tail. Lines are computed from the bytes: a
torn entry ends no line, so the next is glued to it; a record torn just before
its end of line still parses as long as it is the last. `Sessions` is the table
with its ring, and `Pages` what follows the loop: the sessions that ended last,
as many as a page holds, in any of the orders that the sort may give to equal
times. Events are dated when they are emitted and written in another order, so
the times of a file need not ascend. `CloseConn` is the HTTP server's second,
third or only `Close`.

Two cuts are silent: a session keeps its 40 newest events, and a page lists 50
sessions. The page names both bounds and calls itself a sample only when a tail
was read or a session evicted. `NothingMissed` says what follows for a reader of
the page: an event of the files that he does not find there is older than 40
others of its session, or its session ended no later than 50 others. What the
files held is noted when a Read begins (`Begun`). A rotation between the two
openings hides the file that was renamed, so after one only the backup's events
are promised (`Promised`); that the page then leaves out the last sessions
without a notice is the finding of the run `page`. Read in the other order the
events would appear twice (`NameSwapped`).

The code also sets `Sampled` at the 1001st different command of its counts,
which are left out: the model's page says less often that it is a sample, and
`NothingMissed` asks more of it.

### Service and key store

`phase` is the position in `run`; `Load`, `Keys`, `Bind`, `Drain` and `Return`
are its parts, `StartFails` an early return, `Dies` a kill or a failed operation
at any point. `KeyStore.step` is the position in `privateFile`: `lstat`, `read`
or `open` and `write`, then `parse`. Another process, started by hand on the
same directory and ports, is in the same functions at the same time. The exit
status decides whether the service manager starts the service again, as
`Restart=on-failure` in `deploy/mudpot.service` does. The order in which `run`
closes the server and the log needs no property of its own here: `Serve` returns
with no handler left (`ReturnedDrained`) and `Close` of the log then stores what
it accepted (`CloseStoresAll`).

## Runs

| Run | Shows | Bounds |
| --- | --- | --- |
| `server` | seven invariants and action properties of admission and shutdown | two listeners, three connections, two addresses, a table of two, one per address: the table, the address limit and the map's keys all fill and empty |
| `server_live` | `Serve` returns once told to stop; a plain connection gives its slot back | two listeners, two connections, a table of one |
| `eventlog` | safety, that the log implements `Journal`, that `Close` returns and accepted events are stored | two emitters, a queue of two, six events, files of four bytes, two restarts; records of one and two bytes, one that is cut |
| `adventure` | safety of a session and its hints, for every line in any order | the embedded world, a world with an exit named `n`, 256 small worlds of a hub with two rooms |
| `guide` | hints settle, and complete a world whose rooms one can leave again | the same worlds |
| `reserved_answer` | finding: an answer that is also a panel word | the embedded world with the answer `cancel` |
| `connection` | a connection of each kind: bytes, lines, the choice of a service, deadlines, the command window, the goroutines of SSH, and that it ends | lifetime three, timeouts two, probe one; three pieces of up to four bytes from a set that cuts every sequence, lines of three bytes and runes of one to three; a window of two commands, four in a session; queues of one, four packets |
| `ssh_lifetime` | finding: a lifetime that does not end an SSH connection | the same with six packets, SSH only |
| `dashboard` | order and completeness of what a viewer reads while the log writes, rotates, fails, dies and starts again; the slots | five events of two lengths and of three sessions, files of two records, one restart; a tail shorter than a file, a table of two sessions of two events, a page of one; two viewers for one slot of the listener |
| `page` | finding: a page without a notice that leaves out the last sessions | as `dashboard`, with one viewer |
| `service` | one identity, and a service that comes back | the service and a server started by hand, two faults or kills |
| `one_way_fork` | finding: validation accepts worlds with a room out of reach | the hub worlds with a key behind a one-way exit |

The bounds suffice for what they check: but for the handler's slots, which one
viewer at a time cannot exhaust and the proof of `SlotsExact` covers, every counter meets both its limits,
every pair of goroutines that share state is present with a third party, the
files rotate more than once with a crash between any two steps, and the hub
worlds hold every combination of open, keyed and puzzle exits, two-way and
one-way, with the keys and rewards in each room. In `connection` every timeout
meets the others (probe before idle, idle before and at the lifetime), the line
and command limits are passed, and both byte budgets run out. In `dashboard` a
rotation falls between any two steps of a Read, files are read whole and in
part, lines are glued, cut and too long; one session has more events than are
kept, is evicted and created anew by its fifth event, which is a disconnect; two
sessions end at one time and an event is written after a later one. In `service`
each of the three files may be cut, and two of them in one behaviour.

Deadlock is checked in `server`, `server_live`, `guide` and `reserved_answer`
(`Stopped` is the server's end). It is off in `eventlog`, whose
events and restarts are bounded, in `dashboard` and `page` for the same reason, in
`adventure` and `one_way_fork`, where the visitor may quit, in `connection` and
`ssh_lifetime`, where a connection ends, and in `service`, which may be stopped.

Fairness. Goroutines run (`ServeStep`, `CloseStep`, `LoopProgress`,
`WriterStep`: weak fairness), timers fire, and a system call on a file returns,
with or without an error. A handler of a plain or TLS connection returns once
its socket is closed, because all it does is read and write it. A handler of an
SSH connection gets no such promise: it also waits for the multiplexer of
`x/crypto/ssh`, and the properties say what holds without it (`StopReturns`
names the exception, `SlotReturned` is about the others). Nobody must connect,
emit, call `Close`, send a signal or restart the process. The visitor who
follows hints answers a challenge rightly if he can try it for ever, and the
generation of the decoy key does not fail for ever (strong fairness).

In `connection` the code, the clock and the lifetime timer go on (`WF_vars(Run)`:
a connection takes finitely many steps, so that fairness of all is fairness of
each); the peer need not do anything. In `service` processes run and the service
manager starts what it owes a start; kills, faults, stops and starts by hand
happen or not. That `Return` comes after `Drain` rests on `Serve` returning,
which `StopReturns` shows under its own assumption about handlers of SSH.

Four runs expect a violation, and `findings` in `PROJECT.json` describes them.
* `reserved_answer` and `one_way_fork` are disagreements of the code with
  `docs/adventures.md`.
* `ssh_lifetime` is one with what a comment, an option's text and a test say of a
  connection's lifetime. It is what `ConnectionEnds` excepts: `MuxStalled` is the
  only way for a connection to outlive its lifetime. In the counterexample
  `handleSSH` waits in its select; a handler so held keeps its slot, and keeps
  `Serve` from returning.
* `page` is one with the page's last line and `docs/deployment.md`: after a
  rotation between the two openings a page shows no trace of the sessions of a
  whole file, and no notice. The shortest behaviour is the first rotation of all,
  when there is no backup before it: the page is empty.

Seen while modelling, and not contradicted by any text: the race between the SSH
reader's handshake deadline and `handleSSH`'s own, by which one read of an
established connection may end with the handshake's time (`ReadLimit` allows
that read this deadline and no other); up to one less than twice the commands of a minute in one minute
(`CommandsBounded`); a rubout that erases a character which was never echoed, on
the screen of a visitor who types more than ASCII (`LinesOfStream` is about
ASCII there); a key file left short, after which no start succeeds until
somebody removes the file (the exception in `ComesBack`).

## Proofs

The theorems hold for every value of the constants that satisfies the named
assumptions, which are what `Config.Validate`, `Open` and `Validate` enforce.

`ServerProofs` proves, for any listeners, connections, addresses and limits,
`TypeOK`, `AdmissionExact`, `SocketsAccounted`, `ClosedAdmitsNone`,
`WaitGroupExact`, `NilWhenAsked` and `ReturnedDrained`. The invariant adds to
these what each goroutine's position says of the socket it works on: who holds
a connection (a loop, a handler, never both), which sockets may be open there,
and which positions exclude a bound listener or a closed table. The exact
counts need that a connection is in `active` exactly between `Admit` and
`ReleaseConn`; the wait group's count needs that `Spawn` happens in a loop that
is itself counted, so `Wait` cannot have seen zero.

`EventLogProofs` proves `TypeOK`, `NoSendOnClosed` and `FilesBounded` for any
number of emitters, capacity, limit and record lengths. `NoSendOnClosed` needs
that `Close` holds the lock only when no emitter is inside; `FilesBounded` that
the writer's `size` is the file's length whenever it decides to rotate, and
that after a failed or torn write it never writes again in that process.

It also proves `RetainedIsRecent`, `RetainsAFile` and `CloseStoresAll`, and that
`EventLog` implements `Journal`. What a reader finds is the end of what
was stored because only `Remove` takes entries away, from the older file and
always all of them, and `Rename` and `Create` come when there is no backup and
no live file to lose (`Rotation`). `RetainsAFile` needs that a rotation begins
only when the next record would not fit, and that a file's length is the sum of
its entries'. `CloseStoresAll` needs that an accepted event is stored, in the
writer's hand or queued unless the log failed (`Tracked`), and that the writer
ends only with the queue closed and empty (`Drained`). The refinement maps the
journal's buffer to the event in hand and the queue; each step of the log is an
accepted event, a stored entry, a lost buffer, a discarded file or a stutter.
Lengths of files are sums over sequences: that they add up is proved by
induction over prefixes with sets of numbers (`SetInduction`), because the
library's theorems take predicates as parameters.

`ConnectionProofs` proves seven properties of a connection of any kind, for any
stream of the peer, any pieces and any times. For `CommandsBounded` the invariant
splits the commands run so far into those of the open window and those before
it (`Window`), of which fewer than a window's lie within a minute of its start.
`SessionEndsFirst` rests on `accepted`, which is set once and before the session
is opened. `StreamIntact` follows a byte from the wire through the buffer to the
service; `ServedAsAsked` needs it, and that until the choice nothing is consumed
(`Decided`), so that what the probe sees is the beginning of the stream. For
`OpeningBounded` and `CutWhenIdle` the invariant bounds the deadline on the
socket, and the one that a read has computed and not set yet, by the position of
the goroutine that reads (`PlainTimes`); for SSH by that of `handleSSH`, which
moves the deadline under it (`SSHTimes`). A read that computed its deadline before
the phase was cleared is told apart (`raced`), and has the handshake's deadline
at the earliest; the next read is bounded like any other.

The seventh, `LinesOfStream`, says that the reader of lines, which keeps a state
between bytes and sees no byte twice, does what `Keystrokes` says of the whole
stream, layer by layer and looking ahead. `KeystrokesProofs` has the pure part.
Each layer has a run: the reader's state before each byte of the layer below,
with what it has made so far (`Telnet`, `Escapes`, `WithReturns`, `WithRows`).
That a stream grown by a byte has a run grown by a step is short. That what a run
has made is the layer's function of the stream is the work (`TelnetIs`,
`EscapesIs`, `ReturnedIs`, `RowsIs`): a command is skipped as one piece although
the reader goes through it byte by byte (`SkipsCommand`, `SkipsEscape`). Inside a
subnegotiation the reader is in state 4 exactly when the row of IACs before it is
odd (`Inside`), and so leaves it at the first IAC SE that is not part of a longer
row. The pieces are then joined from the end of the stream while the run goes
from its beginning (`JoinedBy`). `ByteReads` puts the layers together for one
byte, with a second run for the screen, which agrees with the line as long as
all keys are ASCII, because only then is a rune one byte. That a correction takes
the same bytes for both, found from the end or counted from the beginning
(`ErasedIs`), needs that runes do not overlap (`RunesApart`): no byte but the first
of a rune can begin one, so the last rune that is found from the end begins where
a rune begins that was counted. In `ConnectionProofs`
the invariant says that the terminal is where a run over `typed` ends
(`ReadLines`); it needs that a service begins once, with a fresh terminal, on a
plain connection and on an SSH channel (`Place`).

`OpeningBounded` counts the time of the probe and of the handshake each for its
own stages (`Allowance`): with a handshake timeout below the probe's, which
`Config.Validate` allows, the probe waits for its own time and no less.

`AdventureProofs` proves all six properties of a session, in every world that
passes validation, of any size, for any lines. `Earned`, `PanelConsistent` and
`RewardsConsistent` are inductive together: a gate that an answer opens is
earned because `PanelConsistent` says that its key is in hand, and what is read
or taken is earned because the room is. The steps rest on two lemmas: what is
earned stays earned when gates open (`EarnedGrows`), and an open exit of an
earned room leads to an earned room (`EarnedStep`).

The guide is proved about through its queue (`QueueOK`): it starts with the
visitor's room, holds no room twice, only rooms that he can walk to, and for each
of them a first direction that he can take. `Enqueue` keeps this and follows every
exit of its step. So when the search ends with nothing, the rooms of the queue
are closed under walking and nothing is left in them, which is `NothingLeft`; and
a step with something left shows that something is, and is told as a command for
the visitor's own room (`Local`). That the search ends before its countdown does
is the pigeonhole principle: no room twice, and finitely many rooms. `Local`
commands stay so while the hint is shown, because `guide` changes nothing, and
`HintRun` shows what `Run` makes of each kind of them: `HintPlayable`. `TypeOK`
needs it for the type of `hint`. `AdventureAssumption` says that a visitor can
send what is suggested: the identifiers of a world are neither empty nor hold
spaces, as `Validate` demands, and rooms are finitely many.

`DashboardProofs` proves `SlotsExact`, `ViewConsistent` and `NothingMissed` for
any number of viewers, any sizes of the table, of the tail and of the longest
line, and any log. For `SlotsExact` both counters are the cardinalities of sets
that a step changes by one connection, and `StopServing`, which closes all at
once, leaves none to be given back a second time.

For the other two the proof has three layers.
* What one pass over a file finds (`ScanIs`). A sound file has entries no longer
  than their records, and its bytes are where its last entry ends. The events of
  its lines then ascend when its entries do; an entry that is whole, with a whole
  one before it, is found when the file is read from its beginning; and lines
  that do not parse are at most as many as entries torn in the window.
* What the table makes of the events (`SessionsIs`), by an invariant of adding
  one more: the names in the ring are those of the table, the ring from `next` on
  is in the order of the sessions' starts, and a row tells the status and the
  newest events of its session.
* What a Read beside the log may still find (`ReadOK`). The log stores events in
  order (`Ordered`), so the events that a file holds or may yet receive only
  shrink, and all that has been seen comes before them, whatever is renamed,
  removed, torn or restarted between two steps of the Read. Unless it was sampled
  or a rotation came in between, what the Read owes has been seen, or is in the
  file it scans or in the one it will open; and what the backup held is in the
  file that was opened first, which a rotation removes but does not change.

`NothingMissed` then follows from what is on a page. Without an eviction the row
of an event's session starts no later than the event, so the event is among those
of which the newest are kept. A session ends with the last of its events that
was read (`EndIs`), because that one is kept, and a page that omits a session of
the table is full, because it is a smaller set (`Accounted`).

`ServiceProofs` proves `OneIdentity` for any number of processes, faults and
kills. A file changes only until it is whole, because the process whose
exclusive open created it is the only one that writes it (`OneWriter`); so a key
that a process holds is for ever the one on disk (`Filed`), a certificate is
made for the TLS key on disk (`Order`), and whoever binds presents the
directory's files (`Presented`). It assumes only that a missing file, a cut file
and nothing are told apart from keys (`KeyAssumption`).

Every invariant and action property that a passing run checks is proved, and so is
the refinement. Only model-checked is liveness, which is out of the provers' reach:
`StopReturns`, `SlotReturned`, `CloseReturns`, `AcceptedIsStored`,
`GuideSettles`, `GuideCompletes`, `ConnectionEnds` and `ComesBack`. What recursive
functions compute is proved about the equation that they satisfy, by induction
over sets of numbers (`SetInduction`).

## Plan

What could be added is the safety part of liveness: that a suggested walk brings
the visitor nearer to what is left (`GuideSettles`), and a measure that every
step of a connection decreases (`ConnectionEnds`).

## Not modelled

The wording of answers, pages and log fields; the parsing of flags, JSON, HTTP
and SSH; `Load`'s reading of an adventure's files and its limits on their text;
the commands `init` and `validate`; cryptography and TLS records; the page
template, and the dashboard's totals and its counts by room and by command, with
the limit of 1000 commands; modes and owners of files; deployment files and scripts but for the restart policy. A write that was
done but not synced when the machine itself stops is left out: nothing in the
code or the documents speaks of it. Records are written in one call, which the
dashboard is taken to see whole or not at all unless the writer fails or dies in
it. `PROJECT.json` lists every component with its status.
