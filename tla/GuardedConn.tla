---------------------------- MODULE GuardedConn ----------------------------
(***************************************************************************)
(* guardedConn (internal/honeypot/limits.go): the deadlines and the byte   *)
(* budgets of one connection, and the peer and the clock around it.  The   *)
(* connection is made at time 0.  Time is a counter; whatever has come due *)
(* happens at that time or later.                                          *)
(***************************************************************************)
EXTENDS Integers, Sequences

CONSTANTS
  HandshakeTimeout, IdleTimeout, MaxLifetime,   \* the options of Config
  MaxRead, MaxWrite,                            \* the budgets of guard
  MaxTime                                       \* bound: the clock

\* What Config.Validate makes sure of.
ASSUME GuardAssumption ==
  /\ HandshakeTimeout \in Nat \ {0} /\ IdleTimeout \in Nat \ {0}
  /\ MaxLifetime \in Nat /\ MaxLifetime >= IdleTimeout
  /\ MaxRead \in Nat \ {0} /\ MaxWrite \in Nat \ {0}
  /\ MaxTime \in Nat /\ MaxTime > MaxLifetime

VARIABLES
  now,         \* the time
  open,        \* this side has not closed the socket
  peerOpen,    \* neither has the peer
  phase,       \* g.phase, 0 for none
  reader,      \* "none", "computed": it has its deadline, "blocked": in the socket's Read
  due,         \* the deadline that the reader has computed
  deadline,    \* the read deadline of the socket
  began,       \* history: when the reader computed its deadline
  inPhase,     \* history: it did so while a phase was in force
  readBytes,   \* g.readBytes
  writeBytes,  \* g.writeBytes
  wrote        \* history: what was given to the socket

guardVars == <<now, open, peerOpen, phase, reader, due, deadline, began, inPhase,
               readBytes, writeBytes, wrote>>
readVars == <<reader, due, deadline, began, inPhase>>
writeVars == <<writeBytes, wrote>>
timeVars == <<now, open, peerOpen>>

Earliest(S) == CHOOSE t \in S : \A u \in S : t <= u

\* guard, at time 0.
GuardInit ==
  /\ now = 0 /\ open = TRUE /\ peerOpen = TRUE
  /\ phase = HandshakeTimeout
  /\ reader = "none" /\ due = 0 /\ deadline = 0 /\ began = 0 /\ inPhase = FALSE
  /\ readBytes = 0 /\ writeBytes = 0 /\ wrote = 0

Deadline(d) == Earliest({now + d, MaxLifetime} \union (IF phase = 0 THEN {} ELSE {phase}))
-----------------------------------------------------------------------------
(* Read, in three steps: another goroutine may change the phase and the    *)
(* socket's deadline between them.                                         *)

OutOfBudget == readBytes >= MaxRead

ComputeDeadline ==
  /\ reader = "none" /\ ~OutOfBudget
  /\ reader' = "computed"
  /\ due' = Deadline(IdleTimeout)
  /\ began' = now /\ inPhase' = (phase # 0)
  /\ UNCHANGED deadline

SetDeadline ==
  /\ reader = "computed"
  /\ reader' = "blocked"
  /\ deadline' = due
  /\ UNCHANGED <<due, began, inPhase>>

\* Both at once, where no other goroutine touches the connection.
BeginRead ==
  /\ reader = "none" /\ ~OutOfBudget
  /\ reader' = "blocked"
  /\ due' = Deadline(IdleTimeout) /\ deadline' = due'
  /\ began' = now /\ inPhase' = (phase # 0)

\* The Read returns n bytes, at most what the budget leaves.
Returned(n) ==
  /\ reader = "blocked" /\ open
  /\ readBytes' = readBytes + n /\ readBytes' <= MaxRead
  /\ reader' = "none" /\ due' = 0 /\ deadline' = 0 /\ began' = 0 /\ inPhase' = FALSE

TimedOut == reader = "blocked" /\ open /\ now >= deadline

StopReading == reader' = "none" /\ due' = 0 /\ deadline' = 0 /\ began' = 0 /\ inPhase' = FALSE

\* Write of n bytes: counted first, refused past the budget; otherwise the socket
\* takes them, or the write deadline ends it.
Write(n, ok) ==
  /\ writeBytes' = writeBytes + n
  /\ n > 0 /\ ok => open /\ writeBytes' <= MaxWrite
  /\ wrote' = IF ok THEN wrote + n ELSE wrote
-----------------------------------------------------------------------------
Tick ==
  /\ now < MaxTime
  /\ now' = now + 1
  /\ UNCHANGED <<open, peerOpen, phase, readVars, readBytes, writeVars>>

\* The timer of handle closes the socket.
Expire ==
  /\ open /\ now >= MaxLifetime
  /\ open' = FALSE
  /\ UNCHANGED <<now, peerOpen, phase, readVars, readBytes, writeVars>>

\* The peer closes its side.  What a peer does is seen by a Read only, so that it
\* does it while one waits.
Leave ==
  /\ reader = "blocked" /\ open /\ peerOpen
  /\ peerOpen' = FALSE
  /\ UNCHANGED <<now, open, phase, readVars, readBytes, writeVars>>
=============================================================================
