----------------------------- MODULE Connection -----------------------------
(***************************************************************************)
(* One admitted connection, from handle of internal/honeypot/server.go to  *)
(* its return: a plain, a TLS or an SSH connection over the same guarded   *)
(* socket and the same line services, with the timer of its lifetime and a *)
(* peer who sends, stays silent or leaves at any time.                     *)
(***************************************************************************)
EXTENDS PlainConn, SSHSession, Keystrokes

CONSTANTS
  Kinds,       \* the protocols of the endpoints: "tcp", "tls", "ssh"
  Openings,    \* what a plain peer may send before it is served
  Fragments    \* and what it may send to a service, by the number of the piece

ASSUME ConnectionAssumption ==
  /\ Kinds \subseteq {"tcp", "tls", "ssh"}
  /\ Openings \subseteq Seq(0..255)
  /\ \A k \in Kinds \ {"ssh"}, i \in 1..MaxSends : Fragments[k][i] \subseteq Seq(0..255)

VARIABLE kind   \* the protocol of this connection

vars == <<kind, guardVars, consoleVars, plainVars, sshVars>>

Init ==
  /\ kind \in Kinds
  /\ GuardInit /\ ConsoleInit
  /\ PlainInit(kind = "tls")
  /\ SSHInit /\ (kind # "ssh" => window)

\* handle has returned.
Done == IF kind = "ssh" THEN main = "done" ELSE stage = "done"

PlainNext ==
  /\ kind # "ssh"
  /\ PlainStep
  /\ UNCHANGED <<kind, sshVars>>

PeerSends ==
  /\ kind # "ssh"
  /\ Send(IF service \in {"terminal", "ftp"} THEN Fragments[kind][sends + 1] ELSE Openings)
  /\ UNCHANGED <<kind, sshVars>>

SSHDo(Step) == kind = "ssh" /\ Step /\ UNCHANGED <<kind, plainVars>>

Around(Step) == ~Done /\ Step /\ UNCHANGED <<kind, consoleVars, plainVars, sshVars>>

\* The code takes no time; waiting for the peer does, and a multiplexer that waits
\* for room.
Pass == (reader = "blocked" \/ mux \in {"globals", "channels", "requests"}) /\ Tick

\* What the code, the clock and the multiplexer do, and what the peer does.
Run ==
  \/ PlainNext
  \/ SSHDo(SSHStep)
  \/ Around(Pass) \/ Around(Expire)

Peer == PeerSends \/ SSHDo(Packet) \/ Around(Leave)

Next == Run \/ Peer

\* Goroutines run, the clock goes on and the timer of the lifetime fires; the peer
\* need not do anything.  A connection takes finitely many steps, so that fairness
\* of all of these together is fairness of each.
Spec == Init /\ [][Next]_vars /\ WF_vars(Run)
-----------------------------------------------------------------------------
\* No byte of a plain peer is lost, doubled or reordered on its way through the
\* probe to the service, whatever the pieces and the times in which it came.
StreamIntact == kind # "ssh" => sent = typed \o buf \o wire

\* The service that the first four bytes of a stream ask for.
Asked ==
  LET first == SubSeq(sent, 1, 4)
  IN  CASE sent = <<>> -> "terminal"
        [] sent # <<>> /\ sent[1] = TLSRecord -> "tls"
        [] Len(sent) >= 4 /\ first \in Methods -> "http"
        [] Len(sent) >= 4 /\ first = Banner -> "ssh"
        [] Len(sent) >= 4 /\ Upper(first) = User /\ sent[1] = 85 -> "ftp"
        [] OTHER -> "terminal"

\* The choice of a service depends on the first four bytes alone, not on the
\* pieces in which they come; only a peer of whom nothing was received before the
\* probe ended gets the terminal whatever he sends later.
ServedAsAsked ==
  kind # "ssh" /\ service # "none" => service = Asked \/ (service = "terminal" /\ ~heard)

Opening == kind # "ssh" /\ stage \in {"handshake", "probe", "prefix", "http"}

\* The time of a stage.  Nothing says that a handshake's is the longer.
Allowance == IF stage = "probe" THEN ProbeTimeout ELSE HandshakeTimeout

\* Until a peer is served as a player, no read waits beyond the time of the stage,
\* counted from its beginning, however slowly the bytes come.
OpeningBounded ==
  /\ Opening /\ reader = "blocked" => deadline <= entered + Allowance
  /\ kind = "ssh" /\ main = "auth" /\ reader = "blocked" => deadline <= HandshakeTimeout

Established ==
  \/ kind # "ssh" /\ stage = "serve"
  \/ kind = "ssh" /\ main = "select"

\* The read that waits is given up, although both sides are open.
GivenUp == reader = "blocked" /\ open /\ peerOpen /\ reader' = "none" /\ readBytes' = readBytes

\* When the read that waits may be given up.  A deadline that the reader of an SSH
\* connection computed before the phase was cleared, and set after handleSSH had set
\* its own, has the end of the handshake in it.
ReadLimit ==
  Earliest({began + IdleTimeout, MaxLifetime}
           \union (IF kind = "ssh" /\ raced /\ inPhase THEN {HandshakeTimeout} ELSE {}))

\* An established connection is cut only after a whole idle timeout without a
\* byte, or at the end of its lifetime.  The one exception is the read of an SSH
\* connection during which handleSSH cleared the phase between the two halves of
\* guardedConn.Read: that read alone may end with the handshake's time, no earlier,
\* and the next one has its whole idle timeout again.
CutWhenIdle == [][Established /\ GivenUp => now >= ReadLimit]_vars

\* The lines that the services get are those of the whole stream, and so is what
\* a client with a pty sees, as long as he types ASCII; a stream is refused when a
\* corrected line exceeds the limit and not before.
LinesOfStream ==
  LET expected == Lines(typed)
      keys == KeysOf(Payload(typed))
  IN  /\ IF tooLong THEN Front(expected) = lines /\ Len(Last(expected)) = LineMax + 1
                    ELSE expected = Append(lines, term.line)
      /\ echo /\ console # "ended" /\ ToSet(keys) \subseteq 0..127 => Screen(echoed) = expected

\* In any minute fewer than twice the commands of a minute are run, and in a session
\* at most the budget of the session.
CommandsBounded ==
  /\ Len(ran) <= SessionCommands
  /\ \A i \in 1..Len(ran) :
       Cardinality({j \in i..Len(ran) : ran[j] < ran[i] + Minute}) < 2 * CommandsPerMinute

\* At most one goroutine has ever used an SSH session's state, and none does after
\* the connection's last event.
SessionEndsFirst ==
  kind = "ssh" => opened <= 1 /\ (main = "done" => chan \in {"none", "finished"})

\* The multiplexer waits for room in a queue that nobody empties any more.
MuxStalled ==
  \/ mux = "globals" /\ denier = "gone"
  \/ mux = "requests" /\ (drain = "gone" \/ (chan = "exec" /\ Stalled))

\* Every connection ends, with its lifetime at the latest, unless it is an SSH
\* connection whose multiplexer is stalled.
ConnectionEnds == <>(Done \/ (kind = "ssh" /\ MuxStalled))

\* The lifetime of a connection is absolute: what it closes, ends.
LifetimeEnds == <>Done
=============================================================================
