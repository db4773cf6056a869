----------------------------- MODULE SSHSession -----------------------------
(***************************************************************************)
(* An SSH connection: handleSSH and serveSSHChannel of                     *)
(* internal/honeypot/ssh.go.  The code runs four goroutines over the       *)
(* multiplexer of golang.org/x/crypto/ssh, which is not a part of the      *)
(* repository and is modelled from its interface: one loop hands every     *)
(* packet to the queue of its receiver, queues are bounded, and while one  *)
(* is full the loop waits, handles nothing else and sees no error.  A      *)
(* packet stands for one unit of the read budget.                          *)
(***************************************************************************)
EXTENDS Console

CONSTANTS
  QueueCap,       \* the capacity of the multiplexer's queues (16)
  MaxGlobals,     \* the global requests that are answered (128)
  MaxBefore,      \* the channel's requests before a shell or a command (32)
  MaxDuring,      \* the channel's requests during a shell (128)
  Typing,         \* what may be typed in a shell: sequences of bytes
  MaxPackets      \* bound: what the peer sends

ASSUME SSHAssumption ==
  /\ QueueCap \in Nat \ {0} /\ MaxGlobals \in Nat /\ MaxBefore \in Nat /\ MaxDuring \in Nat
  /\ MaxPackets \in Nat /\ Typing \subseteq Seq(0..255)

VARIABLES
  main,      \* where handleSSH stands: "auth", "clear", "extend", "select", "wait",
             \* "done"
  mux,       \* the loop: "off", "loop", "ended", or the full queue it waits for:
             \* "globals", "channels", "requests"
  held,      \* the packet it has in hand then
  globals,   \* how many global requests are queued
  denier,    \* the goroutine that denies them: "off", "run", "gone"
  denied,    \* its count
  channels,  \* the queue of new channels: "session" or "other"
  accepted,  \* handleSSH's accepted
  chan,      \* the channel's goroutine: "none", "requests", "shell", "exec", "finished"
  requests,  \* the queue of the channel's requests
  count,     \* serveSSHChannel's count
  pty,       \* and its pty
  drain,     \* the goroutine that answers requests during a shell
  drained,   \* its count
  window,    \* the peer has opened the channel's window
  chanEnd,   \* the multiplexer has ended the channel: its reads, writes and requests end
  opened,    \* history: how many channels were accepted
  raced,     \* history: a deadline of the handshake was set after handleSSH's own
  packets    \* history: what the peer has sent

sshVars == <<main, mux, held, globals, denier, denied, channels, accepted, chan, requests,
             count, pty, drain, drained, window, chanEnd, opened, raced, packets>>
globalVars == <<globals, denier, denied>>
channelVars == <<chan, requests, count, pty, drain, drained, window, chanEnd>>

SSHInit ==
  /\ main = "auth"
  /\ mux = "off" /\ held = "none"
  /\ globals = 0 /\ denier = "off" /\ denied = 0
  /\ channels = <<>> /\ accepted = FALSE /\ opened = 0
  /\ chan = "none" /\ requests = <<>> /\ count = 0 /\ pty = FALSE
  /\ drain = "off" /\ drained = 0
  /\ window \in BOOLEAN /\ chanEnd = FALSE
  /\ raced = FALSE /\ packets = 0
-----------------------------------------------------------------------------
(* The transport's reader and the multiplexer's loop.                      *)

Listening == main = "auth" \/ mux = "loop"

\* Once the phase is cleared and the deadline extended, nobody else touches the
\* deadline, and the two steps of a Read are one.
BeginPacket ==
  /\ Listening
  /\ IF main \in {"auth", "clear", "extend"} THEN ComputeDeadline ELSE BeginRead
  /\ UNCHANGED <<timeVars, phase, readBytes, writeVars, consoleVars, sshVars>>

AwaitPacket ==
  /\ SetDeadline
  /\ raced' = (raced \/ (inPhase /\ main \notin {"auth", "clear", "extend"}))
  /\ UNCHANGED <<timeVars, phase, readBytes, writeVars, consoleVars, main, mux, held,
                 globalVars, channels, accepted, channelVars, opened, packets>>

\* The loop ends: every channel and queue is closed, and so is the socket.
EndLoop ==
  /\ mux' = "ended" /\ chanEnd' = TRUE /\ open' = FALSE
  /\ StopReading

LoopFails ==
  /\ mux = "loop"
  /\ \/ reader = "blocked" /\ (TimedOut \/ ~open \/ ~peerOpen)
     \/ reader = "none" /\ OutOfBudget
  /\ EndLoop
  /\ UNCHANGED <<now, peerOpen, phase, readBytes, writeVars, consoleVars, main, held, globalVars,
                 channels, accepted, chan, requests, count, pty, drain, drained, window,
                 opened, raced, packets>>

\* The loop puts a packet in a queue, or waits with it.
Enqueue(queue, room, p) ==
  IF room THEN UNCHANGED <<mux, held>> ELSE mux' = queue /\ held' = p

GlobalRequest ==
  /\ globals' = IF globals < QueueCap THEN globals + 1 ELSE globals
  /\ Enqueue("globals", globals < QueueCap, "request")
  /\ UNCHANGED <<channels, requests, window, chanEnd, buf, open>>

OpenChannel(kind) ==
  /\ channels' = IF Len(channels) < QueueCap THEN Append(channels, kind) ELSE channels
  /\ Enqueue("channels", Len(channels) < QueueCap, kind)
  /\ UNCHANGED <<globals, requests, window, chanEnd, buf, open>>

\* A request on the channel: "pty-req", "shell", "exec", one of the others, or one
\* that serveSSHChannel refuses to parse.
ChannelRequest(kind) ==
  /\ accepted /\ ~chanEnd
  /\ requests' = IF Len(requests) < QueueCap THEN Append(requests, kind) ELSE requests
  /\ Enqueue("requests", Len(requests) < QueueCap, kind)
  /\ UNCHANGED <<globals, channels, window, chanEnd, buf, open>>

\* Input, more window, or the end of the channel.
ChannelData ==
  /\ accepted /\ ~chanEnd
  /\ \/ /\ console # "ended"
        /\ \E k \in Typing : buf' = buf \o k
        /\ UNCHANGED <<window, chanEnd>>
     \/ ~window /\ window' = TRUE /\ UNCHANGED <<buf, chanEnd>>
     \/ chanEnd' = TRUE /\ UNCHANGED <<buf, window>>
  /\ UNCHANGED <<mux, held, globals, channels, requests, open>>

Packet ==
  /\ main # "wait" /\ mux = "loop" /\ peerOpen /\ packets < MaxPackets /\ packets' = packets + 1
  /\ Returned(1)
  /\ \/ GlobalRequest
     \/ \E kind \in {"session", "other"} : OpenChannel(kind)
     \/ \E kind \in {"pty-req", "shell", "exec", "env", "malformed"} : ChannelRequest(kind)
     \/ ChannelData
  /\ UNCHANGED <<now, peerOpen, phase, writeVars, service, console, echo, term, budget,
                 historyVars, main, denier, denied, accepted, chan, count, pty, drain, drained,
                 opened, raced>>

\* The queue that the loop waits for has room again.
Resume ==
  /\ \/ mux = "globals" /\ globals < QueueCap
        /\ globals' = globals + 1 /\ UNCHANGED <<channels, requests>>
     \/ mux = "channels" /\ Len(channels) < QueueCap
        /\ channels' = Append(channels, held) /\ UNCHANGED <<globals, requests>>
     \/ mux = "requests" /\ Len(requests) < QueueCap
        /\ requests' = Append(requests, held) /\ UNCHANGED <<globals, channels>>
  /\ mux' = "loop" /\ held' = "none"
  /\ UNCHANGED <<guardVars, consoleVars, main, denier, denied, accepted, chan, count, pty,
                 drain, drained, window, chanEnd, opened, raced, packets>>
-----------------------------------------------------------------------------
(* handleSSH.                                                              *)

\* ssh.NewServerConn: the handshake and the authentication, whose callbacks
\* accept everyone.
Authenticate ==
  /\ main = "auth" /\ reader = "blocked"
  /\ \/ /\ open /\ peerOpen
        /\ main' = "clear" /\ mux' = "loop" /\ denier' = "run" /\ UNCHANGED open
     \/ /\ main' = "done" /\ open' = FALSE /\ UNCHANGED <<mux, denier>>
  /\ StopReading
  /\ UNCHANGED <<now, peerOpen, phase, readBytes, writeVars, consoleVars, held, globals, denied,
                 channels, accepted, channelVars, opened, raced, packets>>

ClearPhase ==
  /\ main = "clear"
  /\ phase' = 0 /\ main' = "extend"
  /\ UNCHANGED <<timeVars, readVars, readBytes, writeVars, consoleVars, mux, held, globalVars,
                 channels, accepted, channelVars, opened, raced, packets>>

\* Mutant: the deadline of the Read that waits stays as it is.
ExtendNothing ==
  /\ main = "extend"
  /\ main' = "select"
  /\ UNCHANGED <<timeVars, phase, readVars, readBytes, writeVars, consoleVars, mux, held, globalVars,
                 channels, accepted, channelVars, opened, raced, packets>>

ExtendDeadline ==
  /\ main = "extend"
  /\ deadline' = Deadline(IdleTimeout) /\ main' = "select"
  /\ UNCHANGED <<timeVars, phase, reader, due, began, inPhase, readBytes, writeVars, consoleVars,
                 mux, held, globalVars, channels, accepted, channelVars, opened, raced, packets>>

\* A new channel: the first session is accepted, anything else rejected.
TakeChannel ==
  /\ main = "select" /\ channels # <<>>
  /\ channels' = Tail(channels)
  /\ \/ /\ Head(channels) = "session" /\ ~accepted
        /\ accepted' = TRUE /\ opened' = opened + 1
        /\ chan' = "requests"
        /\ UNCHANGED <<open, main>>
     \/ /\ Head(channels) = "session" /\ ~accepted /\ ~open
        /\ main' = "wait"
        /\ UNCHANGED <<open, accepted, opened, chan>>
     \/ /\ Head(channels) # "session" \/ accepted
        /\ UNCHANGED <<open, main, accepted, opened, chan>>
  /\ UNCHANGED <<now, peerOpen, phase, readVars, readBytes, writeVars, consoleVars, mux, held, globalVars, requests, count, pty, drain,
                 drained, window, chanEnd, raced, packets>>

\* Mutant: only the end of the session ends it.
FinishAfterSession ==
  /\ main = "select" /\ chan = "finished"
  /\ open' = FALSE /\ main' = "wait"
  /\ UNCHANGED <<now, peerOpen, phase, readVars, readBytes, writeVars, consoleVars, mux, held,
                 globalVars, channels, accepted, channelVars, opened, raced, packets>>

\* It returns: conn.Close comes first.
Finish ==
  /\ main = "select"
  /\ chan = "finished" \/ (mux = "ended" /\ channels = <<>>)
  /\ open' = FALSE /\ main' = "wait"
  /\ UNCHANGED <<now, peerOpen, phase, readVars, readBytes, writeVars, consoleVars, mux, held,
                 globalVars, channels, accepted, channelVars, opened, raced, packets>>

\* Mutant: it does not wait for the session's goroutine.
WaitNothing ==
  /\ main = "wait"
  /\ main' = "done"
  /\ UNCHANGED <<guardVars, consoleVars, mux, held, globalVars, channels, accepted, channelVars,
                 opened, raced, packets>>

WaitFinished ==
  /\ main = "wait" /\ (accepted => chan = "finished")
  /\ main' = "done"
  /\ UNCHANGED <<guardVars, consoleVars, mux, held, globalVars, channels, accepted, channelVars,
                 opened, raced, packets>>

MainStep == Authenticate \/ ClearPhase \/ ExtendDeadline \/ TakeChannel \/ Finish \/ WaitFinished

\* The goroutine of the global requests; too many close the connection.  It also
\* ends with its queue, which nothing waits for.
DenyGlobal ==
  /\ denier = "run" /\ globals > 0
  /\ globals' = globals - 1 /\ denied' = denied + 1
  /\ IF denied' > MaxGlobals THEN denier' = "gone" /\ open' = FALSE
                             ELSE UNCHANGED <<denier, open>>
  /\ UNCHANGED <<now, peerOpen, phase, readVars, readBytes, writeVars, consoleVars, main, mux, held,
                 channels, accepted, channelVars, opened, raced, packets>>
-----------------------------------------------------------------------------
(* serveSSHChannel and the goroutine around it, which closes the channel   *)
(* and finished when serveSSHChannel returns.                              *)

TakeRequest ==
  /\ chan = "requests"
  /\ \/ /\ requests # <<>>
        /\ requests' = Tail(requests) /\ count' = count + 1
        /\ LET kind == IF count' > MaxBefore THEN "malformed" ELSE Head(requests)
           IN  /\ pty' = (pty \/ kind = "pty-req")
               /\ drain' = IF kind = "shell" THEN "run" ELSE drain
               /\ chan' = CASE kind = "shell" -> "shell"
                            [] kind = "exec" -> "exec"
                            [] kind = "malformed" -> "finished"
                            [] OTHER -> chan
               /\ IF kind = "shell" THEN Serve("terminal", pty) /\ UNCHANGED buf
                                    ELSE UNCHANGED consoleVars
     \/ /\ requests = <<>> /\ chanEnd
        /\ chan' = "finished"
        /\ UNCHANGED <<requests, count, pty, drain, consoleVars>>
  /\ UNCHANGED <<guardVars, main, mux, held, globalVars, channels, accepted, drained, window,
                 chanEnd, opened, raced, packets>>

\* A write to the channel waits for the peer's window.
Stalled == ~window /\ ~chanEnd

DrainClosed == drained > MaxDuring

\* serveTerminal on the channel.  What it writes may use up the window.
Shell ==
  /\ chan = "shell"
  /\ \/ /\ Silent \/ ~Stalled
        /\ ConsoleStep(IF DrainClosed \/ chanEnd THEN {FALSE} ELSE BOOLEAN)
        /\ window' \in (IF wrote' > wrote THEN BOOLEAN ELSE {window})
        /\ UNCHANGED chan
     \/ chanEnd /\ StreamFails /\ UNCHANGED <<chan, window, writeVars>>
     \/ console = "ended" /\ chan' = "finished" /\ UNCHANGED <<consoleVars, window, writeVars>>
  /\ UNCHANGED <<timeVars, phase, readVars, readBytes, main, mux, held, globalVars, channels,
                 accepted, requests, count, pty, drain, drained, chanEnd, opened, raced, packets>>

\* One command, its answer and its exit status.
Exec ==
  /\ chan = "exec" /\ ~Stalled
  /\ chan' = "finished"
  /\ \E ok \in BOOLEAN : Write(1, ok)
  /\ UNCHANGED <<timeVars, phase, readVars, readBytes, consoleVars, main, mux, held, globalVars,
                 channels, accepted, requests, count, pty, drain, drained, window, chanEnd,
                 opened, raced, packets>>

ChanStep == TakeRequest \/ Shell \/ Exec

\* The requests during a shell; too many close the channel.
DrainRequest ==
  /\ drain = "run" /\ requests # <<>>
  /\ requests' = Tail(requests) /\ drained' = drained + 1
  /\ drain' = IF drained' > MaxDuring THEN "gone" ELSE "run"
  /\ UNCHANGED <<guardVars, consoleVars, main, mux, held, globalVars, channels, accepted, chan,
                 count, pty, window, chanEnd, opened, raced, packets>>

ReaderStep == BeginPacket \/ AwaitPacket \/ LoopFails \/ Resume

SSHStep == ReaderStep \/ MainStep \/ DenyGlobal \/ ChanStep \/ DrainRequest
=============================================================================
