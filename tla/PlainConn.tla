----------------------------- MODULE PlainConn -----------------------------
(***************************************************************************)
(* A plain or TLS connection: the end of server.go's handle and            *)
(* handlePlain, serveHTTP of plain.go.  The peer's bytes are what TLS has  *)
(* decrypted, if it is a TLS connection; the handshake itself is external. *)
(***************************************************************************)
EXTENDS Console

CONSTANTS
  ProbeTimeout,   \* the time a client has to speak first (500 ms)
  HeaderMax,      \* the bytes that serveHTTP reads at most (8192)
  MaxSends        \* bound: how often the peer sends

ASSUME PlainAssumption ==
  /\ ProbeTimeout \in Nat \ {0} /\ HeaderMax \in Nat \ {0} /\ MaxSends \in Nat

VARIABLES
  stage,   \* "handshake", "start", "probe", "prefix", "http", "serve", "done"
  wire,    \* the bytes that wait in the socket
  sent,    \* history: everything the peer has sent
  sends,   \* history: how often it sent
  entered, \* history: when the stage began
  heard    \* history: bytes were received before the service was chosen

plainVars == <<stage, wire, sent, sends, entered, heard>>

\* The letters with which HTTP methods, FTP's USER and SSH's banner begin.
Letters == {71, 80, 72, 79, 68, 85, 83}
TLSRecord == 22
Methods == { <<71, 69, 84, 32>>, <<80, 79, 83, 84>>, <<72, 69, 65, 68>>, <<79, 80, 84, 73>>,
             <<80, 85, 84, 32>>, <<68, 69, 76, 69>>, <<80, 65, 84, 67>> }
Banner == <<83, 83, 72, 45>>
User == <<85, 83, 69, 82>>
Upper(s) == [i \in DOMAIN s |-> IF s[i] \in 97..122 THEN s[i] - 32 ELSE s[i]]

PlainInit(secure) ==
  /\ stage = IF secure THEN "handshake" ELSE "start"
  /\ wire = <<>> /\ sent = <<>> /\ sends = 0 /\ entered = 0 /\ heard = FALSE

Enter(s) == stage' = s /\ entered' = IF s \in {"serve", "done"} THEN 0 ELSE now
Return == Enter("done")

\* The request's header has ended: a line feed stands for its blank line.
Complete == LF \in ToSet(buf)

\* Where handlePlain and its services wait for more bytes.
Waiting ==
  \/ stage = "handshake"
  \/ stage = "probe" /\ buf = <<>>
  \/ stage = "prefix" /\ Len(buf) < 4
  \/ stage = "http" /\ ~Complete /\ Len(buf) < HeaderMax
  \/ stage = "serve" /\ console = "read" /\ buf = <<>>
-----------------------------------------------------------------------------
\* Mutant: a slow prefix is forgiven, like a silent probe.
FailsForgiving(timeout) ==
  \/ /\ stage \in {"probe", "prefix"} /\ timeout
     /\ phase' = 0
     /\ Enter("serve") /\ heard' = (readBytes > 0)
     /\ buf' = <<>> /\ Serve("terminal", FALSE)
     /\ UNCHANGED <<wire, sent, sends>>
  \/ /\ stage \in {"handshake", "http"} \/ (stage \in {"probe", "prefix"} /\ ~timeout)
     /\ phase' = IF stage = "probe" THEN 0 ELSE phase
     /\ Return
     /\ UNCHANGED <<consoleVars, wire, sent, sends, heard>>
  \/ /\ stage = "serve"
     /\ StreamFails
     /\ UNCHANGED <<phase, plainVars>>

\* An error of the stream, where the code stands.  Only the end of the probe's
\* half second is not the end of the connection.
Fails(timeout) ==
  \/ /\ stage = "probe" /\ timeout
     /\ phase' = 0
     /\ Enter("serve") /\ heard' = (readBytes > 0)
     /\ buf' = <<>> /\ Serve("terminal", FALSE)
     /\ UNCHANGED <<wire, sent, sends>>
  \/ /\ stage \in {"handshake", "prefix", "http"} \/ (stage = "probe" /\ ~timeout)
     /\ phase' = IF stage = "probe" THEN 0 ELSE phase
     /\ Return
     /\ UNCHANGED <<consoleVars, wire, sent, sends, heard>>
  \/ /\ stage = "serve"
     /\ StreamFails
     /\ UNCHANGED <<phase, plainVars>>

ReadPlain ==
  /\ Waiting
  /\ BeginRead
  /\ UNCHANGED <<timeVars, phase, readBytes, writeVars, consoleVars, plainVars>>

ReadRefused ==
  /\ Waiting /\ reader = "none" /\ OutOfBudget
  /\ Fails(FALSE)
  /\ UNCHANGED <<timeVars, readVars, readBytes, writeVars>>

Receive ==
  LET n == Earliest({Len(wire), MaxRead - readBytes})
  IN  /\ stage # "handshake" /\ n > 0
      /\ Returned(n)
      /\ buf' = buf \o SubSeq(wire, 1, n)
      /\ wire' = SubSeq(wire, n + 1, Len(wire))
      /\ UNCHANGED <<timeVars, phase, writeVars, service, console, echo, term, budget,
                     historyVars, stage, sent, sends, entered, heard>>

ReadFails ==
  /\ \/ TimedOut /\ Fails(TRUE)
     \/ reader = "blocked" /\ (~open \/ (~peerOpen /\ wire = <<>>)) /\ Fails(FALSE)
  /\ StopReading
  /\ UNCHANGED <<timeVars, readBytes, writeVars>>
-----------------------------------------------------------------------------
\* The TLS handshake ends.
Handshake ==
  /\ stage = "handshake" /\ reader = "blocked" /\ open /\ peerOpen
  /\ StopReading
  /\ \/ Enter("start") /\ phase' = 0
     \/ Return /\ UNCHANGED phase
  /\ UNCHANGED <<timeVars, readBytes, writeVars, consoleVars, wire, sent, sends, heard>>

StartProbe ==
  /\ stage = "start"
  /\ phase' = now + ProbeTimeout
  /\ Enter("probe")
  /\ UNCHANGED <<timeVars, readVars, readBytes, writeVars, consoleVars, wire, sent, sends, heard>>

Choose(name) ==
  /\ Enter("serve") /\ heard' = (readBytes > 0)
  /\ Serve(name, FALSE)

\* A service that answers with at most one write, without reading lines.
ChooseBrief(name, s) ==
  /\ Enter(s) /\ heard' = (readBytes > 0)
  /\ service' = name
  /\ UNCHANGED <<console, echo, term, budget, historyVars>>

FirstByte ==
  /\ stage = "probe" /\ buf # <<>>
  /\ \/ buf[1] = TLSRecord /\ phase' = 0 /\ ChooseBrief("tls", "done")
     \/ buf[1] \notin Letters \union {TLSRecord} /\ phase' = 0 /\ Choose("terminal")
     \/ /\ buf[1] \in Letters
        /\ phase' = now + HandshakeTimeout
        /\ Enter("prefix")
        /\ UNCHANGED <<service, console, echo, term, budget, historyVars, heard>>
  /\ UNCHANGED <<timeVars, readVars, readBytes, writeVars, buf, wire, sent, sends>>

\* Mutant: what has come of the prefix is taken for the whole.
PrefixAtOnce ==
  LET first == SubSeq(buf, 1, Earliest({4, Len(buf)}))
  IN  /\ stage = "prefix" /\ reader = "none"
      /\ \/ first \in Methods /\ UNCHANGED <<phase, writeVars>> /\ ChooseBrief("http", "http")
         \/ first \notin Methods /\ phase' = 0 /\ UNCHANGED writeVars /\ Choose("terminal")
      /\ UNCHANGED <<timeVars, readVars, readBytes, buf, wire, sent, sends>>

\* Mutant: the phase ends for an HTTP request as well.
PrefixClears ==
  LET first == SubSeq(buf, 1, 4)
  IN  /\ stage = "prefix" /\ Len(buf) >= 4
      /\ phase' = 0
      /\ \/ first \in Methods /\ ChooseBrief("http", "http")
         \/ first \notin Methods /\ Choose("terminal")
      /\ UNCHANGED <<timeVars, readVars, readBytes, writeVars, buf, wire, sent, sends>>

Prefix ==
  LET first == SubSeq(buf, 1, 4)
  IN  /\ stage = "prefix" /\ Len(buf) >= 4
      /\ \/ first \in Methods /\ UNCHANGED <<phase, writeVars>> /\ ChooseBrief("http", "http")
         \/ /\ first = Banner /\ phase' = 0 /\ ChooseBrief("ssh", "done")
            /\ \E ok \in BOOLEAN : Write(1, ok)
         \/ Upper(first) = User /\ phase' = 0 /\ UNCHANGED writeVars /\ Choose("ftp")
         \/ /\ first \notin Methods \union {Banner} /\ Upper(first) # User
            /\ phase' = 0 /\ UNCHANGED writeVars /\ Choose("terminal")
      /\ UNCHANGED <<timeVars, readVars, readBytes, buf, wire, sent, sends>>

\* serveHTTP: one answer of a header and a body, or none to a header that fills
\* the limit.
AnswerRequest ==
  /\ stage = "http" /\ ~Waiting
  /\ Return
  /\ \/ Len(buf) < HeaderMax /\ \E n \in {1, 2}, ok \in BOOLEAN : Write(n, ok)
     \/ UNCHANGED writeVars
  /\ UNCHANGED <<timeVars, phase, readVars, readBytes, consoleVars, wire, sent, sends, heard>>

ServeLines ==
  /\ stage = "serve"
  /\ ConsoleStep(BOOLEAN)
  /\ UNCHANGED <<timeVars, phase, readVars, readBytes, plainVars>>

ServiceReturns ==
  /\ stage = "serve" /\ console = "ended"
  /\ Return
  /\ UNCHANGED <<timeVars, phase, readVars, readBytes, writeVars, consoleVars, wire, sent, sends, heard>>

PlainStep ==
  \/ ReadPlain \/ ReadRefused \/ Receive \/ ReadFails \/ Handshake \/ StartProbe
  \/ FirstByte \/ Prefix \/ AnswerRequest \/ ServeLines \/ ServiceReturns

\* The peer sends one of some pieces.
Send(Pieces) ==
  /\ reader = "blocked" /\ stage # "handshake" /\ open /\ peerOpen /\ sends < MaxSends
  /\ \E p \in Pieces : wire' = wire \o p /\ sent' = sent \o p
  /\ sends' = sends + 1
  /\ UNCHANGED <<guardVars, consoleVars, stage, entered, heard>>
=============================================================================
