------------------------------ MODULE Console ------------------------------
(***************************************************************************)
(* The two services that read lines: serveTerminal and serveFTP of         *)
(* internal/honeypot/plain.go, with the terminal's line reader and the     *)
(* command budget of limits.go.  The host, a plain connection or an SSH    *)
(* channel, fills buf and says when its stream fails.                      *)
(***************************************************************************)
EXTENDS GuardedConn, Terminal, SequencesExt

CONSTANTS
  CommandsPerMinute,   \* the option of Config
  Minute,              \* the length of the budget's window
  SessionCommands      \* the commands of a whole session (600)

ASSUME ConsoleAssumption ==
  /\ CommandsPerMinute \in 1..SessionCommands
  /\ SessionCommands \in Nat /\ Minute \in Nat \ {0}

VARIABLES
  service,   \* who serves the peer, "none" before it is known
  console,   \* where it stands: "off", "greet", "read", "run", "ended"
  echo,      \* the terminal echoes
  buf,       \* the bytes in the bufio.Reader
  term,      \* the terminal
  budget,    \* the commandBudget
  typed,     \* history: the bytes that line() has taken
  lines,     \* history: the lines it has returned
  echoed,    \* history: what was echoed
  ran,       \* history: the times at which commands were let through
  tooLong    \* history: line() has returned errLine

consoleVars == <<service, console, echo, buf, term, budget, typed, lines, echoed, ran, tooLong>>
historyVars == <<typed, lines, echoed, ran, tooLong>>

ConsoleInit ==
  /\ service = "none" /\ console = "off" /\ echo = FALSE
  /\ buf = <<>> /\ term = Fresh
  /\ budget = [start |-> -Minute, count |-> 0, total |-> 0]
  /\ typed = <<>> /\ lines = <<>> /\ echoed = <<>> /\ ran = <<>> /\ tooLong = FALSE

\* The service takes over the stream with the bytes that were looked at.
Serve(name, withEcho) ==
  /\ service' = name
  /\ console' = IF name = "terminal" THEN "greet" ELSE "read"
  /\ echo' = withEcho
  /\ UNCHANGED <<term, budget, historyVars>>

Greet(ok) ==
  /\ console = "greet"
  /\ Write(1, ok)
  /\ console' = IF ok THEN "read" ELSE "ended"
  /\ UNCHANGED <<service, echo, buf, term, budget, historyVars>>

\* The stream fails while line() waits for a byte.
StreamFails ==
  /\ console = "read" /\ buf = <<>>
  /\ console' = "ended"
  /\ UNCHANGED <<service, echo, buf, term, budget, historyVars>>
-----------------------------------------------------------------------------
\* Mutant: the window's start is not set again.
NextBudgetOld ==
  LET fresh == now - budget.start >= Minute
  IN  [start |-> budget.start, count |-> IF fresh THEN 1 ELSE budget.count + 1,
       total |-> budget.total + 1]

\* commandBudget.allow.
NextBudget ==
  LET fresh == now - budget.start >= Minute
  IN  [start |-> IF fresh THEN now ELSE budget.start,
       count |-> IF fresh THEN 1 ELSE budget.count + 1,
       total |-> budget.total + 1]

Allowed(b) == b.count <= CommandsPerMinute /\ b.total <= SessionCommands

\* How much is written after a byte: its echo, or a terminal's answer to a line
\* that is too long; FTP ends without a word.
Said(r) == IF r.end = "long" /\ service = "terminal" THEN 1 ELSE IF echo THEN Len(r.echo) ELSE 0

\* The next byte is read without a write.
Silent == console = "read" /\ buf # <<>> /\ Said(Byte(term, Head(buf))) = 0

\* One byte of the stream; ok says whether what follows it is written.
TakeByte(ok) ==
  /\ console = "read" /\ buf # <<>>
  /\ buf' = Tail(buf) /\ typed' = Append(typed, Head(buf))
  /\ LET r == Byte(term, Head(buf))
         shown == IF echo THEN r.echo ELSE <<>>
         fails == shown # <<>> /\ ~ok
     IN  /\ Write(Said(r), ok)
         /\ echoed' = IF fails THEN echoed ELSE echoed \o shown
         /\ lines' = IF r.end = "line" THEN Append(lines, r.term.line) ELSE lines
         /\ term' = IF r.end = "line" THEN [r.term EXCEPT !.line = <<>>] ELSE r.term
         /\ tooLong' = (r.end = "long")
         /\ console' = CASE r.end \in {"quit", "long"} \/ fails -> "ended"
                         [] r.end = "line" /\ ~fails -> "run"
                         [] r.end = "none" /\ ~fails -> "read"
  /\ UNCHANGED <<service, echo, budget, ran>>

Refused == ~Allowed(NextBudget)

\* A line is counted against the budget and answered; FTP says nothing to an
\* empty line, nor when the budget is spent.
RunLine(quit, ok) ==
  LET silent == service = "ftp" /\ (Refused \/ Last(lines) = <<>>)
  IN  /\ console = "run"
      /\ budget' = NextBudget
      /\ ran' = IF Refused THEN ran ELSE Append(ran, now)
      /\ Write(IF silent THEN 0 ELSE 1, ok)
      /\ quit => ~silent
      /\ console' = IF Refused \/ quit \/ (~silent /\ ~ok) THEN "ended" ELSE "read"
      /\ UNCHANGED <<service, echo, buf, term, typed, lines, echoed, tooLong>>

ConsoleStep(oks) ==
  \E ok \in oks : Greet(ok) \/ TakeByte(ok) \/ \E quit \in BOOLEAN : RunLine(quit, ok)
=============================================================================
