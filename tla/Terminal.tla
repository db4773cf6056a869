------------------------------ MODULE Terminal ------------------------------
(***************************************************************************)
(* The line reader of the terminal and FTP services                        *)
(* (internal/honeypot/terminal.go), as the step that one byte makes.  Bytes *)
(* are numbers; an echo is the characters that a client with a pty gets    *)
(* back, with one symbol for a rubout and one for an end of line.          *)
(***************************************************************************)
EXTENDS Integers, Sequences

CONSTANT LineMax   \* the longest line, in bytes (256)

ASSUME TerminalAssumption == LineMax \in Nat \ {0}

IAC == 255
Options == 251..254        \* WILL, WONT, DO, DONT: one option byte follows
SB == 250                  \* a subnegotiation, up to IAC SE
SE == 240
IP == 244                  \* interrupt process
ETX == 3
EOT == 4
ESC == 27
Bracket == 91
Finals == 64..126          \* the bytes that end a control sequence
CR == 13
LF == 10
NUL == 0
Erases == {8, 127}
Printable == 32..126       \* the bytes that are echoed
Rubout == 8                \* stands for the echo that rubs a character out

Fresh == [iac |-> 0, escape |-> 0, lastCR |-> FALSE, line |-> <<>>]

\* t.iac after a byte that is a part of a command, or that begins one.
NextIac(iac, b) ==
  CASE iac = 0 -> 1
    [] iac = 1 -> IF b = SB THEN 3 ELSE IF b \in Options THEN 2 ELSE 0
    [] iac = 2 -> 0
    [] iac = 3 -> IF b = IAC THEN 4 ELSE 3
    [] iac = 4 -> IF b = SE THEN 0 ELSE 3

NextEscape(escape, b) ==
  CASE escape = 0 -> 1
    [] escape = 1 -> IF b = Bracket THEN 2 ELSE 0
    [] escape = 2 -> IF b \in Finals THEN 0 ELSE 2

\* A rune of several bytes, as utf8 encodes it: the first byte tells how many,
\* and leaves out of the second what would be a longer form of a rune, a
\* surrogate or beyond Unicode.
Continues == 128..191

Leads(size) ==
  CASE size = 2 -> 194..223
    [] size = 3 -> 224..239
    [] size = 4 -> 240..244

Seconds(lead) ==
  CASE lead = 224 -> 160..191
    [] lead = 237 -> 128..159
    [] lead = 240 -> 144..191
    [] lead = 244 -> 128..143
    [] OTHER -> Continues

IsRune(s) ==
  /\ Len(s) \in 2..4
  /\ s[1] \in Leads(Len(s)) /\ s[2] \in Seconds(s[1])
  /\ \A i \in 3..Len(s) : s[i] \in Continues

\* The bytes of a line's last rune, as utf8.DecodeLastRune counts them: a byte
\* that ends no rune counts for itself.
RuneSize(line) ==
  LET n == Len(line)
      sizes == {k \in 2..4 : k <= n /\ IsRune(SubSeq(line, n - k + 1, n))}
  IN  IF sizes = {} THEN 1 ELSE CHOOSE k \in sizes : TRUE

Erased(line) == SubSeq(line, 1, Len(line) - RuneSize(line))
-----------------------------------------------------------------------------
\* What one byte does: the state after it, what line() returns, if it does,
\* and what it echoes.
Result(t, end, echo) == [term |-> t, end |-> end, echo |-> echo]

Edit(t, b) ==
  CASE b \in {CR, LF} ->
         Result([t EXCEPT !.lastCR = (b = CR)], "line", <<CR>>)
    [] b \in Erases /\ t.line = <<>> -> Result(t, "none", <<>>)
    [] b \in Erases /\ t.line # <<>> ->
         Result([t EXCEPT !.line = Erased(t.line)], "none", <<Rubout>>)
    [] b < 32 /\ b \notin {CR, LF} \union Erases -> Result(t, "none", <<>>)
    [] b >= 32 /\ b # 127 /\ Len(t.line) >= LineMax -> Result(t, "long", <<>>)
    [] b >= 32 /\ b # 127 /\ Len(t.line) < LineMax ->
         Result([t EXCEPT !.line = Append(t.line, b)], "none",
                IF b \in Printable THEN <<b>> ELSE <<>>)

\* Mutant: only a line feed or a NUL ends the state after CR.
AfterCRStays(t, b) ==
  IF t.lastCR /\ b \in {LF, NUL}
  THEN Result([t EXCEPT !.lastCR = FALSE], "none", <<>>)
  ELSE Edit(t, b)

AfterCR(t, b) ==
  IF t.lastCR /\ b \in {LF, NUL}
  THEN Result([t EXCEPT !.lastCR = FALSE], "none", <<>>)
  ELSE Edit([t EXCEPT !.lastCR = FALSE], b)

Byte(t, b) ==
  CASE t.iac = 1 /\ b = IP -> Result(t, "quit", <<>>)
    [] (t.iac # 0 \/ b = IAC) /\ ~(t.iac = 1 /\ b = IP) ->
         Result([t EXCEPT !.iac = NextIac(t.iac, b)], "none", <<>>)
    [] t.iac = 0 /\ b \in {ETX, EOT} -> Result(t, "quit", <<>>)
    [] t.iac = 0 /\ b \notin {IAC, ETX, EOT} /\ (t.escape # 0 \/ b = ESC) ->
         Result([t EXCEPT !.escape = NextEscape(t.escape, b)], "none", <<>>)
    [] t.iac = 0 /\ b \notin {IAC, ETX, EOT, ESC} /\ t.escape = 0 -> AfterCR(t, b)
=============================================================================
