----------------------------- MODULE Keystrokes -----------------------------
(***************************************************************************)
(* What the line reader should make of a stream, whatever the pieces in    *)
(* which the stream arrives: in layers, each a function of the whole of    *)
(* the layer below.  First the Telnet commands are taken out, then the     *)
(* escape sequences, then the ends of lines are told and the corrections   *)
(* made.  Stop is the mark of an interruption.                             *)
(***************************************************************************)
EXTENDS Terminal, SequencesExt

Stop == 1000

\* What is made of a stream piece by piece: that of its byte i is followed by that
\* of the byte i + length[i].
Joined(piece, length) ==
  LET n == Len(piece)
      from[i \in 1..n + 1] == IF i = n + 1 THEN <<>> ELSE piece[i] \o from[i + length[i]]
  IN  from[1]

\* In the subnegotiation that begins at s[i], IAC and the byte after it belong
\* together: s[j] is the second of two when the row of IACs before it is odd.
RowBefore(s, i, j) == {k \in i + 2..j - 1 : \A m \in k..j - 1 : s[m] = IAC}
Escaped(s, i, j) == Cardinality(RowBefore(s, i, j)) % 2 = 1
Ends(s, i) == {j \in i + 2..Len(s) - 1 : s[j] = IAC /\ s[j + 1] = SE /\ ~ Escaped(s, i, j)}

\* The length of the Telnet command that begins at s[i]: up to the end of s when
\* it is incomplete.
CommandLength(s, i) ==
  LET rest == Len(s) - i + 1
  IN  CASE rest = 1 -> 1
        [] rest > 1 /\ s[i + 1] = SB ->
             IF Ends(s, i) = {} THEN rest ELSE Min(Ends(s, i)) + 2 - i
        [] rest > 1 /\ s[i + 1] \in Options -> IF rest = 2 THEN 2 ELSE 3
        [] OTHER -> 2

\* What the place i of a stream adds to the payload, and how far it is to the next
\* place that does.
PayloadAt(s, i) ==
  IF s[i] = IAC THEN IF i < Len(s) /\ s[i + 1] = IP THEN <<Stop>> ELSE <<>>
  ELSE <<IF s[i] \in {ETX, EOT} THEN Stop ELSE s[i]>>

PayloadStep(s, i) == IF s[i] = IAC THEN CommandLength(s, i) ELSE 1

\* The stream without Telnet commands.
Payload(s) ==
  Joined([i \in 1..Len(s) |-> PayloadAt(s, i)], [i \in 1..Len(s) |-> PayloadStep(s, i)])

UpToStop(p) ==
  LET stops == {i \in 1..Len(p) : p[i] = Stop}
  IN  IF stops = {} THEN p ELSE SubSeq(p, 1, Min(stops) - 1)

FinalsAfter(p, i) == {j \in i + 2..Len(p) : p[j] \in Finals}

\* The length of the escape sequence that begins at p[i].
EscapeLength(p, i) ==
  LET rest == Len(p) - i + 1
  IN  CASE rest = 1 -> 1
        [] rest > 1 /\ p[i + 1] # Bracket -> 2
        [] OTHER -> IF FinalsAfter(p, i) = {} THEN rest ELSE Min(FinalsAfter(p, i)) + 1 - i

KeyAt(p, i) == IF p[i] = ESC THEN <<>> ELSE <<p[i]>>
KeyStep(p, i) == IF p[i] = ESC THEN EscapeLength(p, i) ELSE 1

\* The payload without escape sequences.
KeysOf(p) == Joined([i \in 1..Len(p) |-> KeyAt(p, i)], [i \in 1..Len(p) |-> KeyStep(p, i)])

\* k[i] is the second byte of an end of line.
Second(k, i) == i > 1 /\ k[i - 1] = CR /\ k[i] \in {LF, NUL}

Taken(k, i, keys) == IF Second(k, i) THEN keys ELSE Append(keys, IF k[i] = LF THEN CR ELSE k[i])

\* The keys with one CR for each end of a line: CR LF, CR NUL, CR or LF.
Returns(k) ==
  LET keys[i \in 0..Len(k)] == IF i = 0 THEN <<>> ELSE Taken(k, i, keys[i - 1])
  IN  keys[Len(k)]

\* The bytes of the rune that begins at row[i], read forwards: a byte that begins
\* none counts for itself.
RuneLength(row, i) ==
  LET sizes == {k \in 2..4 : i + k - 1 <= Len(row) /\ IsRune(SubSeq(row, i, i + k - 1))}
  IN  IF sizes = {} THEN 1 ELSE CHOOSE k \in sizes : TRUE

\* The place i of a row, with its rune unless that is the last.
RuneAt(row, i) ==
  IF i + RuneLength(row, i) = Len(row) + 1 THEN <<>>
  ELSE SubSeq(row, i, i + RuneLength(row, i) - 1)

\* A row without its last rune, as one finds it who reads the row from its first
\* byte on.
WithoutLast(row) ==
  Joined([i \in 1..Len(row) |-> RuneAt(row, i)], [i \in 1..Len(row) |-> RuneLength(row, i)])

Corrected(row, b) ==
  CASE b \in Erases -> WithoutLast(row)
    [] b < 32 /\ b \notin Erases -> row
    [] OTHER -> Append(row, b)

\* What a terminal shows of an echo.
Shown(row, b) ==
  CASE b = Rubout -> IF row = <<>> THEN row ELSE Front(row)
    [] OTHER -> Append(row, b)

\* What a key makes of a line, or an echo of a row of the screen.
Changed(echo, row, b) == IF echo THEN Shown(row, b) ELSE Corrected(row, b)

RowsAfter(echo, rows, b) ==
  IF b = CR THEN Append(rows, <<>>) ELSE [rows EXCEPT ![Len(rows)] = Changed(echo, @, b)]

\* The rows that a sequence of keys, or of echoes, makes.
RowsBy(echo, s) ==
  LET rows[n \in 0..Len(s)] ==
        IF n = 0 THEN << <<>> >> ELSE RowsAfter(echo, rows[n - 1], s[n])
  IN  rows[Len(s)]

\* The lines of a stream; the last is the one that is not finished.
Lines(s) == RowsBy(FALSE, Returns(KeysOf(UpToStop(Payload(s)))))

Screen(echo) == RowsBy(TRUE, echo)
=============================================================================
