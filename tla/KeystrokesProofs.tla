--------------------------- MODULE KeystrokesProofs ---------------------------
(***************************************************************************)
(* That the line reader, byte by byte, makes of a stream what Keystrokes   *)
(* makes of the whole of it, for every stream and every length of a line.  *)
(*                                                                         *)
(* Each layer has a run: the reader's state before each byte of the layer  *)
(* below, with what it has made of the bytes so far.  A run goes on by one *)
(* step when the stream grows by one byte, whatever comes later; and what  *)
(* a run has made by its end is the function of the layer, where the       *)
(* function looks ahead (where does this command end?) and the run does    *)
(* not.  At the end the runs are put together.                             *)
(***************************************************************************)
EXTENDS Keystrokes, SetInduction, FiniteSetTheorems, SequenceTheorems

(***************************************************************************)
(* Streams joined of pieces.  Joined is a recursive function from the end  *)
(* of its argument to the beginning; a reader goes from the beginning to   *)
(* the end, and has read at a place that the cutting reaches what is not   *)
(* in the rest.                                                            *)
(***************************************************************************)
Cut(n, X, piece, length) ==
  /\ n \in Nat /\ piece \in [1..n -> Seq(X)] /\ length \in [1..n -> Nat]
  /\ \A i \in 1..n : length[i] >= 1 /\ i + length[i] <= n + 1

LEMMA CutIs ==
  ASSUME NEW n, NEW X, NEW piece, NEW length, Cut(n, X, piece, length), NEW i \in 1..n
  PROVE  /\ n \in Nat /\ piece[i] \in Seq(X) /\ length[i] \in Nat /\ length[i] >= 1
         /\ i + length[i] \in 1..n + 1 /\ i + length[i] > i
BY DEF Cut

\* What is put together from i on, for the places from n + 1 - m.
FromOn(f, n, piece, length, m) ==
  /\ f[n + 1] = <<>>
  /\ \A i \in 1..n : i >= n + 1 - m => f[i] = piece[i] \o f[i + length[i]]

LEMMA JoinedExists ==
  ASSUME NEW n, NEW X, NEW piece, NEW length, Cut(n, X, piece, length)
  PROVE  \E f \in [1..n + 1 -> Seq(X)] : FromOn(f, n, piece, length, n)
<1> DEFINE Starts(m) == \E f \in [1..n + 1 -> Seq(X)] : FromOn(f, n, piece, length, m)
           T == {m \in 0..n : Starts(m)}
<1>n. n \in Nat
  BY DEF Cut
<1>1. Starts(0)
  <2> DEFINE f == [i \in 1..n + 1 |-> <<>>]
  <2>1. <<>> \in Seq(X)
    OBVIOUS
  <2>2. f \in [1..n + 1 -> Seq(X)]
    BY <2>1
  <2>3. f[n + 1] = <<>>
    BY <1>n
  <2> HIDE DEF f
  <2>4. \A i \in 1..n : ~ (i >= n + 1 - 0)
    BY <1>n
  <2>5. FromOn(f, n, piece, length, 0)
    BY <2>3, <2>4 DEF FromOn
  <2> QED BY <2>2, <2>5
<1>2. ASSUME NEW m \in 0..n, Starts(m), m < n PROVE Starts(m + 1)
  <2>1. PICK f \in [1..n + 1 -> Seq(X)] : FromOn(f, n, piece, length, m)
    BY <1>2
  <2>2. PICK k : k = n - m
    OBVIOUS
  <2>3. k \in 1..n /\ n + 1 - (m + 1) = k /\ n + 1 - m = k + 1
    BY <1>n, <1>2, <2>2
  <2>4. piece[k] \in Seq(X) /\ k + length[k] \in 1..n + 1 /\ k + length[k] > k
    BY <2>3, CutIs
  <2> DEFINE x == piece[k] \o f[k + length[k]]
             g == [f EXCEPT ![k] = x]
  <2>5. x \in Seq(X)
    BY <2>4
  <2>6. g \in [1..n + 1 -> Seq(X)]
    BY <1>n, <2>3, <2>5
  <2>7. g[k] = x /\ \A i \in 1..n + 1 : i # k => g[i] = f[i]
    <3> HIDE DEF x
    <3>1. DOMAIN f = 1..n + 1 /\ k \in DOMAIN f
      BY <1>n, <2>3
    <3> QED BY <3>1
  <2>8. g[n + 1] = <<>>
    BY <1>n, <2>1, <2>3, <2>7 DEF FromOn
  <2>9. ASSUME NEW i \in 1..n, i >= k PROVE g[i] = piece[i] \o g[i + length[i]]
    <3>1. i + length[i] \in 1..n + 1 /\ i + length[i] > i
      BY CutIs
    <3>2. g[i + length[i]] = f[i + length[i]]
      BY <2>3, <2>7, <2>9, <3>1
    <3>3. CASE i = k
      BY <2>7, <3>2, <3>3
    <3>4. CASE i # k
      <4>1. i >= n + 1 - m /\ i \in 1..n + 1
        BY <1>n, <2>3, <2>9, <3>4
      <4> QED BY <2>1, <2>7, <3>2, <3>4, <4>1 DEF FromOn
    <3> QED BY <3>3, <3>4
  <2> HIDE DEF g
  <2>10. FromOn(g, n, piece, length, m + 1)
    BY <2>3, <2>8, <2>9 DEF FromOn
  <2> QED BY <2>6, <2>10
<1>3. T = 0..n
  <2> HIDE DEF Starts
  <2>1. T \in SUBSET (0..n) /\ 0 \in T
    BY <1>n, <1>1
  <2>2. \A m \in T : m < n => m + 1 \in T
    BY <1>n, <1>2
  <2> HIDE DEF T
  <2> QED BY <1>n, <2>1, <2>2, IntervalInduction
<1> HIDE DEF Starts
<1>4. Starts(n)
  <2>1. n \in T
    BY <1>n, <1>3
  <2> QED BY <2>1
<1> QED BY <1>4 DEF Starts

LEMMA JoinedUnique ==
  ASSUME NEW n, NEW X, NEW piece, NEW length, Cut(n, X, piece, length),
         NEW f, FromOn(f, n, piece, length, n), NEW g, FromOn(g, n, piece, length, n)
  PROVE  \A i \in 1..n + 1 : f[i] = g[i]
<1> DEFINE Same(m) == \A i \in 1..n + 1 : i >= n + 1 - m => f[i] = g[i]
           T == {m \in 0..n : Same(m)}
<1>n. n \in Nat
  BY DEF Cut
<1>1. Same(0)
  BY <1>n DEF FromOn
<1>2. ASSUME NEW m \in 0..n, Same(m), m < n PROVE Same(m + 1)
  <2>1. PICK k : k = n - m
    OBVIOUS
  <2>2. k \in 1..n /\ n + 1 - (m + 1) = k /\ n + 1 - m = k + 1 /\ k >= n + 1 - n
    BY <1>n, <1>2, <2>1
  <2>3. k + length[k] \in 1..n + 1 /\ k + length[k] >= n + 1 - m
    <3>1. k + length[k] \in 1..n + 1 /\ k + length[k] > k
      BY <2>2, CutIs
    <3> QED BY <1>n, <2>2, <3>1
  <2>4. f[k] = g[k]
    BY <1>2, <2>2, <2>3 DEF FromOn
  <2>5. ASSUME NEW i \in 1..n + 1, i >= k PROVE f[i] = g[i]
    <3>1. i = k \/ i >= n + 1 - m
      BY <1>n, <2>2, <2>5
    <3> QED BY <1>2, <2>4, <3>1
  <2> QED BY <2>2, <2>5
<1>3. T = 0..n
  <2> HIDE DEF Same
  <2>1. T \in SUBSET (0..n) /\ 0 \in T
    BY <1>n, <1>1
  <2>2. \A m \in T : m < n => m + 1 \in T
    BY <1>n, <1>2
  <2> HIDE DEF T
  <2> QED BY <1>n, <2>1, <2>2, IntervalInduction
<1>4. Same(n)
  <2> HIDE DEF Same
  <2>1. n \in T
    BY <1>n, <1>3
  <2> QED BY <2>1
<1> QED BY <1>n, <1>4

LEMMA JoinedIs ==
  ASSUME NEW n, NEW X, NEW piece, NEW length, Cut(n, X, piece, length),
         NEW f, FromOn(f, n, piece, length, n)
  PROVE  Joined(piece, length) = f[1]
<1> DEFINE V == CHOOSE from : from = [i \in 1..n + 1 |->
                  IF i = n + 1 THEN <<>> ELSE piece[i] \o from[i + length[i]]]
<1>n. n \in Nat
  BY DEF Cut
<1>1. Len(piece) = n
  BY <1>n, LenProperties DEF Cut
<1>2. Joined(piece, length) = V[1]
  BY <1>1 DEF Joined
<1> DEFINE g == [i \in 1..n + 1 |-> f[i]]
<1>3. g = [i \in 1..n + 1 |-> IF i = n + 1 THEN <<>> ELSE piece[i] \o g[i + length[i]]]
  <2>1. ASSUME NEW i \in 1..n + 1, i # n + 1 PROVE f[i] = piece[i] \o g[i + length[i]]
    <3>1. i \in 1..n /\ i >= n + 1 - n
      BY <1>n, <2>1
    <3>2. i + length[i] \in 1..n + 1
      BY <3>1, CutIs
    <3> QED BY <3>1, <3>2 DEF FromOn
  <2>2. f[n + 1] = <<>>
    BY SMTT(30) DEF FromOn
  <2> QED BY <2>1, <2>2
<1>4. V = [i \in 1..n + 1 |-> IF i = n + 1 THEN <<>> ELSE piece[i] \o V[i + length[i]]]
  <2> HIDE DEF g
  <2> QED BY <1>3
<1> HIDE DEF V
<1>5. FromOn(V, n, piece, length, n)
  <2>1. V[n + 1] = <<>>
    BY <1>n, <1>4
  <2>2. ASSUME NEW i \in 1..n PROVE V[i] = piece[i] \o V[i + length[i]]
    <3>1. i \in 1..n + 1 /\ i # n + 1
      BY <1>n
    <3> QED BY <1>4, <3>1
  <2> QED BY <2>1, <2>2 DEF FromOn
<1>6. V[1] = f[1]
  <2>1. 1 \in 1..n + 1
    BY <1>n
  <2> QED BY <1>5, <2>1, JoinedUnique
<1> QED BY <1>2, <1>6

AssocX(p, q, r) == (p \o q) \o r = p \o (q \o r)

LEMMA AssocXIs ==
  ASSUME NEW X, NEW p \in Seq(X), NEW q \in Seq(X), NEW r \in Seq(X)
  PROVE  AssocX(p, q, r)
BY SMTT(30), ConcatAssociative DEF AssocX

\* A reader that puts out the piece of each place that it comes to, and goes on
\* where the next begins, has put out the stream at the end.  It comes to the
\* places in at, having put out out[i] before place i.
Follows(at, out, i, piece, length) ==
  i \in at => LET j == i + length[i]
              IN  out[j] = out[i] \o piece[i] /\ (j \in at \/ j = Len(piece) + 1)

Reads(n, X, piece, length, at, out) ==
  /\ Cut(n, X, piece, length)
  /\ out \in [1..n + 1 -> Seq(X)] /\ 1 \in at /\ out[1] = <<>>
  /\ \A i \in 1..n : Follows(at, out, i, piece, length)

LEMMA JoinedBy ==
  ASSUME NEW n, NEW X, NEW piece, NEW length, NEW at, NEW out, Reads(n, X, piece, length, at, out)
  PROVE  Joined(piece, length) = out[n + 1]
<1>r. /\ Cut(n, X, piece, length)
      /\ out \in [1..n + 1 -> Seq(X)] /\ 1 \in at /\ out[1] = <<>>
      /\ \A i \in 1..n : Follows(at, out, i, piece, length)
  BY DEF Reads
<1>n. n \in Nat
  BY <1>r DEF Cut
<1>l. Len(piece) = n
  BY <1>n, <1>r, LenProperties DEF Cut
<1>1. PICK f \in [1..n + 1 -> Seq(X)] : FromOn(f, n, piece, length, n)
  BY <1>r, JoinedExists
<1> DEFINE Here(i) == i \in at \/ i = n + 1 => out[n + 1] = out[i] \o f[i]
           Holds(m) == \A i \in 1..n + 1 : i >= n + 1 - m => Here(i)
           T == {m \in 0..n : Holds(m)}
<1>2. Holds(0)
  <2>1. f[n + 1] = <<>> /\ n + 1 \in 1..n + 1
    BY <1>n, <1>1 DEF FromOn
  <2>2. out[n + 1] \in Seq(X)
    BY <1>r, <2>1
  <2>3. out[n + 1] = out[n + 1] \o f[n + 1]
    BY <2>1, <2>2
  <2>4. Here(n + 1)
    BY <2>3
  <2> HIDE DEF Here
  <2>5. \A i \in 1..n + 1 : i >= n + 1 - 0 => i = n + 1
    BY <1>n
  <2> QED BY <2>4, <2>5
<1>3. ASSUME NEW m \in 0..n, Holds(m), m < n PROVE Holds(m + 1)
  <2>1. PICK k : k = n - m
    OBVIOUS
  <2>2. k \in 1..n /\ n + 1 - (m + 1) = k /\ n + 1 - m = k + 1 /\ k >= n + 1 - n /\ k \in 1..n + 1
    BY <1>n, <1>3, <2>1
  <2>3. PICK j : j = k + length[k]
    OBVIOUS
  <2>4. j \in 1..n + 1 /\ j >= n + 1 - m
    <3>1. j \in 1..n + 1 /\ j > k
      BY <1>r, <2>2, <2>3, CutIs
    <3> QED BY <1>n, <2>2, <3>1
  <2>5. Here(j)
    <3> HIDE DEF Here
    <3> QED BY <1>3, <2>4
  <2>6. Here(k)
    <3> SUFFICES ASSUME k \in at PROVE out[n + 1] = out[k] \o f[k]
      <4>1. k # n + 1
        BY <1>n, <2>2
      <4> QED BY <4>1
    <3>1. out[j] = out[k] \o piece[k] /\ (j \in at \/ j = n + 1)
      <4>1. Follows(at, out, k, piece, length)
        BY <1>r, <2>2
      <4> QED BY <1>l, <2>3, <4>1 DEF Follows
    <3>2. out[n + 1] = out[j] \o f[j]
      BY <2>5, <3>1
    <3>3. f[k] = piece[k] \o f[j]
      BY <1>1, <2>2, <2>3 DEF FromOn
    <3>4. piece[k] \in Seq(X)
      BY <1>r, <2>2, CutIs
    <3>5. out[k] \in Seq(X) /\ f[j] \in Seq(X)
      BY <1>1, <1>r, <2>2, <2>4
    <3>6. AssocX(out[k], piece[k], f[j])
      BY <3>4, <3>5, AssocXIs
    <3> QED BY <3>1, <3>2, <3>3, <3>6 DEF AssocX
  <2> HIDE DEF Here
  <2>7. ASSUME NEW i \in 1..n + 1, i >= k PROVE Here(i)
    <3>1. i = k \/ i >= n + 1 - m
      BY <1>n, <2>2, <2>7
    <3> QED BY <1>3, <2>6, <3>1
  <2> QED BY <2>2, <2>7
<1>4. T = 0..n
  <2> HIDE DEF Holds
  <2>1. T \in SUBSET (0..n) /\ 0 \in T
    BY <1>n, <1>2
  <2>2. \A m \in T : m < n => m + 1 \in T
    BY <1>n, <1>3
  <2> HIDE DEF T
  <2> QED BY <1>n, <2>1, <2>2, IntervalInduction
<1> HIDE DEF Here
<1>5. Holds(n)
  <2> HIDE DEF Holds
  <2>1. n \in T
    <3>1. n \in 0..n
      BY <1>n
    <3> HIDE DEF T
    <3> QED BY <1>4, <3>1
  <2> QED BY <2>1
<1>6. Here(1)
  <2>1. 1 \in 1..n + 1 /\ 1 >= n + 1 - n
    BY <1>n
  <2> QED BY <1>5, <2>1
<1>7. out[n + 1] = f[1]
  <2>1. f[1] \in Seq(X)
    BY <1>n, <1>1
  <2>2. out[n + 1] = <<>> \o f[1]
    BY <1>r, <1>6 DEF Here
  <2> QED BY <2>1, <2>2
<1>8. FromOn(f, n, piece, length, n)
  BY <1>1
<1>9. Joined(piece, length) = f[1]
  BY <1>r, <1>8, JoinedIs, Zenon
<1> QED BY <1>7, <1>9

\* A run with one more place.
Extends(g, f, n, A, x) == g \in [1..n + 2 -> A] /\ g[n + 2] = x /\ \A i \in 1..n + 1 : g[i] = f[i]

LEMMA Extended ==
  ASSUME NEW n \in Nat, NEW A, NEW f \in [1..n + 1 -> A], NEW x \in A
  PROVE  \E g : Extends(g, f, n, A, x)
<1> DEFINE g == [i \in 1..n + 2 |-> IF i = n + 2 THEN x ELSE f[i]]
<1>1. g \in [1..n + 2 -> A]
  <2>1. ASSUME NEW i \in 1..n + 2, i # n + 2 PROVE f[i] \in A
    <3>1. i \in 1..n + 1
      BY <2>1
    <3> QED BY <3>1
  <2> QED BY <2>1
<1>2. g[n + 2] = x
  BY n + 2 \in 1..n + 2
<1>3. ASSUME NEW i \in 1..n + 1 PROVE g[i] = f[i]
  <2>1. i \in 1..n + 2 /\ i # n + 2
    OBVIOUS
  <2> QED BY <2>1
<1> HIDE DEF g
<1>4. Extends(g, f, n, A, x)
  BY <1>1, <1>2, <1>3 DEF Extends
<1> QED BY <1>4

LEMMA AppendIs ==
  ASSUME NEW X, NEW s \in Seq(X), NEW b \in X
  PROVE  /\ Append(s, b) \in Seq(X) /\ Len(s) \in Nat /\ Len(Append(s, b)) = Len(s) + 1
         /\ Append(s, b)[Len(s) + 1] = b
         /\ \A i \in 1..Len(s) : Append(s, b)[i] = s[i]
         /\ DOMAIN s = 1..Len(s)
         /\ \A i \in 1..Len(s) : s[i] \in X
OBVIOUS
(***************************************************************************)
(* The Telnet commands: the reader's state before each byte, and what it   *)
(* has made of the bytes so far.                                           *)
(***************************************************************************)
Octets == 0..255

IacAfter(q, b) == IF q = 0 /\ b # IAC THEN 0 ELSE NextIac(q, b)

Passed(q, b) ==
  IF q = 0 /\ b # IAC THEN <<IF b \in {ETX, EOT} THEN Stop ELSE b>>
  ELSE IF q = 1 /\ b = IP THEN <<Stop>> ELSE <<>>

TelnetRun(s, iac, out) ==
  /\ iac \in [1..Len(s) + 1 -> 0..4] /\ out \in [1..Len(s) + 1 -> Seq(Nat)]
  /\ iac[1] = 0 /\ out[1] = <<>>
  /\ \A i \in 1..Len(s) : iac[i + 1] = IacAfter(iac[i], s[i]) /\ out[i + 1] = out[i] \o Passed(iac[i], s[i])

Telnet(s, q, p) ==
  \E iac, out : TelnetRun(s, iac, out) /\ iac[Len(s) + 1] = q /\ out[Len(s) + 1] = p

LEMMA IacTypes ==
  ASSUME NEW q \in 0..4, NEW b \in Octets
  PROVE  IacAfter(q, b) \in 0..4 /\ Passed(q, b) \in Seq(Nat)
BY DEF IacAfter, NextIac, Passed, Octets, Stop, IAC, IP

LEMMA TelnetEmpty == Telnet(<<>>, 0, <<>>)
<1> DEFINE iac == [i \in 1..1 |-> 0]
           out == [i \in 1..1 |-> <<>>]
<1>1. Len(<<>>) = 0
  OBVIOUS
<1>2. iac \in [1..1 -> 0..4] /\ out \in [1..1 -> Seq(Nat)] /\ iac[1] = 0 /\ out[1] = <<>>
  OBVIOUS
<1> HIDE DEF iac, out
<1>3. TelnetRun(<<>>, iac, out)
  BY <1>1, <1>2 DEF TelnetRun
<1> QED BY <1>1, <1>2, <1>3 DEF Telnet

LEMMA TelnetTypes ==
  ASSUME NEW s \in Seq(Octets), NEW q, NEW p, Telnet(s, q, p)
  PROVE  q \in 0..4 /\ p \in Seq(Nat)
<1>1. PICK iac, out : TelnetRun(s, iac, out) /\ iac[Len(s) + 1] = q /\ out[Len(s) + 1] = p
  BY DEF Telnet
<1>2. Len(s) + 1 \in 1..Len(s) + 1
  OBVIOUS
<1> QED BY <1>1, <1>2 DEF TelnetRun

LEMMA TelnetNext ==
  ASSUME NEW s \in Seq(Octets), NEW q, NEW p, Telnet(s, q, p), NEW b \in Octets
  PROVE  Telnet(Append(s, b), IacAfter(q, b), p \o Passed(q, b))
<1>1. PICK iac, out : TelnetRun(s, iac, out) /\ iac[Len(s) + 1] = q /\ out[Len(s) + 1] = p
  BY DEF Telnet
<1>2. PICK n : n = Len(s)
  OBVIOUS
<1>3. PICK t : t = Append(s, b)
  OBVIOUS
<1>4. /\ n \in Nat /\ Len(t) = n + 1 /\ Len(t) + 1 = n + 2 /\ t[n + 1] = b
      /\ \A i \in 1..n : t[i] = s[i]
  BY <1>2, <1>3, AppendIs
<1>5. /\ iac \in [1..n + 1 -> 0..4] /\ out \in [1..n + 1 -> Seq(Nat)] /\ iac[1] = 0 /\ out[1] = <<>>
      /\ iac[n + 1] = q /\ out[n + 1] = p
      /\ \A i \in 1..n : iac[i + 1] = IacAfter(iac[i], s[i]) /\ out[i + 1] = out[i] \o Passed(iac[i], s[i])
  BY <1>1, <1>2 DEF TelnetRun
<1>6. q \in 0..4 /\ p \in Seq(Nat) /\ IacAfter(q, b) \in 0..4 /\ Passed(q, b) \in Seq(Nat)
  BY <1>1, TelnetTypes, IacTypes
<1>7. PICK jac : Extends(jac, iac, n, 0..4, IacAfter(q, b))
  BY <1>4, <1>5, <1>6, Extended
<1>8. PICK put : Extends(put, out, n, Seq(Nat), p \o Passed(q, b))
  <2>1. p \o Passed(q, b) \in Seq(Nat)
    BY <1>6
  <2> QED BY <1>4, <1>5, <2>1, Extended
<1>9. ASSUME NEW i \in 1..n + 1
      PROVE  jac[i + 1] = IacAfter(jac[i], t[i]) /\ put[i + 1] = put[i] \o Passed(jac[i], t[i])
  <2>1. CASE i = n + 1
    <3>1. i + 1 = n + 2 /\ jac[i] = q /\ put[i] = p /\ t[i] = b
      BY <1>4, <1>5, <1>7, <1>8, <2>1 DEF Extends
    <3> QED BY <1>7, <1>8, <3>1 DEF Extends
  <2>2. CASE i # n + 1
    <3>1. i \in 1..n /\ i + 1 \in 1..n + 1
      BY <1>4, <2>2
    <3>2. jac[i + 1] = iac[i + 1] /\ put[i + 1] = out[i + 1] /\ jac[i] = iac[i] /\ put[i] = out[i] /\ t[i] = s[i]
      BY <1>4, <1>7, <1>8, <3>1 DEF Extends
    <3> QED BY <1>5, <3>1, <3>2
  <2> QED BY <2>1, <2>2
<1>10. 1 \in 1..n + 1 /\ jac[1] = 0 /\ put[1] = <<>>
  BY <1>4, <1>5, <1>7, <1>8 DEF Extends
<1>11. TelnetRun(t, jac, put)
  BY <1>4, <1>7, <1>8, <1>9, <1>10 DEF TelnetRun, Extends
<1>12. Telnet(t, IacAfter(q, b), p \o Passed(q, b))
  BY <1>4, <1>7, <1>8, <1>11 DEF Telnet, Extends
<1> QED BY <1>3, <1>12
\* The row of IACs before a place grows with an IAC and ends with any other byte.
LEMMA RowNext ==
  ASSUME NEW s, NEW i \in Nat, NEW j \in Nat, j >= i + 2
  PROVE  Escaped(s, i, j + 1) <=> s[j] = IAC /\ ~ Escaped(s, i, j)
<1>1. IsFiniteSet(RowBefore(s, i, j)) /\ j \notin RowBefore(s, i, j)
  <2>1. RowBefore(s, i, j) \in SUBSET (i + 2..j - 1)
    BY DEF RowBefore
  <2>2. IsFiniteSet(i + 2..j - 1)
    BY FS_Interval
  <2> QED BY <2>1, <2>2, FS_Subset
<1>2. CASE s[j] # IAC
  <2>1. RowBefore(s, i, j + 1) = {}
    BY <1>2 DEF RowBefore
  <2>2. Cardinality(RowBefore(s, i, j + 1)) = 0
    BY <2>1, FS_EmptySet
  <2> QED BY <1>2, <2>2 DEF Escaped
<1>3. CASE s[j] = IAC
  <2>1. RowBefore(s, i, j + 1) = RowBefore(s, i, j) \cup {j}
    <3>1. ASSUME NEW k \in RowBefore(s, i, j + 1) PROVE k \in RowBefore(s, i, j) \cup {j}
      BY DEF RowBefore
    <3>2. ASSUME NEW k \in RowBefore(s, i, j) PROVE k \in RowBefore(s, i, j + 1)
      <4>1. k \in i + 2..j /\ \A m \in k..j - 1 : s[m] = IAC
        BY DEF RowBefore
      <4>2. \A m \in k..j : m = j \/ m \in k..j - 1
        OBVIOUS
      <4>3. \A m \in k..j : s[m] = IAC
        BY <1>3, <4>1, <4>2
      <4> QED BY <4>1, <4>3 DEF RowBefore
    <3>3. j \in RowBefore(s, i, j + 1)
      BY <1>3 DEF RowBefore
    <3> QED BY <3>1, <3>2, <3>3
  <2>2. Cardinality(RowBefore(s, i, j + 1)) = Cardinality(RowBefore(s, i, j)) + 1
    BY <1>1, <2>1, FS_AddElement
  <2>3. Cardinality(RowBefore(s, i, j)) \in Nat
    BY <1>1, FS_CardinalityType
  <2> QED BY <1>3, <2>2, <2>3 DEF Escaped
<1> QED BY <1>2, <1>3

LEMMA RowBegins ==
  ASSUME NEW s, NEW i \in Nat
  PROVE  ~ Escaped(s, i, i + 2)
<1>1. RowBefore(s, i, i + 2) = {}
  BY DEF RowBefore
<1>2. Cardinality(RowBefore(s, i, i + 2)) = 0
  BY <1>1, FS_EmptySet
<1> QED BY <1>2 DEF Escaped

\* Inside the subnegotiation that begins at i, up to the end of it, if it has one.
Inside(s, iac, out, i, j) ==
  /\ out[j] = out[i]
  /\ iac[j] = IF Escaped(s, i, j) THEN 4 ELSE 3
  /\ iac[j] = 4 => j - 1 >= i + 2 /\ s[j - 1] = IAC /\ ~ Escaped(s, i, j - 1)

RunStep(iac, out, i, b, j) ==
  /\ b \in Octets /\ iac[i] \in 0..4 /\ out[i] \in Seq(Nat) /\ out[i] \o <<>> = out[i]
  /\ iac[j] = IacAfter(iac[i], b) /\ out[j] = out[i] \o Passed(iac[i], b)

LEMMA RunIs ==
  ASSUME NEW s \in Seq(Octets), NEW iac, NEW out, TelnetRun(s, iac, out), NEW i \in 1..Len(s),
         NEW j, j = i + 1
  PROVE  RunStep(iac, out, i, s[i], j)
<1>1. Len(s) \in Nat /\ s[i] \in Octets /\ i + 1 \in 1..Len(s) + 1 /\ i \in 1..Len(s) + 1
  OBVIOUS
<1>2. /\ iac[i] \in 0..4 /\ out[i] \in Seq(Nat)
      /\ iac[i + 1] = IacAfter(iac[i], s[i]) /\ out[i + 1] = out[i] \o Passed(iac[i], s[i])
  BY <1>1 DEF TelnetRun
<1>3. out[i] \o <<>> = out[i]
  BY <1>2
<1> QED BY <1>1, <1>2, <1>3 DEF RunStep

LEMMA InsideNext ==
  ASSUME NEW s \in Seq(Octets), NEW iac, NEW out, TelnetRun(s, iac, out), NEW i \in Nat,
         NEW j \in 1..Len(s), j >= i + 2, Inside(s, iac, out, i, j),
         \A e \in Ends(s, i) : j <= e
  PROVE  Inside(s, iac, out, i, j + 1)
<1>n. Len(s) \in Nat /\ j \in Nat /\ j + 1 - 1 = j
  OBVIOUS
<1>1. /\ iac[j + 1] = IacAfter(iac[j], s[j])
      /\ Passed(iac[j], s[j]) = <<>> => out[j + 1] = out[j]
  <2>1. RunStep(iac, out, j, s[j], j + 1)
    BY RunIs, Zenon
  <2>2. Passed(iac[j], s[j]) = <<>> => out[j] \o Passed(iac[j], s[j]) = out[j]
    BY <2>1 DEF RunStep
  <2> QED BY <2>1, <2>2 DEF RunStep
<1>2. iac[j] \in {3, 4} /\ out[j] = out[i] /\ (iac[j] = 4 <=> Escaped(s, i, j))
  BY DEF Inside
<1>3. out[j + 1] = out[i]
  BY <1>1, <1>2 DEF Passed
<1>4. ~ (iac[j] = 4 /\ s[j] = SE)
  <2> SUFFICES ASSUME iac[j] = 4, s[j] = SE PROVE FALSE
    OBVIOUS
  <2>1. j - 1 >= i + 2 /\ s[j - 1] = IAC /\ ~ Escaped(s, i, j - 1)
    BY DEF Inside
  <2>2. PICK k : k = j - 1
    OBVIOUS
  <2>3. k \in i + 2..Len(s) - 1 /\ k + 1 = j
    BY <1>n, <2>1, <2>2
  <2>4. k \in Ends(s, i)
    BY <2>1, <2>2, <2>3 DEF Ends
  <2>5. j <= k
    BY <2>4
  <2> QED BY <1>n, <2>3, <2>5
<1>5. iac[j + 1] = IF s[j] = IAC /\ iac[j] = 3 THEN 4 ELSE 3
  BY <1>1, <1>2, <1>4 DEF IacAfter, NextIac, IAC, SE
<1>6. Escaped(s, i, j + 1) <=> s[j] = IAC /\ ~ Escaped(s, i, j)
  BY <1>n, RowNext
<1>7. iac[j + 1] = IF Escaped(s, i, j + 1) THEN 4 ELSE 3
  BY <1>2, <1>5, <1>6
<1>8. iac[j + 1] = 4 => s[j] = IAC /\ ~ Escaped(s, i, j)
  BY <1>2, <1>5
<1> QED BY <1>n, <1>3, <1>7, <1>8 DEF Inside

\* The reader is inside up to m when there is no end before.
LEMMA InsideUpTo ==
  ASSUME NEW s \in Seq(Octets), NEW iac, NEW out, TelnetRun(s, iac, out), NEW i \in Nat,
         NEW m \in Nat, i + 2 <= m, m <= Len(s) + 1, Inside(s, iac, out, i, i + 2),
         \A e \in Ends(s, i) : m <= e + 1
  PROVE  Inside(s, iac, out, i, m)
<1> DEFINE T == {d \in 0..m - (i + 2) : Inside(s, iac, out, i, i + 2 + d)}
<1>n. Len(s) \in Nat /\ m - (i + 2) \in Nat
  OBVIOUS
<1>1. 0 \in T
  <2>1. i + 2 + 0 = i + 2
    OBVIOUS
  <2> QED BY <1>n, <2>1
<1>2. ASSUME NEW d \in T, d < m - (i + 2) PROVE d + 1 \in T
  <2>1. d \in 0..m - (i + 2) /\ Inside(s, iac, out, i, i + 2 + d)
    OBVIOUS
  <2>2. PICK j : j = i + 2 + d
    OBVIOUS
  <2>3. j \in 1..Len(s) /\ j >= i + 2 /\ j < m /\ j + 1 = i + 2 + (d + 1) /\ d + 1 \in 0..m - (i + 2)
    BY <1>n, <1>2, <2>1, <2>2
  <2>4. \A e \in Ends(s, i) : j <= e
    <3> SUFFICES ASSUME NEW e \in Ends(s, i) PROVE j <= e
      OBVIOUS
    <3>1. e \in Int
      BY <1>n DEF Ends
    <3> QED BY <2>3, <3>1
  <2>5. Inside(s, iac, out, i, j + 1)
    BY <2>1, <2>2, <2>3, <2>4, InsideNext
  <2> QED BY <2>3, <2>5
<1>3. T = 0..m - (i + 2)
  <2>1. T \in SUBSET (0..m - (i + 2))
    OBVIOUS
  <2> HIDE DEF T
  <2> QED BY <1>n, <1>1, <1>2, <2>1, IntervalInduction
<1>4. i + 2 + (m - (i + 2)) = m /\ m - (i + 2) \in 0..m - (i + 2)
  BY <1>n
<1>5. m - (i + 2) \in T
  <2> HIDE DEF T
  <2> QED BY <1>3, <1>4
<1> QED BY <1>4, <1>5

LEMMA EndsMin ==
  ASSUME NEW S \in SUBSET Int, NEW m \in Nat, \A e \in S : e >= 0 /\ e <= m, S # {}
  PROVE  Min(S) \in S /\ \A e \in S : Min(S) <= e
<1>1. S \in SUBSET (0..m)
  OBVIOUS
<1>3. PICK x \in S : \A e \in S : x <= e
  <2> DEFINE T == {d \in 0..m : (\E e \in S : e <= d) => \E x \in S : \A e \in S : x <= e}
  <2>1. 0 \in T
    OBVIOUS
  <2>2. ASSUME NEW d \in T, d < m PROVE d + 1 \in T
    <3>1. d \in 0..m /\ d + 1 \in 0..m
      BY <2>2
    <3>2. CASE \E e \in S : e <= d
      BY <3>1, <3>2
    <3>3. CASE ~ \E e \in S : e <= d
      <4>1. \A e \in S : d + 1 <= e
        BY <3>1, <3>3
      <4>2. \A x \in S : x <= d + 1 => \A e \in S : x <= e
        BY <3>1, <4>1
      <4> QED BY <3>1, <4>2
    <3> QED BY <3>2, <3>3
  <2>3. T = 0..m
    <3>1. T \in SUBSET (0..m)
      OBVIOUS
    <3> HIDE DEF T
    <3> QED BY <2>1, <2>2, <3>1, IntervalInduction
  <2>4. m \in T
    <3>1. m \in 0..m
      OBVIOUS
    <3> HIDE DEF T
    <3> QED BY <2>3, <3>1
  <2> QED BY <2>4
<1> QED BY <1>3 DEF Min

LEMMA CommandLengthIs ==
  ASSUME NEW s \in Seq(Octets), NEW i \in 1..Len(s)
  PROVE  CommandLength(s, i) \in Nat /\ CommandLength(s, i) >= 1 /\ i + CommandLength(s, i) <= Len(s) + 1
<1>n. Len(s) \in Nat /\ i \in Nat
  OBVIOUS
<1>1. PICK c : c = CommandLength(s, i)
  OBVIOUS
<1>2. PICK r : r = Len(s) - i + 1
  OBVIOUS
<1>3. r \in Nat /\ r >= 1 /\ i + r = Len(s) + 1
  BY <1>n, <1>2
<1>4. \/ c = 1
      \/ r > 1 /\ c = 2
      \/ r > 2 /\ c = 3
      \/ c = r
      \/ Ends(s, i) # {} /\ c = Min(Ends(s, i)) + 2 - i
  BY <1>1, <1>2, <1>3 DEF CommandLength, Options, SB
<1>5. CASE Ends(s, i) # {} /\ c = Min(Ends(s, i)) + 2 - i
  <2>1. PICK m : m = Min(Ends(s, i))
    OBVIOUS
  <2>2. Ends(s, i) \in SUBSET Int /\ \A e \in Ends(s, i) : e >= 0 /\ e <= Len(s)
    BY <1>n DEF Ends
  <2>3. m \in Ends(s, i)
    BY <1>n, <1>5, <2>1, <2>2, EndsMin
  <2>4. m \in Nat /\ m >= i + 2 /\ m + 1 <= Len(s)
    BY <1>n, <2>3 DEF Ends
  <2> QED BY <1>n, <1>1, <1>5, <2>1, <2>4
<1> QED BY <1>n, <1>1, <1>3, <1>4, <1>5

\* A command is skipped, and nothing but an interruption comes of it.
LEMMA SkipsCommand ==
  ASSUME NEW s \in Seq(Octets), NEW iac, NEW out, TelnetRun(s, iac, out), NEW i \in 1..Len(s),
         iac[i] = 0, s[i] = IAC
  PROVE  LET j == i + CommandLength(s, i)
         IN  /\ CommandLength(s, i) \in Nat /\ CommandLength(s, i) >= 1 /\ j <= Len(s) + 1
             /\ out[j] = out[i] \o PayloadAt(s, i)
             /\ iac[j] = 0 \/ j = Len(s) + 1
<1> DEFINE n == Len(s)
           c == CommandLength(s, i)
<1>n. n \in Nat /\ i \in Nat /\ i >= 1 /\ i <= n
  OBVIOUS
<1>1. iac[i + 1] = 1 /\ out[i + 1] = out[i] /\ out[i] \in Seq(Nat) /\ out[i] \o <<>> = out[i]
  <2>1. RunStep(iac, out, i, IAC, i + 1)
    BY RunIs, Zenon
  <2>2. IacAfter(0, IAC) = 1 /\ Passed(0, IAC) = <<>>
    BY DEF IacAfter, NextIac, Passed
  <2> QED BY <2>1, <2>2 DEF RunStep
<1>2. CASE i = n
  <2>1. c = 1
    BY <1>n, <1>2 DEF CommandLength
  <2>2. PayloadAt(s, i) = <<>>
    BY <1>n, <1>2 DEF PayloadAt
  <2> QED BY <1>n, <1>1, <1>2, <2>1, <2>2
<1>3. CASE i < n
  <2>1. i + 1 \in 1..n /\ i + 1 + 1 = i + 2 /\ n - i + 1 > 1
    BY <1>n, <1>3
  <2>2. PICK b : b = s[i + 1]
    OBVIOUS
  <2>3. b \in Octets /\ iac[i + 2] = IacAfter(1, b) /\ out[i + 2] = out[i] \o Passed(1, b)
    <3>1. RunStep(iac, out, i + 1, b, i + 2)
      BY <2>1, <2>2, RunIs, Zenon
    <3> QED BY <1>1, <3>1 DEF RunStep
  <2>4. PayloadAt(s, i) = IF b = IP THEN <<Stop>> ELSE <<>>
    BY <1>3, <2>2 DEF PayloadAt
  <2>5. Passed(1, b) = PayloadAt(s, i)
    BY <2>4 DEF Passed
  <2>6. CASE b \notin Options \cup {SB}
    <3>1. c = 2
      BY <2>1, <2>2, <2>6 DEF CommandLength
    <3>2. iac[i + 2] = 0
      BY <2>3, <2>6 DEF IacAfter, NextIac
    <3> QED BY <1>n, <1>3, <2>3, <2>5, <3>1, <3>2
  <2>7. CASE b \in Options
    <3>1. b # SB /\ b # IP
      BY <2>7 DEF Options, SB, IP
    <3>2. iac[i + 2] = 2 /\ PayloadAt(s, i) = <<>> /\ out[i + 2] = out[i]
      BY <1>1, <2>3, <2>4, <2>5, <2>7, <3>1 DEF IacAfter, NextIac
    <3>3. c = IF n - i + 1 = 2 THEN 2 ELSE 3
      BY <2>1, <2>2, <2>7, <3>1 DEF CommandLength
    <3>4. CASE i + 1 = n
      <4>1. c = 2
        BY <1>n, <3>3, <3>4
      <4> QED BY <1>n, <1>1, <3>2, <3>4, <4>1
    <3>5. CASE i + 1 < n
      <4>1. c = 3 /\ i + 2 \in 1..n /\ i + 2 + 1 = i + 3
        BY <1>n, <3>3, <3>5
      <4>2. iac[i + 3] = IacAfter(2, s[i + 2]) /\ out[i + 3] = out[i + 2] \o Passed(2, s[i + 2])
        <5>1. RunStep(iac, out, i + 2, s[i + 2], i + 3)
          BY <4>1, RunIs, Zenon
        <5> QED BY <3>2, <5>1 DEF RunStep
      <4>3. iac[i + 3] = 0 /\ out[i + 3] = out[i] \o <<>>
        BY <3>2, <4>2 DEF IacAfter, NextIac, Passed
      <4> QED BY <1>n, <1>1, <3>2, <3>5, <4>1, <4>3
    <3> QED BY <1>n, <2>1, <3>4, <3>5
  <2>8. CASE b = SB
    <3>1. iac[i + 2] = 3 /\ PayloadAt(s, i) = <<>> /\ out[i + 2] = out[i]
      BY <1>1, <2>3, <2>4, <2>5, <2>8 DEF IacAfter, NextIac, SB, IP
    <3>2. Inside(s, iac, out, i, i + 2)
      BY <1>n, <3>1, RowBegins DEF Inside
    <3>3. c = IF Ends(s, i) = {} THEN n - i + 1 ELSE Min(Ends(s, i)) + 2 - i
      <4>1. ~ (Len(s) - i + 1 = 1)
        BY <2>1
      <4>2. s[i + 1] \notin Options
        BY <2>2, <2>8 DEF Options, SB
      <4> QED BY <2>1, <2>2, <2>8, <4>1, <4>2 DEF CommandLength
    <3>4. CASE Ends(s, i) = {}
      <4>1. c = n - i + 1 /\ i + c = n + 1
        BY <1>n, <3>3, <3>4
      <4>2. Inside(s, iac, out, i, n + 1)
        BY <1>n, <1>3, <3>2, <3>4, InsideUpTo
      <4>3. out[n + 1] = out[i]
        BY <4>2 DEF Inside
      <4> QED BY <1>n, <1>1, <3>1, <4>1, <4>3
    <3>5. CASE Ends(s, i) # {}
      <4>1. PICK m : m = Min(Ends(s, i))
        OBVIOUS
      <4>2. Ends(s, i) \in SUBSET Int /\ \A e \in Ends(s, i) : e >= 0 /\ e <= n
        BY <1>n DEF Ends
      <4>3. m \in Ends(s, i) /\ \A e \in Ends(s, i) : m <= e
        BY <1>n, <3>5, <4>1, <4>2, EndsMin
      <4>4. m \in Nat /\ m >= i + 2 /\ m + 1 <= n /\ s[m] = IAC /\ s[m + 1] = SE /\ ~ Escaped(s, i, m)
        BY <1>n, <4>3 DEF Ends
      <4>5. c = m + 2 - i /\ i + c = m + 2
        BY SMTT(30), <1>n, <3>3, <3>5, <4>1, <4>4
      <4>6. \A e \in Ends(s, i) : m + 1 <= e + 1
        BY <4>2, <4>3, <4>4
      <4>7. Inside(s, iac, out, i, m + 1)
        BY <1>n, <3>2, <4>4, <4>6, InsideUpTo
      <4>8. Escaped(s, i, m + 1)
        BY <1>n, <4>4, RowNext
      <4>9. iac[m + 1] = 4 /\ out[m + 1] = out[i]
        BY <4>7, <4>8 DEF Inside
      <4>10. m + 1 \in 1..n /\ m + 1 + 1 = m + 2
        BY <1>n, <4>4
      <4>11. iac[m + 2] = IacAfter(4, SE) /\ out[m + 2] = out[i] \o Passed(4, SE)
        <5>1. RunStep(iac, out, m + 1, s[m + 1], m + 2)
          BY <4>10, RunIs, Zenon
        <5> QED BY <4>4, <4>9, <5>1 DEF RunStep
      <4>12. iac[m + 2] = 0 /\ out[m + 2] = out[i] \o <<>>
        BY <4>11 DEF IacAfter, NextIac, Passed
      <4> QED BY <1>n, <1>1, <3>1, <4>4, <4>5, <4>12
    <3> QED BY <3>4, <3>5
  <2> QED BY <2>6, <2>7, <2>8
<1> QED BY <1>n, <1>2, <1>3

LEMMA OctetsAre == Octets \subseteq Nat
BY DEF Octets

\* What the reader has passed on is the payload.
LEMMA TelnetIs ==
  ASSUME NEW s \in Seq(Octets), NEW q, NEW p, Telnet(s, q, p)
  PROVE  Payload(s) = p
<1>1. PICK iac, out : TelnetRun(s, iac, out) /\ iac[Len(s) + 1] = q /\ out[Len(s) + 1] = p
  BY DEF Telnet
<1>2. PICK n : n = Len(s)
  OBVIOUS
<1>n. n \in Nat
  BY <1>2
<1> DEFINE piece == [i \in 1..n |-> PayloadAt(s, i)]
           length == [i \in 1..n |-> PayloadStep(s, i)]
           at == {i \in 1..n + 1 : iac[i] = 0}
<1>3. /\ iac \in [1..n + 1 -> 0..4] /\ out \in [1..n + 1 -> Seq(Nat)] /\ iac[1] = 0 /\ out[1] = <<>>
  BY <1>1, <1>2 DEF TelnetRun
<1>4. ASSUME NEW i \in 1..n, iac[i] = 0
      PROVE  /\ length[i] \in Nat /\ length[i] >= 1 /\ i + length[i] <= n + 1
             /\ Follows(at, out, i, piece, length)
  <2>1. i \in Nat /\ s[i] \in Octets /\ i \in 1..Len(s) /\ i \in 1..n + 1
    BY <1>2
  <2>2. length[i] = PayloadStep(s, i) /\ piece[i] = PayloadAt(s, i) /\ Len(piece) = n
    BY <1>n, LenProperties
  <2> HIDE DEF piece, length
  <2>3. PICK c : c = PayloadStep(s, i)
    OBVIOUS
  <2>4. /\ c \in Nat /\ c >= 1 /\ i + c <= n + 1
        /\ out[i + c] = out[i] \o PayloadAt(s, i)
        /\ iac[i + c] = 0 \/ i + c = n + 1
    <3>1. CASE s[i] = IAC
      <4>1. c = CommandLength(s, i)
        BY <2>3, <3>1 DEF PayloadStep
      <4>2. PICK k : k = CommandLength(s, i)
        OBVIOUS
      <4>3. /\ k \in Nat /\ k >= 1 /\ i + k <= Len(s) + 1
            /\ out[i + k] = out[i] \o PayloadAt(s, i)
            /\ iac[i + k] = 0 \/ i + k = Len(s) + 1
        BY <1>1, <1>2, <1>4, <3>1, <4>2, SkipsCommand
      <4> QED BY <1>2, <4>1, <4>2, <4>3
    <3>2. CASE s[i] # IAC
      <4>1. c = 1
        BY <2>3, <3>2 DEF PayloadStep
      <4>2. RunStep(iac, out, i, s[i], i + 1)
        BY <1>1, <1>2, RunIs, Zenon
      <4>3. Passed(0, s[i]) = PayloadAt(s, i) /\ IacAfter(0, s[i]) = 0
        BY <3>2 DEF Passed, PayloadAt, IacAfter
      <4>4. out[i + 1] = out[i] \o PayloadAt(s, i) /\ iac[i + 1] = 0
        BY <1>4, <4>2, <4>3 DEF RunStep
      <4>5. i + 1 <= n + 1
        BY <1>n
      <4> QED BY <4>1, <4>4, <4>5
    <3> QED BY <3>1, <3>2
  <2>5. i + c \in 1..n + 1
    BY <1>n, <2>1, <2>4
  <2>6. i + c \in at \/ i + c = Len(piece) + 1
    BY <2>2, <2>4, <2>5
  <2> HIDE DEF at
  <2>7. Follows(at, out, i, piece, length)
    BY <2>2, <2>3, <2>4, <2>6 DEF Follows
  <2> QED BY <2>2, <2>3, <2>4, <2>7
<1>5. Cut(n, Nat, piece, length)
  <2>1. ASSUME NEW i \in 1..n PROVE PayloadAt(s, i) \in Seq(Nat)
    <3>1. s[i] \in Nat
      <4>1. s[i] \in Octets
        BY <1>2
      <4> QED BY <4>1, OctetsAre
    <3>2. Stop \in Nat /\ <<>> \in Seq(Nat)
      BY DEF Stop
    <3>3. \A x \in Nat : <<x>> \in Seq(Nat)
      OBVIOUS
    <3> QED BY <3>1, <3>2, <3>3 DEF PayloadAt
  <2>2. ASSUME NEW i \in 1..n
        PROVE  PayloadStep(s, i) \in Nat /\ PayloadStep(s, i) >= 1 /\ i + PayloadStep(s, i) <= n + 1
    <3>1. CASE s[i] = IAC
      BY <1>2, <3>1, CommandLengthIs DEF PayloadStep
    <3>2. CASE s[i] # IAC
      BY <1>n, <3>2 DEF PayloadStep
    <3> QED BY <3>1, <3>2
  <2>3. piece \in [1..n -> Seq(Nat)]
    BY <2>1
  <2>4. length \in [1..n -> Nat] /\ \A i \in 1..n : length[i] >= 1 /\ i + length[i] <= n + 1
    BY <2>2
  <2> HIDE DEF piece, length
  <2> QED BY <1>n, <2>3, <2>4 DEF Cut
<1>6. Payload(s) = Joined(piece, length)
  BY <1>2 DEF Payload
<1>7. \A i \in 1..n : Follows(at, out, i, piece, length)
  <2> SUFFICES ASSUME NEW i \in 1..n PROVE Follows(at, out, i, piece, length)
    OBVIOUS
  <2>1. CASE i \in at
    BY <1>4, <2>1
  <2>2. CASE i \notin at
    BY <2>2 DEF Follows
  <2> QED BY <2>1, <2>2
<1>8. 1 \in at
  BY <1>n, <1>3
<1> HIDE DEF piece, length, at
<1>9. Joined(piece, length) = out[n + 1]
  <2>1. Reads(n, Nat, piece, length, at, out)
    BY <1>3, <1>5, <1>7, <1>8 DEF Reads
  <2> QED BY <2>1, JoinedBy
<1> QED BY <1>1, <1>2, <1>6, <1>9

(***************************************************************************)
(* The escape sequences, in the same way.                                  *)
(***************************************************************************)
EscapeAfter(q, b) == IF q = 0 /\ b # ESC THEN 0 ELSE NextEscape(q, b)
Kept(q, b) == IF q = 0 /\ b # ESC THEN <<b>> ELSE <<>>

EscapeRun(p, esc, out) ==
  /\ esc \in [1..Len(p) + 1 -> 0..2] /\ out \in [1..Len(p) + 1 -> Seq(Nat)]
  /\ esc[1] = 0 /\ out[1] = <<>>
  /\ \A i \in 1..Len(p) : esc[i + 1] = EscapeAfter(esc[i], p[i]) /\ out[i + 1] = out[i] \o Kept(esc[i], p[i])

Escapes(p, q, k) ==
  \E esc, out : EscapeRun(p, esc, out) /\ esc[Len(p) + 1] = q /\ out[Len(p) + 1] = k

LEMMA EscapeTypes ==
  ASSUME NEW q \in 0..2, NEW b \in Nat
  PROVE  EscapeAfter(q, b) \in 0..2 /\ Kept(q, b) \in Seq(Nat)
BY DEF EscapeAfter, NextEscape, Kept

LEMMA EscapesEmpty == Escapes(<<>>, 0, <<>>)
<1> DEFINE esc == [i \in 1..1 |-> 0]
           out == [i \in 1..1 |-> <<>>]
<1>1. Len(<<>>) = 0
  OBVIOUS
<1>2. esc \in [1..1 -> 0..2] /\ out \in [1..1 -> Seq(Nat)] /\ esc[1] = 0 /\ out[1] = <<>>
  OBVIOUS
<1> HIDE DEF esc, out
<1>3. EscapeRun(<<>>, esc, out)
  BY <1>1, <1>2 DEF EscapeRun
<1> QED BY <1>1, <1>2, <1>3 DEF Escapes

LEMMA EscapesTypes ==
  ASSUME NEW p \in Seq(Nat), NEW q, NEW k, Escapes(p, q, k)
  PROVE  q \in 0..2 /\ k \in Seq(Nat)
<1>1. PICK esc, out : EscapeRun(p, esc, out) /\ esc[Len(p) + 1] = q /\ out[Len(p) + 1] = k
  BY DEF Escapes
<1>2. Len(p) + 1 \in 1..Len(p) + 1
  OBVIOUS
<1> QED BY <1>1, <1>2 DEF EscapeRun

LEMMA EscapesNext ==
  ASSUME NEW p \in Seq(Nat), NEW q, NEW k, Escapes(p, q, k), NEW b \in Nat
  PROVE  Escapes(Append(p, b), EscapeAfter(q, b), k \o Kept(q, b))
<1>1. PICK esc, out : EscapeRun(p, esc, out) /\ esc[Len(p) + 1] = q /\ out[Len(p) + 1] = k
  BY DEF Escapes
<1>2. PICK n : n = Len(p)
  OBVIOUS
<1>3. PICK t : t = Append(p, b)
  OBVIOUS
<1>4. /\ n \in Nat /\ Len(t) = n + 1 /\ Len(t) + 1 = n + 2 /\ t[n + 1] = b
      /\ \A i \in 1..n : t[i] = p[i]
  BY <1>2, <1>3, AppendIs
<1>5. /\ esc \in [1..n + 1 -> 0..2] /\ out \in [1..n + 1 -> Seq(Nat)] /\ esc[1] = 0 /\ out[1] = <<>>
      /\ esc[n + 1] = q /\ out[n + 1] = k
      /\ \A i \in 1..n : esc[i + 1] = EscapeAfter(esc[i], p[i]) /\ out[i + 1] = out[i] \o Kept(esc[i], p[i])
  BY <1>1, <1>2 DEF EscapeRun
<1>6. q \in 0..2 /\ k \in Seq(Nat) /\ EscapeAfter(q, b) \in 0..2 /\ Kept(q, b) \in Seq(Nat)
  BY <1>1, EscapesTypes, EscapeTypes
<1>7. PICK esc2 : Extends(esc2, esc, n, 0..2, EscapeAfter(q, b))
  BY <1>4, <1>5, <1>6, Extended
<1>8. PICK put : Extends(put, out, n, Seq(Nat), k \o Kept(q, b))
  <2>1. k \o Kept(q, b) \in Seq(Nat)
    BY <1>6
  <2> QED BY <1>4, <1>5, <2>1, Extended
<1>9. ASSUME NEW i \in 1..n + 1
      PROVE  esc2[i + 1] = EscapeAfter(esc2[i], t[i]) /\ put[i + 1] = put[i] \o Kept(esc2[i], t[i])
  <2>1. CASE i = n + 1
    <3>1. i + 1 = n + 2 /\ esc2[i] = q /\ put[i] = k /\ t[i] = b
      BY <1>4, <1>5, <1>7, <1>8, <2>1 DEF Extends
    <3> QED BY <1>7, <1>8, <3>1 DEF Extends
  <2>2. CASE i # n + 1
    <3>1. i \in 1..n /\ i + 1 \in 1..n + 1
      BY <1>4, <2>2
    <3>2. esc2[i + 1] = esc[i + 1] /\ put[i + 1] = out[i + 1] /\ esc2[i] = esc[i] /\ put[i] = out[i] /\ t[i] = p[i]
      BY <1>4, <1>7, <1>8, <3>1 DEF Extends
    <3> QED BY <1>5, <3>1, <3>2
  <2> QED BY <2>1, <2>2
<1>10. 1 \in 1..n + 1 /\ esc2[1] = 0 /\ put[1] = <<>>
  BY <1>4, <1>5, <1>7, <1>8 DEF Extends
<1>11. EscapeRun(t, esc2, put)
  BY <1>4, <1>7, <1>8, <1>9, <1>10 DEF EscapeRun, Extends
<1>12. Escapes(t, EscapeAfter(q, b), k \o Kept(q, b))
  BY <1>4, <1>7, <1>8, <1>11 DEF Escapes, Extends
<1> QED BY <1>3, <1>12

EscapeGoes(esc, out, i, b, j) ==
  /\ b \in Nat /\ esc[i] \in 0..2 /\ out[i] \in Seq(Nat) /\ out[i] \o <<>> = out[i]
  /\ esc[j] = EscapeAfter(esc[i], b) /\ out[j] = out[i] \o Kept(esc[i], b)

LEMMA EscapeRunIs ==
  ASSUME NEW p \in Seq(Nat), NEW esc, NEW out, EscapeRun(p, esc, out), NEW i \in 1..Len(p),
         NEW j, j = i + 1
  PROVE  EscapeGoes(esc, out, i, p[i], j)
<1>1. Len(p) \in Nat /\ p[i] \in Nat /\ i + 1 \in 1..Len(p) + 1 /\ i \in 1..Len(p) + 1
  OBVIOUS
<1>2. /\ esc[i] \in 0..2 /\ out[i] \in Seq(Nat)
      /\ esc[i + 1] = EscapeAfter(esc[i], p[i]) /\ out[i + 1] = out[i] \o Kept(esc[i], p[i])
  BY <1>1 DEF EscapeRun
<1>3. out[i] \o <<>> = out[i]
  BY <1>2
<1> QED BY <1>1, <1>2, <1>3 DEF EscapeGoes

\* Until the first final byte the reader stays in the sequence that begins at i.
LEMMA EscapeUpTo ==
  ASSUME NEW p \in Seq(Nat), NEW esc, NEW out, EscapeRun(p, esc, out), NEW i \in Nat,
         NEW m \in Nat, i + 2 <= m, m <= Len(p) + 1, esc[i + 2] = 2, out[i + 2] = out[i],
         \A e \in FinalsAfter(p, i) : m <= e
  PROVE  esc[m] = 2 /\ out[m] = out[i]
<1> DEFINE T == {d \in 0..m - (i + 2) : esc[i + 2 + d] = 2 /\ out[i + 2 + d] = out[i]}
<1>n. Len(p) \in Nat /\ m - (i + 2) \in Nat
  OBVIOUS
<1>1. 0 \in T
  <2>1. i + 2 + 0 = i + 2
    OBVIOUS
  <2> QED BY <1>n, <2>1
<1>2. ASSUME NEW d \in T, d < m - (i + 2) PROVE d + 1 \in T
  <2>1. d \in 0..m - (i + 2) /\ esc[i + 2 + d] = 2 /\ out[i + 2 + d] = out[i]
    OBVIOUS
  <2>2. PICK j : j = i + 2 + d
    OBVIOUS
  <2>3. j \in 1..Len(p) /\ j >= i + 2 /\ j < m /\ j + 1 = i + 2 + (d + 1) /\ d + 1 \in 0..m - (i + 2)
    BY <1>n, <1>2, <2>1, <2>2
  <2>4. p[j] \notin Finals
    <3> SUFFICES ASSUME p[j] \in Finals PROVE FALSE
      OBVIOUS
    <3>1. j \in FinalsAfter(p, i)
      BY <1>n, <2>3 DEF FinalsAfter
    <3>2. m <= j
      BY <3>1
    <3> QED BY <1>n, <2>3, <3>2
  <2>5. EscapeGoes(esc, out, j, p[j], j + 1)
    BY <2>3, EscapeRunIs, Zenon
  <2>6. EscapeAfter(2, p[j]) = 2 /\ Kept(2, p[j]) = <<>>
    BY <2>4 DEF EscapeAfter, NextEscape, Kept
  <2>7. esc[j + 1] = 2 /\ out[j + 1] = out[i]
    BY <2>1, <2>2, <2>5, <2>6 DEF EscapeGoes
  <2> QED BY <2>3, <2>7
<1>3. T = 0..m - (i + 2)
  <2>1. T \in SUBSET (0..m - (i + 2))
    OBVIOUS
  <2> HIDE DEF T
  <2> QED BY <1>n, <1>1, <1>2, <2>1, IntervalInduction
<1>4. i + 2 + (m - (i + 2)) = m /\ m - (i + 2) \in 0..m - (i + 2)
  BY <1>n
<1>5. m - (i + 2) \in T
  <2> HIDE DEF T
  <2> QED BY <1>3, <1>4
<1> QED BY <1>4, <1>5

LEMMA FinalsMin ==
  ASSUME NEW p \in Seq(Nat), NEW i \in 1..Len(p), FinalsAfter(p, i) # {}, NEW m, m = Min(FinalsAfter(p, i))
  PROVE  /\ m \in Nat /\ m >= i + 2 /\ m <= Len(p) /\ p[m] \in Finals
         /\ \A e \in FinalsAfter(p, i) : m <= e
<1>n. Len(p) \in Nat /\ i \in Nat
  OBVIOUS
<1>1. FinalsAfter(p, i) \in SUBSET Int /\ \A e \in FinalsAfter(p, i) : e >= 0 /\ e <= Len(p)
  BY <1>n DEF FinalsAfter
<1>2. m \in FinalsAfter(p, i) /\ \A e \in FinalsAfter(p, i) : m <= e
  BY <1>n, <1>1, EndsMin
<1> QED BY <1>n, <1>2 DEF FinalsAfter

LEMMA EscapeLengthIs ==
  ASSUME NEW p \in Seq(Nat), NEW i \in 1..Len(p)
  PROVE  EscapeLength(p, i) \in Nat /\ EscapeLength(p, i) >= 1 /\ i + EscapeLength(p, i) <= Len(p) + 1
<1>n. Len(p) \in Nat /\ i \in Nat
  OBVIOUS
<1>1. PICK c : c = EscapeLength(p, i)
  OBVIOUS
<1>2. PICK r : r = Len(p) - i + 1
  OBVIOUS
<1>3. r \in Nat /\ r >= 1 /\ i + r = Len(p) + 1
  BY <1>n, <1>2
<1>4. \/ c = 1
      \/ r > 1 /\ c = 2
      \/ c = r
      \/ FinalsAfter(p, i) # {} /\ c = Min(FinalsAfter(p, i)) + 1 - i
  BY <1>1, <1>2, <1>3 DEF EscapeLength
<1>5. CASE FinalsAfter(p, i) # {} /\ c = Min(FinalsAfter(p, i)) + 1 - i
  <2>1. PICK m : m = Min(FinalsAfter(p, i))
    OBVIOUS
  <2>2. m \in Nat /\ m >= i + 2 /\ m <= Len(p)
    BY <1>5, <2>1, FinalsMin
  <2> QED BY SMTT(30), <1>n, <1>1, <1>5, <2>1, <2>2
<1> QED BY <1>n, <1>1, <1>3, <1>4, <1>5

LEMMA SkipsEscape ==
  ASSUME NEW p \in Seq(Nat), NEW esc, NEW out, EscapeRun(p, esc, out), NEW i \in 1..Len(p),
         esc[i] = 0, p[i] = ESC
  PROVE  LET j == i + EscapeLength(p, i)
         IN  out[j] = out[i] /\ (esc[j] = 0 \/ j = Len(p) + 1)
<1> DEFINE n == Len(p)
           c == EscapeLength(p, i)
<1>n. n \in Nat /\ i \in Nat /\ i >= 1 /\ i <= n
  OBVIOUS
<1>1. esc[i + 1] = 1 /\ out[i + 1] = out[i] /\ out[i] \in Seq(Nat) /\ out[i] \o <<>> = out[i]
  <2>1. EscapeGoes(esc, out, i, ESC, i + 1)
    BY EscapeRunIs, Zenon
  <2>2. EscapeAfter(0, ESC) = 1 /\ Kept(0, ESC) = <<>>
    BY DEF EscapeAfter, NextEscape, Kept
  <2> QED BY <2>1, <2>2 DEF EscapeGoes
<1>2. CASE i = n
  <2>1. c = 1
    BY <1>n, <1>2 DEF EscapeLength
  <2> QED BY <1>n, <1>1, <1>2, <2>1
<1>3. CASE i < n
  <2>1. i + 1 \in 1..n /\ i + 1 + 1 = i + 2 /\ n - i + 1 > 1 /\ ~ (n - i + 1 = 1)
    BY <1>n, <1>3
  <2>2. PICK b : b = p[i + 1]
    OBVIOUS
  <2>3. EscapeGoes(esc, out, i + 1, b, i + 2)
    BY <2>1, <2>2, EscapeRunIs, Zenon
  <2>4. Kept(1, b) = <<>>
    BY DEF Kept
  <2>5. esc[i + 2] = EscapeAfter(1, b) /\ out[i + 2] = out[i]
    BY <1>1, <2>3, <2>4 DEF EscapeGoes
  <2>6. CASE b # Bracket
    <3>1. c = 2
      BY <2>1, <2>2, <2>6 DEF EscapeLength
    <3>2. esc[i + 2] = 0
      BY <2>5, <2>6 DEF EscapeAfter, NextEscape
    <3> QED BY <2>5, <3>1, <3>2
  <2>7. CASE b = Bracket
    <3>1. esc[i + 2] = 2
      BY <2>5, <2>7 DEF EscapeAfter, NextEscape
    <3>2. c = IF FinalsAfter(p, i) = {} THEN n - i + 1 ELSE Min(FinalsAfter(p, i)) + 1 - i
      BY <2>1, <2>2, <2>7 DEF EscapeLength
    <3>3. CASE FinalsAfter(p, i) = {}
      <4>1. i + c = n + 1
        BY <1>n, <3>2, <3>3
      <4>2. out[n + 1] = out[i]
        BY <1>n, <1>3, <2>5, <3>1, <3>3, EscapeUpTo
      <4> QED BY <4>1, <4>2
    <3>4. CASE FinalsAfter(p, i) # {}
      <4>1. PICK m : m = Min(FinalsAfter(p, i))
        OBVIOUS
      <4>2. /\ m \in Nat /\ m >= i + 2 /\ m <= n /\ p[m] \in Finals
            /\ \A e \in FinalsAfter(p, i) : m <= e
        BY <3>4, <4>1, FinalsMin
      <4>3. i + c = m + 1 /\ m \in 1..n
        BY <1>n, <3>2, <3>4, <4>1, <4>2
      <4>4. esc[m] = 2 /\ out[m] = out[i]
        <5>1. m \in Nat /\ i + 2 <= m /\ m <= n + 1
          BY <1>n, <4>2
        <5>2. \A e \in FinalsAfter(p, i) : m <= e
          BY <4>2
        <5> QED BY <1>n, <2>5, <3>1, <5>1, <5>2, EscapeUpTo
      <4>5. EscapeGoes(esc, out, m, p[m], m + 1)
        BY <4>3, EscapeRunIs, Zenon
      <4>6. EscapeAfter(2, p[m]) = 0 /\ Kept(2, p[m]) = <<>>
        BY <4>2 DEF EscapeAfter, NextEscape, Kept
      <4>7. esc[m + 1] = 0 /\ out[m + 1] = out[i]
        BY <4>4, <4>5, <4>6 DEF EscapeGoes
      <4> QED BY <4>3, <4>7
    <3> QED BY <3>3, <3>4
  <2> QED BY <2>6, <2>7
<1> QED BY <1>n, <1>2, <1>3

\* What the reader has kept are the keys.
LEMMA EscapesIs ==
  ASSUME NEW p \in Seq(Nat), NEW q, NEW k, Escapes(p, q, k)
  PROVE  KeysOf(p) = k
<1>1. PICK esc, out : EscapeRun(p, esc, out) /\ esc[Len(p) + 1] = q /\ out[Len(p) + 1] = k
  BY DEF Escapes
<1>2. PICK n : n = Len(p)
  OBVIOUS
<1>n. n \in Nat
  BY <1>2
<1> DEFINE piece == [i \in 1..n |-> KeyAt(p, i)]
           length == [i \in 1..n |-> KeyStep(p, i)]
           at == {i \in 1..n + 1 : esc[i] = 0}
<1>3. /\ esc \in [1..n + 1 -> 0..2] /\ out \in [1..n + 1 -> Seq(Nat)] /\ esc[1] = 0 /\ out[1] = <<>>
  BY <1>1, <1>2 DEF EscapeRun
<1>c. ASSUME NEW i \in 1..n
      PROVE  KeyStep(p, i) \in Nat /\ KeyStep(p, i) >= 1 /\ i + KeyStep(p, i) <= n + 1
  <2>1. CASE p[i] = ESC
    BY <1>2, <2>1, EscapeLengthIs DEF KeyStep
  <2>2. CASE p[i] # ESC
    BY <1>n, <2>2 DEF KeyStep
  <2> QED BY <2>1, <2>2
<1>4. ASSUME NEW i \in 1..n, esc[i] = 0 PROVE Follows(at, out, i, piece, length)
  <2>1. i \in Nat /\ i \in 1..Len(p) /\ i \in 1..n + 1
    BY <1>2
  <2>2. length[i] = KeyStep(p, i) /\ piece[i] = KeyAt(p, i) /\ Len(piece) = n
    BY <1>n, LenProperties
  <2> HIDE DEF piece, length
  <2>3. PICK c : c = KeyStep(p, i)
    OBVIOUS
  <2>4. c \in Nat /\ c >= 1 /\ i + c <= n + 1
    BY <1>c, <2>3
  <2>5. /\ out[i + c] = out[i] \o KeyAt(p, i)
        /\ esc[i + c] = 0 \/ i + c = n + 1
    <3>1. CASE p[i] = ESC
      <4>1. c = EscapeLength(p, i) /\ KeyAt(p, i) = <<>>
        BY <2>3, <3>1 DEF KeyStep, KeyAt
      <4>2. PICK k1 : k1 = EscapeLength(p, i)
        OBVIOUS
      <4>3. out[i + k1] = out[i] /\ (esc[i + k1] = 0 \/ i + k1 = Len(p) + 1)
        BY <1>1, <1>2, <1>4, <3>1, <4>2, SkipsEscape
      <4>4. out[i] \o <<>> = out[i]
        BY <1>3, <2>1
      <4> QED BY <1>2, <4>1, <4>2, <4>3, <4>4
    <3>2. CASE p[i] # ESC
      <4>1. c = 1
        BY <2>3, <3>2 DEF KeyStep
      <4>2. EscapeGoes(esc, out, i, p[i], i + 1)
        BY <1>1, <1>2, EscapeRunIs, Zenon
      <4>3. Kept(0, p[i]) = KeyAt(p, i) /\ EscapeAfter(0, p[i]) = 0
        BY <3>2 DEF Kept, KeyAt, EscapeAfter
      <4>4. out[i + 1] = out[i] \o KeyAt(p, i) /\ esc[i + 1] = 0
        BY <1>4, <4>2, <4>3 DEF EscapeGoes
      <4> QED BY <4>1, <4>4
    <3> QED BY <3>1, <3>2
  <2>6. i + c \in 1..n + 1
    BY <1>n, <2>1, <2>4
  <2>7. i + c \in at \/ i + c = Len(piece) + 1
    BY <2>2, <2>5, <2>6
  <2> HIDE DEF at
  <2> QED BY <2>2, <2>3, <2>5, <2>7 DEF Follows
<1>5. Cut(n, Nat, piece, length)
  <2>1. ASSUME NEW i \in 1..n PROVE KeyAt(p, i) \in Seq(Nat)
    <3>1. p[i] \in Nat
      BY <1>2
    <3>2. \A x \in Nat : <<x>> \in Seq(Nat)
      OBVIOUS
    <3> QED BY <3>1, <3>2 DEF KeyAt
  <2>2. piece \in [1..n -> Seq(Nat)]
    BY <2>1
  <2>3. length \in [1..n -> Nat] /\ \A i \in 1..n : length[i] >= 1 /\ i + length[i] <= n + 1
    BY <1>c
  <2> HIDE DEF piece, length
  <2> QED BY <1>n, <2>2, <2>3 DEF Cut
<1>6. KeysOf(p) = Joined(piece, length)
  BY <1>2 DEF KeysOf
<1>7. \A i \in 1..n : Follows(at, out, i, piece, length)
  <2> SUFFICES ASSUME NEW i \in 1..n PROVE Follows(at, out, i, piece, length)
    OBVIOUS
  <2>1. CASE i \in at
    BY <1>4, <2>1
  <2>2. CASE i \notin at
    BY <2>2 DEF Follows
  <2> QED BY <2>1, <2>2
<1>8. 1 \in at
  BY <1>n, <1>3
<1> HIDE DEF piece, length, at
<1>9. Reads(n, Nat, piece, length, at, out)
  BY <1>3, <1>5, <1>7, <1>8 DEF Reads
<1>10. Joined(piece, length) = out[n + 1]
  BY <1>9, JoinedBy
<1> QED BY <1>1, <1>2, <1>6, <1>10

(***************************************************************************)
(* The ends of lines and the corrections, with the rows of the screen as a *)
(* second run of the same kind.                                            *)
(***************************************************************************)
\* Two runs that begin alike and go on alike.
LEMMA SameRuns ==
  ASSUME NEW n \in Nat, NEW f, NEW h, f[0] = h[0],
         \A i \in 1..n : f[i - 1] = h[i - 1] => f[i] = h[i]
  PROVE  f[n] = h[n]
<1> DEFINE T == {i \in 0..n : f[i] = h[i]}
<1>1. T \in SUBSET (0..n) /\ 0 \in T
  OBVIOUS
<1>2. ASSUME NEW i \in T, i < n PROVE i + 1 \in T
  <2>1. i \in 0..n /\ f[i] = h[i]
    OBVIOUS
  <2>2. PICK j : j = i + 1
    OBVIOUS
  <2>3. j \in 1..n /\ j - 1 = i /\ j \in 0..n
    BY <1>2, <2>1, <2>2
  <2>4. f[j] = h[j]
    BY <2>1, <2>3
  <2> QED BY <2>2, <2>3, <2>4
<1>3. n \in T
  <2>1. n \in 0..n
    OBVIOUS
  <2> HIDE DEF T
  <2> QED BY <1>1, <1>2, <2>1, IntervalInduction
<1> QED BY <1>3

ReturnsRun(k, f) ==
  /\ f \in [1..Len(k) + 1 -> Seq(Nat)] /\ f[1] = <<>>
  /\ \A i \in 1..Len(k) : f[i + 1] = Taken(k, i, f[i])

WithReturns(k, r) == \E f : ReturnsRun(k, f) /\ f[Len(k) + 1] = r

LEMMA ReturnedEmpty == WithReturns(<<>>, <<>>)
<1> DEFINE f == [i \in 1..1 |-> <<>>]
<1>1. Len(<<>>) = 0
  OBVIOUS
<1>2. f \in [1..1 -> Seq(Nat)] /\ f[1] = <<>>
  OBVIOUS
<1> HIDE DEF f
<1>3. ReturnsRun(<<>>, f)
  BY <1>1, <1>2 DEF ReturnsRun
<1> QED BY <1>1, <1>2, <1>3 DEF WithReturns

\* The key that ends a line already ended, and any other.
AfterReturn(k, b) == k # <<>> /\ k[Len(k)] = CR /\ b \in {LF, NUL}
KeyOf(b) == IF b = LF THEN CR ELSE b

LEMMA ReturnedNext ==
  ASSUME NEW k \in Seq(Nat), NEW r \in Seq(Nat), WithReturns(k, r), NEW b \in Nat
  PROVE  WithReturns(Append(k, b), IF AfterReturn(k, b) THEN r ELSE Append(r, KeyOf(b)))
<1>1. PICK f : ReturnsRun(k, f) /\ f[Len(k) + 1] = r
  BY DEF WithReturns
<1>2. PICK n : n = Len(k)
  OBVIOUS
<1>3. PICK t : t = Append(k, b)
  OBVIOUS
<1>4. /\ n \in Nat /\ Len(t) = n + 1 /\ Len(t) + 1 = n + 2 /\ t[n + 1] = b
      /\ \A i \in 1..n : t[i] = k[i]
  BY <1>2, <1>3, AppendIs
<1>5. /\ f \in [1..n + 1 -> Seq(Nat)] /\ f[1] = <<>> /\ f[n + 1] = r
      /\ \A i \in 1..n : f[i + 1] = Taken(k, i, f[i])
  BY <1>1, <1>2 DEF ReturnsRun
<1>6. PICK x : x = IF AfterReturn(k, b) THEN r ELSE Append(r, KeyOf(b))
  OBVIOUS
<1>7. x \in Seq(Nat)
  BY <1>6 DEF KeyOf, CR
<1>8. PICK g : Extends(g, f, n, Seq(Nat), x)
  BY <1>4, <1>5, <1>7, Extended
<1>9. Taken(t, n + 1, r) = x
  <2>1. Second(t, n + 1) <=> AfterReturn(k, b)
    <3>1. CASE n = 0
      <4>1. k = <<>>
        BY <1>2, <3>1, EmptySeq
      <4> QED BY <3>1, <4>1 DEF Second, AfterReturn
    <3>2. CASE n # 0
      <4>1. n \in 1..n /\ n + 1 > 1 /\ n + 1 - 1 = n /\ k # <<>>
        BY <1>2, <1>4, <3>2
      <4>2. t[n] = k[n]
        BY <1>4, <4>1
      <4> QED BY <1>2, <1>4, <4>1, <4>2 DEF Second, AfterReturn
    <3> QED BY <3>1, <3>2
  <2> QED BY <1>4, <1>6, <2>1 DEF Taken, KeyOf
<1>10. ASSUME NEW i \in 1..n + 1 PROVE g[i + 1] = Taken(t, i, g[i])
  <2>1. CASE i = n + 1
    <3>1. i + 1 = n + 2 /\ g[i] = r
      BY <1>4, <1>5, <1>8, <2>1 DEF Extends
    <3>2. g[n + 2] = x
      BY <1>8 DEF Extends
    <3> QED BY <1>9, <2>1, <3>1, <3>2
  <2>2. CASE i # n + 1
    <3>1. i \in 1..n /\ i + 1 \in 1..n + 1
      BY <1>4, <2>2
    <3>2. g[i + 1] = f[i + 1] /\ g[i] = f[i] /\ t[i] = k[i]
      BY <1>4, <1>8, <3>1 DEF Extends
    <3>3. i > 1 => i - 1 \in 1..n
      BY <1>4, <3>1
    <3>4. i > 1 => t[i - 1] = k[i - 1]
      BY <1>4, <3>3
    <3>5. Second(t, i) <=> Second(k, i)
      BY <3>2, <3>4 DEF Second
    <3>6. Taken(t, i, f[i]) = Taken(k, i, f[i])
      BY <3>2, <3>5 DEF Taken
    <3> QED BY <1>5, <3>1, <3>2, <3>6
  <2> QED BY <2>1, <2>2
<1>11. 1 \in 1..n + 1 /\ g[1] = <<>>
  BY <1>4, <1>5, <1>8 DEF Extends
<1>12. ReturnsRun(t, g)
  BY <1>4, <1>8, <1>10, <1>11 DEF ReturnsRun, Extends
<1>13. WithReturns(t, x)
  BY <1>4, <1>8, <1>12 DEF WithReturns, Extends
<1> QED BY <1>3, <1>6, <1>13

LEMMA ReturnedIs ==
  ASSUME NEW k \in Seq(Nat), NEW r, WithReturns(k, r)
  PROVE  Returns(k) = r /\ r \in Seq(Nat)
<1>1. PICK f : ReturnsRun(k, f) /\ f[Len(k) + 1] = r
  BY DEF WithReturns
<1>2. PICK n : n = Len(k)
  OBVIOUS
<1>n. n \in Nat /\ n + 1 \in 1..n + 1
  BY <1>2
<1>3. /\ f \in [1..n + 1 -> Seq(Nat)] /\ f[1] = <<>> /\ f[n + 1] = r
      /\ \A i \in 1..n : f[i + 1] = Taken(k, i, f[i])
  BY <1>1, <1>2 DEF ReturnsRun
<1> DEFINE V == CHOOSE keys : keys = [m \in 0..Len(k) |->
                  IF m = 0 THEN <<>> ELSE Taken(k, m, keys[m - 1])]
           g == [m \in 0..n |-> f[m + 1]]
<1>4. Returns(k) = V[n]
  BY <1>2 DEF Returns
<1>5. g[0] = <<>> /\ g[n] = r
  BY <1>n, <1>3
<1>6. ASSUME NEW m \in 1..n PROVE g[m] = Taken(k, m, g[m - 1])
  <2>1. m \in 0..n /\ m - 1 \in 0..n /\ m - 1 + 1 = m
    BY <1>n
  <2>2. g[m] = f[m + 1] /\ g[m - 1] = f[m]
    BY <2>1
  <2> QED BY <1>3, <2>2
<1>7. g = [m \in 0..n |-> IF m = 0 THEN <<>> ELSE Taken(k, m, g[m - 1])]
  <2>1. ASSUME NEW m \in 0..n, m # 0 PROVE g[m] = Taken(k, m, g[m - 1])
    <3>1. m \in 1..n
      BY <1>n, <2>1
    <3> QED BY <1>6, <3>1
  <2>2. g = [m \in 0..n |-> g[m]]
    OBVIOUS
  <2> HIDE DEF g
  <2> QED BY <1>5, <2>1, <2>2
<1>8. V = [m \in 0..n |-> IF m = 0 THEN <<>> ELSE Taken(k, m, V[m - 1])]
  <2> HIDE DEF g
  <2> QED BY <1>2, <1>7
<1> HIDE DEF V, g
<1>9. V[0] = g[0]
  BY <1>n, <1>5, <1>8
<1>10. ASSUME NEW m \in 1..n, V[m - 1] = g[m - 1] PROVE V[m] = g[m]
  <2>1. m \in 0..n /\ m # 0
    BY <1>n
  <2>2. V[m] = Taken(k, m, V[m - 1])
    BY <1>8, <2>1
  <2> QED BY <1>6, <1>10, <2>2
<1>11. V[n] = g[n]
  BY <1>n, <1>9, <1>10, SameRuns
<1>12. r \in Seq(Nat)
  BY <1>n, <1>3
<1> QED BY <1>4, <1>5, <1>11, <1>12
RowsRun(echo, s, f) ==
  /\ f \in [1..Len(s) + 1 -> Seq(Seq(Nat))] /\ f[1] = << <<>> >>
  /\ \A i \in 1..Len(s) : f[i + 1] = RowsAfter(echo, f[i], s[i])

WithRows(echo, s, rows) == \E f : RowsRun(echo, s, f) /\ f[Len(s) + 1] = rows

LEMMA RowsEmpty == \A echo \in BOOLEAN : WithRows(echo, <<>>, << <<>> >>)
<1> SUFFICES ASSUME NEW echo \in BOOLEAN PROVE WithRows(echo, <<>>, << <<>> >>)
  OBVIOUS
<1> DEFINE f == [i \in 1..1 |-> << <<>> >>]
<1>1. Len(<<>>) = 0
  OBVIOUS
<1>2. << <<>> >> \in Seq(Seq(Nat))
  OBVIOUS
<1>3. f \in [1..1 -> Seq(Seq(Nat))] /\ f[1] = << <<>> >>
  BY <1>2
<1> HIDE DEF f
<1>4. RowsRun(echo, <<>>, f)
  BY <1>1, <1>3 DEF RowsRun
<1> QED BY <1>1, <1>3, <1>4 DEF WithRows

LEMMA RowsNext ==
  ASSUME NEW X, NEW s \in Seq(X), NEW echo, NEW rows, WithRows(echo, s, rows), NEW b \in X,
         NEW x \in Seq(Seq(Nat)), x = RowsAfter(echo, rows, b)
  PROVE  WithRows(echo, Append(s, b), x)
<1>1. PICK f : RowsRun(echo, s, f) /\ f[Len(s) + 1] = rows
  BY DEF WithRows
<1>2. PICK n : n = Len(s)
  OBVIOUS
<1>3. PICK t : t = Append(s, b)
  OBVIOUS
<1>4. /\ n \in Nat /\ Len(t) = n + 1 /\ Len(t) + 1 = n + 2 /\ t[n + 1] = b
      /\ \A i \in 1..n : t[i] = s[i]
  BY <1>2, <1>3, AppendIs
<1>5. /\ f \in [1..n + 1 -> Seq(Seq(Nat))] /\ f[1] = << <<>> >> /\ f[n + 1] = rows
      /\ \A i \in 1..n : f[i + 1] = RowsAfter(echo, f[i], s[i])
  BY <1>1, <1>2 DEF RowsRun
<1>6. PICK g : Extends(g, f, n, Seq(Seq(Nat)), x)
  BY <1>4, <1>5, Extended
<1>7. ASSUME NEW i \in 1..n + 1 PROVE g[i + 1] = RowsAfter(echo, g[i], t[i])
  <2>1. CASE i = n + 1
    <3>1. i + 1 = n + 2 /\ g[i] = rows
      BY <1>4, <1>5, <1>6, <2>1 DEF Extends
    <3>2. g[n + 2] = x
      BY <1>6 DEF Extends
    <3> QED BY <1>4, <2>1, <3>1, <3>2
  <2>2. CASE i # n + 1
    <3>1. i \in 1..n /\ i + 1 \in 1..n + 1
      BY <1>4, <2>2
    <3>2. g[i + 1] = f[i + 1] /\ g[i] = f[i] /\ t[i] = s[i]
      BY <1>4, <1>6, <3>1 DEF Extends
    <3> QED BY <1>5, <3>1, <3>2
  <2> QED BY <2>1, <2>2
<1>8. 1 \in 1..n + 1 /\ g[1] = << <<>> >>
  BY <1>4, <1>5, <1>6 DEF Extends
<1>9. RowsRun(echo, t, g)
  BY <1>4, <1>6, <1>7, <1>8 DEF RowsRun, Extends
<1>10. WithRows(echo, t, x)
  BY <1>4, <1>6, <1>9 DEF WithRows, Extends
<1> QED BY <1>3, <1>10

LEMMA RowsIs ==
  ASSUME NEW s, Len(s) \in Nat, NEW echo, NEW rows, WithRows(echo, s, rows)
  PROVE  RowsBy(echo, s) = rows
<1>1. PICK f : RowsRun(echo, s, f) /\ f[Len(s) + 1] = rows
  BY DEF WithRows
<1>2. PICK n : n = Len(s)
  OBVIOUS
<1>n. n \in Nat /\ n + 1 \in 1..n + 1
  BY <1>2
<1>3. f[1] = << <<>> >> /\ f[n + 1] = rows /\ \A i \in 1..n : f[i + 1] = RowsAfter(echo, f[i], s[i])
  BY <1>1, <1>2 DEF RowsRun
<1> DEFINE V == CHOOSE r : r = [m \in 0..Len(s) |->
                  IF m = 0 THEN << <<>> >> ELSE RowsAfter(echo, r[m - 1], s[m])]
           g == [m \in 0..n |-> f[m + 1]]
<1>4. RowsBy(echo, s) = V[n]
  BY <1>2 DEF RowsBy
<1>5. g[0] = << <<>> >> /\ g[n] = rows
  BY <1>n, <1>3
<1>6. ASSUME NEW m \in 1..n PROVE g[m] = RowsAfter(echo, g[m - 1], s[m])
  <2>1. m \in 0..n /\ m - 1 \in 0..n /\ m - 1 + 1 = m
    BY <1>n
  <2>2. g[m] = f[m + 1] /\ g[m - 1] = f[m]
    BY <2>1
  <2> QED BY <1>3, <2>2
<1>7. g = [m \in 0..n |-> IF m = 0 THEN << <<>> >> ELSE RowsAfter(echo, g[m - 1], s[m])]
  <2>1. ASSUME NEW m \in 0..n, m # 0 PROVE g[m] = RowsAfter(echo, g[m - 1], s[m])
    <3>1. m \in 1..n
      BY <1>n, <2>1
    <3> QED BY <1>6, <3>1
  <2>2. g = [m \in 0..n |-> g[m]]
    OBVIOUS
  <2> HIDE DEF g
  <2> QED BY <1>5, <2>1, <2>2
<1>8. V = [m \in 0..n |-> IF m = 0 THEN << <<>> >> ELSE RowsAfter(echo, V[m - 1], s[m])]
  <2> HIDE DEF g
  <2> QED BY <1>2, <1>7
<1> HIDE DEF V, g
<1>9. V[0] = g[0]
  BY <1>n, <1>5, <1>8
<1>10. ASSUME NEW m \in 1..n, V[m - 1] = g[m - 1] PROVE V[m] = g[m]
  <2>1. m \in 0..n /\ m # 0
    BY <1>n
  <2>2. V[m] = RowsAfter(echo, V[m - 1], s[m])
    BY <1>8, <2>1
  <2> QED BY <1>6, <1>10, <2>2
<1>11. V[n] = g[n]
  BY <1>n, <1>9, <1>10, SameRuns
<1> QED BY <1>4, <1>5, <1>11

\* The last row changes, or a new one begins.
LEMMA RowsAfterIs ==
  ASSUME NEW lines \in Seq(Seq(Nat)), NEW line \in Seq(Nat), NEW echo, NEW b
  PROVE  /\ b = CR => RowsAfter(echo, Append(lines, line), b) = Append(Append(lines, line), <<>>)
         /\ b # CR /\ Changed(echo, line, b) \in Seq(Nat) =>
              RowsAfter(echo, Append(lines, line), b) = Append(lines, Changed(echo, line, b))
<1>1. PICK rows : rows = Append(lines, line)
  OBVIOUS
<1>2. PICK n : n = Len(lines)
  OBVIOUS
<1>3. /\ n \in Nat /\ rows \in Seq(Seq(Nat)) /\ Len(rows) = n + 1 /\ rows[n + 1] = line
      /\ \A i \in 1..n : rows[i] = lines[i]
  BY <1>1, <1>2, AppendIs
<1>4. ASSUME b # CR, NEW x \in Seq(Nat), x = Changed(echo, line, b)
      PROVE  RowsAfter(echo, rows, b) = Append(lines, x)
  <2>1. RowsAfter(echo, rows, b) = [rows EXCEPT ![n + 1] = x]
    BY <1>3, <1>4 DEF RowsAfter
  <2>2. PICK t : t = [rows EXCEPT ![n + 1] = x]
    OBVIOUS
  <2>3. t \in Seq(Seq(Nat)) /\ Len(t) = n + 1 /\ t[n + 1] = x /\ \A i \in 1..n : t[i] = lines[i]
    BY <1>3, <2>2
  <2>4. PICK u : u = Append(lines, x)
    OBVIOUS
  <2>5. u \in Seq(Seq(Nat)) /\ Len(u) = n + 1 /\ u[n + 1] = x /\ \A i \in 1..n : u[i] = lines[i]
    BY <1>2, <2>4, AppendIs
  <2>6. ASSUME NEW i \in 1..n + 1 PROVE t[i] = u[i]
    <3>1. i = n + 1 \/ i \in 1..n
      BY <1>3
    <3> QED BY <2>3, <2>5, <3>1
  <2>7. t = u
    BY <2>3, <2>5, <2>6, SeqEqual
  <2> QED BY <2>1, <2>2, <2>4, <2>7
<1>5. b = CR => RowsAfter(echo, rows, b) = Append(rows, <<>>)
  BY DEF RowsAfter
<1> QED BY <1>1, <1>4, <1>5

(***************************************************************************)
(* What one key does to the line reader, with the lines that were finished *)
(* before it and the echo.                                                 *)
(***************************************************************************)
Terms == [iac : 0..4, escape : 0..2, lastCR : BOOLEAN, line : Seq(Nat)]

LEMMA TermIs ==
  ASSUME NEW t \in Terms
  PROVE  /\ t.iac \in 0..4 /\ t.escape \in 0..2 /\ t.lastCR \in BOOLEAN /\ t.line \in Seq(Nat)
         /\ Len(t.line) \in Nat
<1>1. t.line \in Seq(Nat)
  BY DEF Terms
<1> QED BY <1>1 DEF Terms

LEMMA IacSet ==
  ASSUME NEW t \in Terms, NEW q \in 0..4, NEW u, u = [t EXCEPT !.iac = q]
  PROVE  u \in Terms /\ u.iac = q /\ u.escape = t.escape /\ u.lastCR = t.lastCR /\ u.line = t.line
BY DEF Terms

LEMMA EscapeSet ==
  ASSUME NEW t \in Terms, NEW q \in 0..2, NEW u, u = [t EXCEPT !.escape = q]
  PROVE  u \in Terms /\ u.iac = t.iac /\ u.escape = q /\ u.lastCR = t.lastCR /\ u.line = t.line
BY DEF Terms

LEMMA ReturnSet ==
  ASSUME NEW t \in Terms, NEW q \in BOOLEAN, NEW u, u = [t EXCEPT !.lastCR = q]
  PROVE  u \in Terms /\ u.iac = t.iac /\ u.escape = t.escape /\ u.lastCR = q /\ u.line = t.line
BY DEF Terms

LEMMA LineSet ==
  ASSUME NEW t \in Terms, NEW q \in Seq(Nat), NEW u, u = [t EXCEPT !.line = q]
  PROVE  u \in Terms /\ u.iac = t.iac /\ u.escape = t.escape /\ u.lastCR = t.lastCR /\ u.line = q
BY DEF Terms

Ascii(s) == \A i \in 1..Len(s) : s[i] < 128

LEMMA AsciiAppend ==
  ASSUME NEW s \in Seq(Nat), NEW b \in Nat
  PROVE  Ascii(Append(s, b)) <=> Ascii(s) /\ b < 128
<1>1. PICK t : t = Append(s, b)
  OBVIOUS
<1>2. PICK n : n = Len(s)
  OBVIOUS
<1>3. n \in Nat /\ Len(t) = n + 1 /\ t[n + 1] = b /\ \A i \in 1..n : t[i] = s[i]
  BY <1>1, <1>2, AppendIs
<1>4. ASSUME Ascii(t) PROVE Ascii(s) /\ b < 128
  <2>1. n + 1 \in 1..n + 1 /\ \A i \in 1..n : i \in 1..n + 1
    BY <1>3
  <2> QED BY <1>2, <1>3, <1>4, <2>1 DEF Ascii
<1>5. ASSUME Ascii(s), b < 128 PROVE Ascii(t)
  <2>1. \A i \in 1..n + 1 : i = n + 1 \/ i \in 1..n
    BY <1>3
  <2> QED BY <1>2, <1>3, <1>5, <2>1 DEF Ascii
<1> QED BY <1>1, <1>4, <1>5

(***************************************************************************)
(* The last rune of a row.  The reader looks for it backwards from the end *)
(* of the row, Keystrokes forwards from its beginning.  Both find the same *)
(* one, since the first byte of a rune is none of the later bytes of a     *)
(* rune: two runes in a row do not overlap.                                *)
(***************************************************************************)
RuneFrom(row, i, j) == i \in 1..Len(row) /\ j \in i + 1..Len(row) /\ IsRune(SubSeq(row, i, j))

LEMMA RuneFromIs ==
  ASSUME NEW row \in Seq(Nat), NEW i, NEW j, RuneFrom(row, i, j)
  PROVE  /\ i \in Nat /\ j \in Nat /\ i >= 1 /\ i < j /\ j <= Len(row) /\ Len(row) \in Nat
         /\ j - i + 1 \in 2..4 /\ row[i] \in Leads(j - i + 1) /\ row[i] \in 194..244
         /\ \A p \in i + 1..j : row[p] \in Continues
<1>n. Len(row) \in Nat
  OBVIOUS
<1>1. /\ i \in Nat /\ j \in Nat /\ i >= 1 /\ i < j /\ j <= Len(row)
      /\ IsRune(SubSeq(row, i, j))
  BY <1>n DEF RuneFrom
<1>2. PICK s : s = SubSeq(row, i, j)
  OBVIOUS
<1>3. Len(s) = j - i + 1 /\ \A q \in 1..j - i + 1 : s[q] = row[q + i - 1]
  BY <1>n, <1>1, <1>2
<1>4. /\ Len(s) \in 2..4 /\ s[1] \in Leads(Len(s)) /\ s[2] \in Seconds(s[1])
      /\ \A q \in 3..Len(s) : s[q] \in Continues
  BY <1>1, <1>2 DEF IsRune
<1>5. s[1] = row[i] /\ s[1] \in Nat
  BY <1>n, <1>1, <1>3
<1>6. s[1] \in 194..244
  BY <1>4 DEF Leads
<1>7. s[2] \in Continues
  <2>1. PICK x : x = s[1]
    OBVIOUS
  <2>2. PICK y : y = s[2]
    OBVIOUS
  <2>3. y \in Seconds(x)
    BY <1>4, <2>1, <2>2
  <2>4. y \in Continues
    <3>1. CASE x \in {224, 237, 240, 244}
      BY <2>3, <3>1 DEF Seconds, Continues
    <3>2. CASE x \notin {224, 237, 240, 244}
      BY <2>3, <3>2 DEF Seconds
    <3> QED BY <3>1, <3>2
  <2> QED BY <2>2, <2>4
<1>8. ASSUME NEW p \in i + 1..j PROVE row[p] \in Continues
  <2>1. PICK q : q = p - i + 1
    OBVIOUS
  <2>2. q \in 2..Len(s) /\ q + i - 1 = p /\ q \in 1..j - i + 1
    BY <1>1, <1>3, <2>1
  <2>3. s[q] = row[p]
    BY <1>3, <2>2
  <2>4. q = 2 \/ q \in 3..Len(s)
    BY <2>2
  <2> QED BY <1>4, <1>7, <2>3, <2>4
<1> QED BY <1>n, <1>1, <1>3, <1>4, <1>5, <1>6, <1>8

\* Two runes are the same one or apart.
LEMMA RunesApart ==
  ASSUME NEW row \in Seq(Nat), NEW i, NEW j, RuneFrom(row, i, j),
         NEW p, NEW q, RuneFrom(row, p, q), i <= p, p <= j
  PROVE  i = p /\ j = q
<1>1. /\ i \in Nat /\ j \in Nat /\ i < j /\ j - i + 1 \in 2..4 /\ row[i] \in Leads(j - i + 1)
      /\ \A m \in i + 1..j : row[m] \in Continues
  BY RuneFromIs
<1>2. /\ p \in Nat /\ q \in Nat /\ p < q /\ q - p + 1 \in 2..4 /\ row[p] \in Leads(q - p + 1)
      /\ row[p] \in 194..244
  BY RuneFromIs
<1>3. i = p
  <2> SUFFICES ASSUME i # p PROVE FALSE
    OBVIOUS
  <2>1. p \in i + 1..j
    BY <1>1, <1>2
  <2>2. PICK v : v = row[p]
    OBVIOUS
  <2>3. v \in Continues
    BY <1>1, <2>1, <2>2
  <2>4. v \in 194..244
    BY <1>2, <2>2
  <2> QED BY <2>3, <2>4 DEF Continues
<1>4. PICK x : x = row[i]
  OBVIOUS
<1>5. x \in Leads(j - i + 1) /\ x \in Leads(q - i + 1)
  BY <1>1, <1>2, <1>3, <1>4
<1>6. j - i + 1 = q - i + 1
  <2>1. ASSUME NEW k \in 2..4, NEW m \in 2..4, x \in Leads(k), x \in Leads(m) PROVE k = m
    <3>1. k = 2 => x \in 194..223
      BY <2>1 DEF Leads
    <3>2. k = 3 => x \in 224..239
      BY <2>1 DEF Leads
    <3>3. k = 4 => x \in 240..244
      BY <2>1 DEF Leads
    <3>4. m = 2 => x \in 194..223
      BY <2>1 DEF Leads
    <3>5. m = 3 => x \in 224..239
      BY <2>1 DEF Leads
    <3>6. m = 4 => x \in 240..244
      BY <2>1 DEF Leads
    <3>7. ~ (x \in 194..223 /\ x \in 224..239)
      <4> SUFFICES ASSUME x \in 194..223, x \in 224..239 PROVE FALSE
        OBVIOUS
      <4> QED OBVIOUS
    <3>8. ~ (x \in 194..223 /\ x \in 240..244)
      <4> SUFFICES ASSUME x \in 194..223, x \in 240..244 PROVE FALSE
        OBVIOUS
      <4> QED OBVIOUS
    <3>9. ~ (x \in 224..239 /\ x \in 240..244)
      <4> SUFFICES ASSUME x \in 224..239, x \in 240..244 PROVE FALSE
        OBVIOUS
      <4> QED OBVIOUS
    <3>10. (k = 2 \/ k = 3 \/ k = 4) /\ (m = 2 \/ m = 3 \/ m = 4)
      OBVIOUS
    <3> QED BY <3>1, <3>2, <3>3, <3>4, <3>5, <3>6, <3>7, <3>8, <3>9, <3>10
  <2> QED BY <1>1, <1>2, <1>3, <1>5, <2>1
<1> QED BY <1>1, <1>2, <1>3, <1>6

\* How long the rune at row[i] is, and the rune that ends the row.
RuneOf(row, i, k) ==
  /\ k \in 1..4 /\ i + k - 1 <= Len(row)
  /\ k = 1 \/ RuneFrom(row, i, i + k - 1)
  /\ \A j \in Nat : RuneFrom(row, i, j) => j = i + k - 1

LEMMA RuneLengthIs ==
  ASSUME NEW row \in Seq(Nat), NEW i \in 1..Len(row)
  PROVE  RuneOf(row, i, RuneLength(row, i))
<1>n. Len(row) \in Nat /\ i \in Nat
  OBVIOUS
<1> DEFINE Sizes == {k \in 2..4 : i + k - 1 <= Len(row) /\ IsRune(SubSeq(row, i, i + k - 1))}
<1>1. PICK k : k = RuneLength(row, i)
  OBVIOUS
<1>2. k = IF Sizes = {} THEN 1 ELSE CHOOSE m \in Sizes : TRUE
  BY <1>1 DEF RuneLength
<1>3. ASSUME NEW m \in Sizes PROVE m \in 2..4 /\ i + m - 1 <= Len(row) /\ RuneFrom(row, i, i + m - 1)
  BY <1>n, <1>3 DEF RuneFrom
<1>4. ASSUME NEW j \in Nat, RuneFrom(row, i, j) PROVE j - i + 1 \in Sizes
  <2>0. j - i + 1 \in 2..4 /\ j <= Len(row)
    BY <1>4, RuneFromIs
  <2>1. j - i + 1 \in 2..4 /\ i + (j - i + 1) - 1 = j /\ j <= Len(row)
    BY <1>n, <2>0
  <2>2. IsRune(SubSeq(row, i, j))
    BY <1>4 DEF RuneFrom
  <2> QED BY <2>1, <2>2
<1>5. CASE Sizes = {}
  <2>1. k = 1
    BY <1>2, <1>5
  <2>2. \A j \in Nat : ~ RuneFrom(row, i, j)
    BY <1>4, <1>5
  <2>3. i + k - 1 <= Len(row) /\ k \in 1..4
    BY <1>n, <2>1
  <2> QED BY <1>1, <2>1, <2>2, <2>3 DEF RuneOf
<1>6. CASE Sizes # {}
  <2>1. k \in Sizes
    BY <1>2, <1>6
  <2>2. k \in 2..4 /\ i + k - 1 <= Len(row) /\ RuneFrom(row, i, i + k - 1)
    BY <1>3, <2>1
  <2>3. ASSUME NEW j \in Nat, RuneFrom(row, i, j) PROVE j = i + k - 1
    <3>1. i <= i /\ i <= j
      BY <1>n, <2>3, RuneFromIs
    <3> QED BY <2>2, <2>3, <3>1, RunesApart
  <2> QED BY <1>1, <2>2, <2>3 DEF RuneOf
<1> QED BY <1>5, <1>6

EndsWith(row, k) ==
  /\ k \in 1..4 /\ k <= Len(row)
  /\ k = 1 \/ RuneFrom(row, Len(row) - k + 1, Len(row))
  /\ \A i \in Nat : RuneFrom(row, i, Len(row)) => i = Len(row) - k + 1

LEMMA RuneSizeIs ==
  ASSUME NEW row \in Seq(Nat), row # <<>>
  PROVE  EndsWith(row, RuneSize(row))
<1>1. PICK n : n = Len(row)
  OBVIOUS
<1>2. n \in Nat /\ n >= 1
  BY <1>1, EmptySeq
<1> DEFINE Sizes == {k \in 2..4 : k <= n /\ IsRune(SubSeq(row, n - k + 1, n))}
<1>3. PICK k : k = RuneSize(row)
  OBVIOUS
<1>4. k = IF Sizes = {} THEN 1 ELSE CHOOSE m \in Sizes : TRUE
  BY <1>1, <1>3 DEF RuneSize
<1>5. ASSUME NEW m \in Sizes PROVE m \in 2..4 /\ m <= n /\ RuneFrom(row, n - m + 1, n)
  BY <1>1, <1>2, <1>5 DEF RuneFrom
<1>6. ASSUME NEW i \in Nat, RuneFrom(row, i, n) PROVE n - i + 1 \in Sizes
  <2>0. n - i + 1 \in 2..4 /\ i >= 1
    BY <1>6, RuneFromIs
  <2>1. n - i + 1 \in 2..4 /\ n - (n - i + 1) + 1 = i /\ i >= 1
    BY <1>2, <2>0
  <2>2. IsRune(SubSeq(row, i, n))
    BY <1>6 DEF RuneFrom
  <2>3. n - i + 1 <= n
    BY <1>2, <2>1
  <2> QED BY <2>1, <2>2, <2>3
<1>7. CASE Sizes = {}
  <2>1. k = 1
    BY <1>4, <1>7
  <2>2. \A i \in Nat : ~ RuneFrom(row, i, n)
    BY <1>6, <1>7
  <2> QED BY <1>1, <1>2, <1>3, <2>1, <2>2 DEF EndsWith
<1>8. CASE Sizes # {}
  <2>1. k \in Sizes
    BY <1>4, <1>8
  <2>2. k \in 2..4 /\ k <= n /\ RuneFrom(row, n - k + 1, n)
    BY <1>5, <2>1
  <2>3. ASSUME NEW i \in Nat, RuneFrom(row, i, n) PROVE i = n - k + 1
    <3>1. i <= n /\ n - k + 1 \in Nat /\ n - k + 1 <= n
      BY <1>2, <2>2, <2>3, RuneFromIs
    <3>2. i <= n - k + 1 \/ n - k + 1 <= i
      BY <3>1
    <3> QED BY <2>2, <2>3, <3>1, <3>2, RunesApart
  <2> QED BY <1>1, <1>3, <2>2, <2>3 DEF EndsWith
<1> QED BY <1>7, <1>8

\* No rune of the row reaches into its last one.
LEMMA BeforeLast ==
  ASSUME NEW row \in Seq(Nat), NEW k, EndsWith(row, k), NEW i \in Nat, i >= 1, i < Len(row) - k + 1,
         NEW d, RuneOf(row, i, d)
  PROVE  i + d <= Len(row) - k + 1
<1>1. PICK n : n = Len(row)
  OBVIOUS
<1>2. n \in Nat /\ k \in 1..4 /\ k <= n /\ d \in 1..4 /\ i + d - 1 <= n
  BY <1>1 DEF EndsWith, RuneOf
<1> SUFFICES ASSUME i + d > n - k + 1 PROVE FALSE
  BY <1>1, <1>2
<1>3. d # 1
  BY <1>1, <1>2
<1>4. RuneFrom(row, i, i + d - 1) /\ i + d - 1 \in Nat
  BY <1>2, <1>3 DEF RuneOf
<1>5. CASE k = 1
  <2>1. i + d - 1 = n
    BY <1>2, <1>5
  <2>2. i = n - k + 1
    BY <1>1, <1>4, <2>1 DEF EndsWith
  <2> QED BY <1>1, <1>2, <2>2
<1>6. CASE k # 1
  <2>1. RuneFrom(row, n - k + 1, n)
    BY <1>1, <1>6 DEF EndsWith
  <2>2. i <= n - k + 1 /\ n - k + 1 <= i + d - 1
    BY <1>1, <1>2
  <2>3. i = n - k + 1
    BY <1>4, <2>1, <2>2, RunesApart
  <2> QED BY <1>1, <1>2, <2>3
<1> QED BY <1>5, <1>6

LEMMA TwoPieces ==
  ASSUME NEW row \in Seq(Nat), NEW i \in Nat, NEW j \in Nat, NEW l \in Nat,
         i >= 1, i < j, j <= l + 1, l <= Len(row)
  PROVE  SubSeq(row, i, j - 1) \o SubSeq(row, j, l) = SubSeq(row, i, l)
<1>1. PICK k : k = j - 1
  OBVIOUS
<1>2. i \in 1..Len(row) + 1 /\ k \in i - 1..Len(row) /\ l \in k..Len(row) /\ k + 1 = j
  BY <1>1
<1>3. SubSeq(row, i, k) \o SubSeq(row, k + 1, l) = SubSeq(row, i, l)
  BY <1>2, ConcatAdjacentSubSeq
<1> QED BY <1>1, <1>2, <1>3, Zenon

LEMMA LastIs ==
  ASSUME NEW row \in Seq(Nat), row # <<>>
  PROVE  WithoutLast(row) = Erased(row)
<1>1. PICK n : n = Len(row)
  OBVIOUS
<1>2. n \in Nat /\ n >= 1
  BY <1>1, EmptySeq
<1>3. PICK k : k = RuneSize(row)
  OBVIOUS
<1>4. EndsWith(row, k) /\ k \in 1..4 /\ k <= n
  BY <1>1, <1>3, RuneSizeIs DEF EndsWith
<1>5. PICK last : last = n - k + 1
  OBVIOUS
<1>6. last \in 1..n
  BY <1>2, <1>4, <1>5
<1> DEFINE length == [i \in 1..n |-> RuneLength(row, i)]
           piece == [i \in 1..n |-> RuneAt(row, i)]
<1>7. ASSUME NEW i \in 1..n PROVE RuneOf(row, i, length[i]) /\ length[i] \in 1..4 /\ i + length[i] <= n + 1
  <2>1. RuneOf(row, i, length[i])
    BY <1>1, <1>7, RuneLengthIs
  <2> HIDE DEF length
  <2>2. length[i] \in 1..4 /\ i + length[i] - 1 <= n
    BY <1>1, <2>1 DEF RuneOf
  <2> QED BY <1>2, <2>1, <2>2
<1>8. ASSUME NEW i \in 1..n
      PROVE  /\ piece[i] \in Seq(Nat)
             /\ piece[i] = IF i + length[i] = n + 1 THEN <<>> ELSE SubSeq(row, i, i + length[i] - 1)
  <2>1. piece[i] = IF i + length[i] = n + 1 THEN <<>> ELSE SubSeq(row, i, i + length[i] - 1)
    <3>1. piece[i] = RuneAt(row, i) /\ length[i] = RuneLength(row, i)
      OBVIOUS
    <3> HIDE DEF piece, length
    <3>2. RuneAt(row, i) = IF i + RuneLength(row, i) = Len(row) + 1 THEN <<>>
                           ELSE SubSeq(row, i, i + RuneLength(row, i) - 1)
      BY DEF RuneAt
    <3> QED BY <1>1, <3>1, <3>2, Zenon
  <2> HIDE DEF piece, length
  <2>2. length[i] \in 1..4 /\ i + length[i] <= n + 1
    BY <1>7
  <2>3. SubSeq(row, i, i + length[i] - 1) \in Seq(Nat)
    BY SMTT(30), <1>1, <1>2, <2>2
  <2> QED BY <2>1, <2>3
<1>9. Cut(n, Nat, piece, length)
  <2>1. piece \in [1..n -> Seq(Nat)]
    BY <1>8
  <2>2. length \in [1..n -> Nat]
    BY <1>7
  <2> HIDE DEF piece, length
  <2>3. \A i \in 1..n : length[i] >= 1 /\ i + length[i] <= n + 1
    BY <1>7
  <2> QED BY <1>2, <2>1, <2>2, <2>3 DEF Cut
<1>10. WithoutLast(row) = Joined(piece, length)
  BY <1>1 DEF WithoutLast
<1> HIDE DEF piece, length
<1>11. PICK f \in [1..n + 1 -> Seq(Nat)] : FromOn(f, n, piece, length, n)
  BY <1>9, JoinedExists
<1>f. /\ f[n + 1] = <<>>
      /\ \A i \in 1..n : f[i] = piece[i] \o f[i + length[i]]
  <2>1. \A i \in 1..n : i >= n + 1 - n
    BY <1>2
  <2> QED BY <1>11, <2>1 DEF FromOn
<1>12. f[last] = <<>>
  <2>1. last + length[last] = n + 1
    <3>1. RuneOf(row, last, length[last]) /\ length[last] \in 1..4 /\ last + length[last] <= n + 1
      BY <1>6, <1>7
    <3>2. CASE k = 1
      BY <1>2, <1>5, <3>1, <3>2
    <3>3. CASE k # 1
      <4>1. RuneFrom(row, last, n)
        BY <1>1, <1>4, <1>5, <3>3 DEF EndsWith
      <4>2. n = last + length[last] - 1
        BY <1>2, <3>1, <4>1 DEF RuneOf
      <4> QED BY <1>2, <1>6, <3>1, <4>2
    <3> QED BY <3>2, <3>3
  <2>2. piece[last] = <<>>
    BY <1>6, <1>8, <2>1
  <2>3. f[last] = piece[last] \o f[last + length[last]]
    BY <1>6, <1>f
  <2>4. f[last] = <<>> \o <<>>
    BY <1>f, <2>1, <2>2, <2>3
  <2> QED BY <2>4
<1>l. last \in Nat /\ last >= 1 /\ last <= n
  BY <1>2, <1>6
<1> DEFINE Here(i) == f[i] = SubSeq(row, i, n - k)
           Holds(m) == \A i \in 1..last : i >= last - m => Here(i)
           T == {m \in 0..last : Holds(m)}
<1>13. Holds(0)
  <2>1. SubSeq(row, last, n - k) = <<>>
    BY <1>1, <1>2, <1>4, <1>5, <1>6
  <2>2. \A i \in 1..last : i >= last - 0 => i = last
    BY <1>6
  <2> QED BY <1>12, <2>1, <2>2
<1>14. ASSUME NEW m \in 0..last, Holds(m), m < last PROVE Holds(m + 1)
  <2>1. ASSUME NEW i \in 1..last, i >= last - (m + 1), ~ (i >= last - m) PROVE Here(i)
    <3>1. i = last - (m + 1) /\ i < last /\ i \in 1..n /\ i \in Nat /\ i >= 1
      BY <1>2, <1>l, <1>14, <2>1
    <3>2. PICK j : j = i + length[i]
      OBVIOUS
    <3>3. RuneOf(row, i, length[i]) /\ length[i] \in 1..4
      BY <1>7, <3>1
    <3>4. i + length[i] <= last
      BY <1>1, <1>4, <1>5, <3>1, <3>3, BeforeLast
    <3>5. j \in 1..last /\ j > i /\ j >= last - m /\ j \in Nat /\ j <= n
      <4>1. PICK d \in 1..4 : d = length[i]
        BY <3>3
      <4>2. j = i + d /\ i + d <= last
        BY <3>2, <3>4, <4>1
      <4> QED BY <1>2, <1>l, <1>14, <3>1, <4>2
    <3>6. f[j] = SubSeq(row, j, n - k)
      BY <1>14, <3>5
    <3>7. piece[i] = SubSeq(row, i, j - 1)
      <4>1. i + length[i] # n + 1
        BY <1>2, <3>2, <3>5
      <4>2. piece[i] = SubSeq(row, i, i + length[i] - 1)
        BY <1>8, <3>1, <4>1, Zenon
      <4>3. i + length[i] - 1 = j - 1
        BY <3>1, <3>2, <3>3
      <4> QED BY <4>2, <4>3, Zenon
    <3>8. f[i] = SubSeq(row, i, j - 1) \o SubSeq(row, j, n - k)
      BY <1>f, <3>1, <3>2, <3>6, <3>7
    <3>9. n - k \in Nat /\ j <= (n - k) + 1 /\ n - k <= n /\ i < j
      BY <1>2, <1>4, <1>5, <3>5
    <3> QED BY <1>1, <3>1, <3>5, <3>8, <3>9, TwoPieces
  <2> QED BY <1>14, <2>1
<1>15. T = 0..last
  <2> HIDE DEF Holds
  <2>1. T \in SUBSET (0..last) /\ 0 \in T
    BY <1>6, <1>13
  <2>2. \A m \in T : m < last => m + 1 \in T
    BY <1>6, <1>14
  <2>3. last \in Nat
    BY <1>6
  <2> HIDE DEF T
  <2> QED BY <2>1, <2>2, <2>3, IntervalInduction
<1>16. f[1] = SubSeq(row, 1, n - k)
  <2>1. last \in T
    <3> HIDE DEF T
    <3> QED BY <1>l, <1>15
  <2>2. 1 \in 1..last /\ 1 >= last - last
    BY <1>6
  <2> QED BY <2>1, <2>2
<1>17. Joined(piece, length) = f[1]
  BY <1>9, <1>11, JoinedIs
<1> QED BY <1>1, <1>3, <1>10, <1>16, <1>17 DEF Erased

LEMMA NoneLast == WithoutLast(<<>>) = <<>>
<1> DEFINE piece == [i \in 1..0 |-> RuneAt(<<>>, i)]
           length == [i \in 1..0 |-> RuneLength(<<>>, i)]
<1>1. WithoutLast(<<>>) = Joined(piece, length)
  BY DEF WithoutLast
<1>2. Cut(0, Nat, piece, length)
  BY DEF Cut
<1> HIDE DEF piece, length
<1>3. PICK f \in [1..0 + 1 -> Seq(Nat)] : FromOn(f, 0, piece, length, 0)
  BY <1>2, JoinedExists
<1>4. f[1] = <<>>
  BY <1>3 DEF FromOn
<1>5. Joined(piece, length) = f[1]
  BY <1>2, <1>3, JoinedIs
<1> QED BY <1>1, <1>4, <1>5

\* A correction leaves less of a line.
LEMMA ErasedIs ==
  ASSUME NEW line \in Seq(Nat), line # <<>>
  PROVE  /\ Erased(line) \in Seq(Nat) /\ Len(Erased(line)) <= Len(line)
         /\ Ascii(line) => Erased(line) = Front(line) /\ Ascii(Erased(line))
<1>1. PICK n : n = Len(line)
  OBVIOUS
<1>2. n \in Nat /\ n >= 1
  BY <1>1, EmptySeq
<1>3. PICK d : d = RuneSize(line)
  OBVIOUS
<1>4. d \in 1..4 /\ d <= n /\ (d # 1 => RuneFrom(line, n - d + 1, n))
  BY <1>1, <1>3, RuneSizeIs DEF EndsWith
<1>5. n - d \in 0..n
  BY <1>2, <1>4
<1>6. PICK e : e = Erased(line)
  OBVIOUS
<1>7. e = SubSeq(line, 1, n - d)
  BY <1>1, <1>3, <1>6 DEF Erased
<1>8. e \in Seq(Nat) /\ Len(e) = n - d /\ \A i \in 1..n - d : e[i] = line[i]
  BY <1>1, <1>2, <1>5, <1>7
<1>9. ASSUME Ascii(line) PROVE e = Front(line) /\ Ascii(e)
  <2>1. d = 1
    <3> SUFFICES ASSUME d # 1 PROVE FALSE
      OBVIOUS
    <3>1. n - d + 1 \in 1..n
      BY <1>2, <1>4
    <3>2. PICK v : v = line[n - d + 1]
      OBVIOUS
    <3>3. v < 128
      BY <1>1, <1>9, <3>1, <3>2 DEF Ascii
    <3>4. v \in 194..244
      BY <1>4, <3>2, RuneFromIs
    <3> QED BY <3>3, <3>4
  <2>2. e = Front(line)
    BY <1>1, <1>7, <2>1 DEF Front
  <2>3. \A i \in 1..n - d : i \in 1..n
    BY <1>2, <1>4
  <2> QED BY <1>1, <1>8, <1>9, <2>2, <2>3 DEF Ascii
<1> QED BY <1>1, <1>2, <1>4, <1>6, <1>8, <1>9

\* The lines of the keys k are lines and t.line; r are the keys with their ends of
\* lines told.
Typed(k, t, lines, r) ==
  /\ k \in Seq(Nat) /\ t \in Terms /\ lines \in Seq(Seq(Nat)) /\ r \in Seq(Nat)
  /\ Len(t.line) <= LineMax
  /\ t.lastCR <=> k # <<>> /\ k[Len(k)] = CR
  /\ WithReturns(k, r) /\ WithRows(FALSE, r, Append(lines, t.line))

\* What a client sees of them.
Seen(k, line, lines, echoed) ==
  /\ echoed \in Seq(Nat)
  /\ Ascii(k) => Ascii(line) /\ WithRows(TRUE, echoed, Append(lines, line))

\* What the service has of them after a byte.
LinesAfter(res, lines) == IF res.end = "line" THEN Append(lines, res.term.line) ELSE lines
TermAfter(res) == IF res.end = "line" THEN [res.term EXCEPT !.line = <<>>] ELSE res.term

\* A key that changes the line.
LEMMA LineChanges ==
  ASSUME NEW r \in Seq(Nat), NEW lines \in Seq(Seq(Nat)), NEW line \in Seq(Nat), NEW echo \in BOOLEAN,
         WithRows(echo, r, Append(lines, line)), NEW b \in Nat, b # CR,
         NEW x \in Seq(Nat), x = Changed(echo, line, b)
  PROVE  WithRows(echo, Append(r, b), Append(lines, x))
<1>1. PICK rows : rows = Append(lines, line)
  OBVIOUS
<1>2. PICK y : y = Append(lines, x)
  OBVIOUS
<1>3. y = RowsAfter(echo, rows, b) /\ y \in Seq(Seq(Nat))
  BY <1>1, <1>2, RowsAfterIs
<1> QED BY <1>1, <1>2, <1>3, RowsNext

\* A key that ends it.
LEMMA LineEnds ==
  ASSUME NEW r \in Seq(Nat), NEW lines \in Seq(Seq(Nat)), NEW line \in Seq(Nat), NEW echo \in BOOLEAN,
         WithRows(echo, r, Append(lines, line))
  PROVE  WithRows(echo, Append(r, CR), Append(Append(lines, line), <<>>))
<1>1. PICK rows : rows = Append(lines, line)
  OBVIOUS
<1>2. PICK y : y = Append(rows, <<>>)
  OBVIOUS
<1>3. y = RowsAfter(echo, rows, CR) /\ y \in Seq(Seq(Nat)) /\ CR \in Nat
  <2>1. <<>> \in Seq(Nat)
    OBVIOUS
  <2> QED BY <1>1, <1>2, <2>1, RowsAfterIs DEF CR
<1> QED BY <1>1, <1>2, <1>3, RowsNext

LEMMA LastAppended ==
  ASSUME NEW k \in Seq(Nat), NEW b \in Nat
  PROVE  /\ Append(k, b) \in Seq(Nat) /\ Append(k, b) # <<>>
         /\ Append(k, b)[Len(Append(k, b))] = b
BY AppendIs, EmptySeq

\* A key b after the keys k is read as res says: the lines go on, or the line is
\* too long; and so does what a client sees.
KeyRead(k, b, t, lines, res) ==
  /\ res.end \in {"none", "line", "long"}
  /\ res.term \in Terms /\ res.term.iac = t.iac /\ res.term.escape = t.escape
  /\ res.end # "long" => \E r : Typed(Append(k, b), TermAfter(res), LinesAfter(res, lines), r)
  /\ res.end = "long" => \E r \in Seq(Nat), x \in Seq(Nat) :
       WithReturns(Append(k, b), r) /\ WithRows(FALSE, r, Append(lines, x)) /\ Len(x) = LineMax + 1

KeySeen(k, b, t, lines, res, echoed) ==
  res.end # "long" => Seen(Append(k, b), TermAfter(res).line, LinesAfter(res, lines), echoed \o res.echo)

LEMMA ResultIs ==
  ASSUME NEW t, NEW end, NEW echo
  PROVE  Result(t, end, echo).term = t /\ Result(t, end, echo).end = end /\ Result(t, end, echo).echo = echo
BY DEF Result

\* What is the same in all cases but the ends of a line.
LEMMA KeyKept ==
  ASSUME NEW k, NEW t, NEW lines, NEW r, Typed(k, t, lines, r), NEW b \in Nat,
         NEW u \in Terms, u.iac = t.iac, u.escape = t.escape, ~ u.lastCR, b # CR,
         NEW r2 \in Seq(Nat), WithReturns(Append(k, b), r2), WithRows(FALSE, r2, Append(lines, u.line)),
         Len(u.line) <= LineMax, NEW res, NEW echo, res = Result(u, "none", echo)
  PROVE  KeyRead(k, b, t, lines, res)
<1>1. k \in Seq(Nat) /\ lines \in Seq(Seq(Nat))
  BY DEF Typed
<1>2. PICK k2 : k2 = Append(k, b)
  OBVIOUS
<1>3. k2 \in Seq(Nat) /\ k2 # <<>> /\ k2[Len(k2)] = b
  BY <1>1, <1>2, LastAppended
<1>4. Typed(k2, u, lines, r2)
  BY <1>1, <1>2, <1>3 DEF Typed
<1>5. res.term = u /\ res.end = "none"
  BY ResultIs
<1>6. TermAfter(res) = u /\ LinesAfter(res, lines) = lines
  BY <1>5 DEF TermAfter, LinesAfter
<1> QED BY <1>2, <1>4, <1>5, <1>6 DEF KeyRead

LEMMA SeenKept ==
  ASSUME NEW k \in Seq(Nat), NEW b \in Nat, NEW t, NEW lines, NEW u \in Terms, NEW res, NEW echo, NEW echoed,
         res = Result(u, "none", echo), echoed \o echo \in Seq(Nat),
         Ascii(k) /\ b < 128 => Ascii(u.line) /\ WithRows(TRUE, echoed \o echo, Append(lines, u.line))
  PROVE  KeySeen(k, b, t, lines, res, echoed)
<1>1. res.term = u /\ res.end = "none" /\ res.echo = echo
  BY ResultIs
<1>2. TermAfter(res) = u /\ LinesAfter(res, lines) = lines
  BY <1>1 DEF TermAfter, LinesAfter
<1>3. Ascii(Append(k, b)) <=> Ascii(k) /\ b < 128
  BY AsciiAppend
<1> QED BY <1>1, <1>2, <1>3 DEF KeySeen, Seen

\* The second byte of an end of line.
LEMMA SecondRead ==
  ASSUME NEW k, NEW t, NEW lines, NEW r, Typed(k, t, lines, r), NEW b \in Nat, b \in {LF, NUL}, t.lastCR,
         NEW echoed, Seen(k, t.line, lines, echoed),
         NEW res, res = Result([t EXCEPT !.lastCR = FALSE], "none", <<>>)
  PROVE  KeyRead(k, b, t, lines, res) /\ KeySeen(k, b, t, lines, res, echoed)
<1>1. /\ k \in Seq(Nat) /\ t \in Terms /\ lines \in Seq(Seq(Nat)) /\ r \in Seq(Nat)
      /\ Len(t.line) <= LineMax /\ WithReturns(k, r) /\ WithRows(FALSE, r, Append(lines, t.line))
      /\ k # <<>> /\ k[Len(k)] = CR
  BY DEF Typed
<1>2. PICK u : u = [t EXCEPT !.lastCR = FALSE]
  OBVIOUS
<1>3. u \in Terms /\ u.iac = t.iac /\ u.escape = t.escape /\ ~ u.lastCR /\ u.line = t.line
  BY <1>1, <1>2, ReturnSet
<1>4. AfterReturn(k, b) /\ b # CR
  BY <1>1 DEF AfterReturn, LF, NUL, CR
<1>5. WithReturns(Append(k, b), r)
  BY <1>1, <1>4, ReturnedNext
<1>6. KeyRead(k, b, t, lines, res)
  BY <1>1, <1>2, <1>3, <1>4, <1>5, KeyKept
<1>7. echoed \in Seq(Nat) /\ echoed \o <<>> = echoed
  BY DEF Seen
<1>8. KeySeen(k, b, t, lines, res, echoed)
  BY <1>1, <1>2, <1>3, <1>7, SeenKept DEF Seen
<1> QED BY <1>6, <1>8

\* A byte below 128 that is neither a control byte nor Rubout is echoed.
LEMMA IsPrintable ==
  ASSUME NEW b \in Nat, b >= 32, b # 127, b < 128
  PROVE  b \in Printable
BY DEF Printable

\* Every other key.
LEMMA EditRead ==
  ASSUME NEW k, NEW t, NEW lines, NEW r, Typed(k, t, lines, r), NEW b \in Nat, ~ AfterReturn(k, b),
         NEW echoed, Seen(k, t.line, lines, echoed),
         NEW u \in Terms, u.iac = t.iac, u.escape = t.escape, ~ u.lastCR, u.line = t.line,
         NEW res, res = Edit(u, b)
  PROVE  KeyRead(k, b, t, lines, res) /\ KeySeen(k, b, t, lines, res, echoed)
<1>1. /\ k \in Seq(Nat) /\ t \in Terms /\ lines \in Seq(Seq(Nat)) /\ r \in Seq(Nat)
      /\ Len(t.line) <= LineMax /\ WithReturns(k, r) /\ WithRows(FALSE, r, Append(lines, t.line))
  BY DEF Typed
<1>2. /\ u.line \in Seq(Nat) /\ Len(u.line) \in Nat /\ LineMax \in Nat /\ echoed \in Seq(Nat)
      /\ echoed \o <<>> = echoed
  <2>1. u.line \in Seq(Nat) /\ Len(u.line) \in Nat
    BY TermIs, Zenon
  <2>2. echoed \in Seq(Nat)
    BY DEF Seen
  <2> QED BY <2>1, <2>2, TerminalAssumption
<1>3. PICK r2 : r2 = Append(r, KeyOf(b))
  OBVIOUS
<1>4. r2 \in Seq(Nat) /\ WithReturns(Append(k, b), r2)
  <2>1. r2 \in Seq(Nat)
    BY <1>1, <1>3 DEF KeyOf, CR
  <2> QED BY <1>1, <1>3, <2>1, ReturnedNext
<1>5. Ascii(k) => Ascii(u.line) /\ WithRows(TRUE, echoed, Append(lines, u.line))
  BY DEF Seen
<1>6. CASE b \in {CR, LF}
  <2>1. PICK v : v = [u EXCEPT !.lastCR = (b = CR)]
    OBVIOUS
  <2>2. v \in Terms /\ v.iac = t.iac /\ v.escape = t.escape /\ v.lastCR = (b = CR) /\ v.line = u.line
    <3>1. PICK c \in BOOLEAN : c = (b = CR)
      OBVIOUS
    <3>2. v = [u EXCEPT !.lastCR = c]
      BY <2>1, <3>1
    <3>3. v \in Terms /\ v.iac = u.iac /\ v.escape = u.escape /\ v.lastCR = c /\ v.line = u.line
      BY <3>2, ReturnSet, Zenon
    <3> QED BY <3>1, <3>3
  <2>3. res = Result(v, "line", <<CR>>)
    <3>1. b \notin Erases /\ ~ (b >= 32)
      BY <1>6 DEF Erases, CR, LF
    <3> QED BY <1>6, <2>1, <3>1 DEF Edit
  <2>4. res.term = v /\ res.end = "line" /\ res.echo = <<CR>>
    BY <2>3, ResultIs
  <2>5. PICK w : w = [v EXCEPT !.line = <<>>]
    OBVIOUS
  <2>6. w \in Terms /\ w.lastCR = v.lastCR /\ w.line = <<>> /\ <<>> \in Seq(Nat)
    <3>1. <<>> \in Seq(Nat)
      OBVIOUS
    <3>2. PICK e \in Seq(Nat) : e = <<>>
      BY <3>1
    <3>3. w = [v EXCEPT !.line = e]
      BY <2>5, <3>2
    <3>4. w.lastCR = v.lastCR /\ w.line = e /\ w \in Terms
      BY <2>2, <3>3, LineSet
    <3> QED BY <3>1, <3>2, <3>4
  <2>7. TermAfter(res) = w /\ LinesAfter(res, lines) = Append(lines, u.line)
    BY <2>2, <2>4, <2>5 DEF TermAfter, LinesAfter
  <2>8. KeyOf(b) = CR
    BY <1>6 DEF KeyOf
  <2>9. PICK l2 : l2 = Append(lines, u.line)
    OBVIOUS
  <2>10. l2 \in Seq(Seq(Nat))
    BY <1>1, <1>2, <2>9
  <2>11. WithRows(FALSE, r2, Append(l2, <<>>))
    BY <1>1, <1>2, <1>3, <2>8, <2>9, LineEnds
  <2>12. PICK k2 : k2 = Append(k, b)
    OBVIOUS
  <2>13. k2 \in Seq(Nat) /\ k2 # <<>> /\ k2[Len(k2)] = b
    BY <1>1, <2>12, LastAppended
  <2>14. Len(<<>>) <= LineMax
    BY <1>2
  <2>15. Typed(k2, w, l2, r2)
    BY <1>4, <2>2, <2>6, <2>10, <2>11, <2>12, <2>13, <2>14 DEF Typed
  <2>16. KeyRead(k, b, t, lines, res)
    BY <2>2, <2>4, <2>7, <2>9, <2>12, <2>15 DEF KeyRead
  <2>17. KeySeen(k, b, t, lines, res, echoed)
    <3>1. echoed \o <<CR>> = Append(echoed, CR) /\ Append(echoed, CR) \in Seq(Nat)
      BY <1>2 DEF CR
    <3>2. Ascii(k2) => Ascii(k)
      BY <1>1, <2>12, AsciiAppend
    <3>3. Ascii(k2) => WithRows(TRUE, Append(echoed, CR), Append(l2, <<>>))
      BY <1>1, <1>2, <1>5, <2>9, <3>2, LineEnds
    <3>4. Ascii(<<>>)
      BY DEF Ascii
    <3> QED BY <2>4, <2>6, <2>7, <2>9, <2>12, <3>1, <3>3, <3>4 DEF KeySeen, Seen
  <2> QED BY <2>16, <2>17
<1> DEFINE Stays(x, echo) ==
       /\ x \in Seq(Nat) /\ Len(x) <= LineMax /\ res = Result([u EXCEPT !.line = x], "none", echo)
       /\ x = Corrected(u.line, b) /\ echo \in Seq(Nat)
       /\ Ascii(u.line) /\ b < 128 =>
            /\ Ascii(x)
            /\ echo = <<>> => x = u.line
            /\ echo # <<>> => \E e \in Nat \ {CR} : echo = <<e>> /\ x = Shown(u.line, e)
<1>7. ASSUME b \notin {CR, LF}, NEW x, NEW echo, Stays(x, echo)
      PROVE  KeyRead(k, b, t, lines, res) /\ KeySeen(k, b, t, lines, res, echoed)
  <2>1. KeyOf(b) = b /\ b # CR
    BY <1>7 DEF KeyOf
  <2>2. PICK v : v = [u EXCEPT !.line = x]
    OBVIOUS
  <2>3. v \in Terms /\ v.iac = t.iac /\ v.escape = t.escape /\ ~ v.lastCR /\ v.line = x
    BY <1>7, <2>2, LineSet
  <2>4. WithRows(FALSE, r2, Append(lines, x))
    <3>1. x = Changed(FALSE, u.line, b)
      BY <1>7 DEF Changed
    <3> QED BY <1>1, <1>2, <1>3, <1>7, <2>1, <3>1, LineChanges
  <2>5. KeyRead(k, b, t, lines, res)
    BY <1>4, <1>7, <2>1, <2>2, <2>3, <2>4, KeyKept
  <2>6. echoed \o echo \in Seq(Nat)
    BY <1>2, <1>7
  <2>7. Ascii(k) /\ b < 128 => Ascii(x) /\ WithRows(TRUE, echoed \o echo, Append(lines, x))
    <3> SUFFICES ASSUME Ascii(k), b < 128
                 PROVE  Ascii(x) /\ WithRows(TRUE, echoed \o echo, Append(lines, x))
      OBVIOUS
    <3>1. Ascii(u.line) /\ WithRows(TRUE, echoed, Append(lines, u.line))
      BY <1>5
    <3>2. CASE echo = <<>>
      BY <1>2, <1>7, <3>1, <3>2
    <3>3. CASE echo # <<>>
      <4>1. PICK e \in Nat \ {CR} : echo = <<e>> /\ x = Shown(u.line, e)
        BY <1>7, <3>1, <3>3
      <4>2. x = Changed(TRUE, u.line, e)
        BY <4>1 DEF Changed
      <4>3. echoed \o echo = Append(echoed, e)
        BY <1>2, <4>1
      <4>4. WithRows(TRUE, Append(echoed, e), Append(lines, x))
        BY <1>1, <1>2, <1>7, <3>1, <4>1, <4>2, LineChanges
      <4> QED BY <1>7, <3>1, <4>3, <4>4
    <3> QED BY <3>2, <3>3
  <2>8. KeySeen(k, b, t, lines, res, echoed)
    BY <1>1, <1>7, <2>2, <2>3, <2>6, <2>7, SeenKept
  <2> QED BY <2>5, <2>8
<1>8. [u EXCEPT !.line = u.line] = u
  BY DEF Terms
<1>9. CASE b \in Erases /\ u.line = <<>>
  <2>1. res = Result(u, "none", <<>>)
    BY <1>9 DEF Edit, Erases, CR, LF
  <2>2. Corrected(u.line, b) = u.line
    BY <1>9, NoneLast DEF Corrected
  <2>3. Stays(u.line, <<>>)
    <3>1. <<>> \in Seq(Nat)
      OBVIOUS
    <3>2. Len(u.line) <= LineMax
      BY <1>1
    <3>3. res = Result([u EXCEPT !.line = u.line], "none", <<>>)
      BY <1>8, <2>1
    <3> QED BY <1>2, <2>2, <3>1, <3>2, <3>3
  <2>4. b \notin {CR, LF}
    BY <1>9 DEF Erases, CR, LF
  <2> HIDE DEF Stays
  <2> QED BY <1>7, <2>3, <2>4
<1>10. CASE b \in Erases /\ u.line # <<>>
  <2>1. PICK x : x = Erased(u.line)
    OBVIOUS
  <2>2. res = Result([u EXCEPT !.line = x], "none", <<Rubout>>)
    BY <1>10, <2>1 DEF Edit, Erases, CR, LF
  <2>3. /\ x \in Seq(Nat) /\ Len(x) <= Len(u.line)
        /\ Ascii(u.line) => x = Front(u.line) /\ Ascii(x)
    BY <1>2, <1>10, <2>1, ErasedIs
  <2>4. x = Corrected(u.line, b)
    BY <1>2, <1>10, <2>1, LastIs DEF Corrected
  <2>5. Shown(u.line, Rubout) = Front(u.line) /\ Rubout \in Nat \ {CR} /\ <<Rubout>> # <<>>
    BY <1>10 DEF Shown, Rubout, CR
  <2>6. <<Rubout>> \in Seq(Nat) /\ Len(x) <= LineMax
    BY <1>1, <1>2, <2>3, <2>5
  <2>7. Stays(x, <<Rubout>>)
    BY <2>2, <2>3, <2>4, <2>5, <2>6
  <2>8. b \notin {CR, LF}
    BY <1>10 DEF Erases, CR, LF
  <2> HIDE DEF Stays
  <2> QED BY <1>7, <2>7, <2>8
<1>11. CASE b < 32 /\ b \notin {CR, LF} \cup Erases
  <2>1. res = Result(u, "none", <<>>)
    BY <1>11 DEF Edit
  <2>2. Corrected(u.line, b) = u.line
    BY <1>11 DEF Corrected
  <2>3. Stays(u.line, <<>>)
    <3>1. <<>> \in Seq(Nat)
      OBVIOUS
    <3>2. Len(u.line) <= LineMax
      BY <1>1
    <3>3. res = Result([u EXCEPT !.line = u.line], "none", <<>>)
      BY <1>8, <2>1
    <3> QED BY <1>2, <2>2, <3>1, <3>2, <3>3
  <2> HIDE DEF Stays
  <2> QED BY <1>7, <1>11, <2>3
<1>12. CASE b >= 32 /\ b # 127 /\ Len(u.line) < LineMax
  <2>1. PICK x : x = Append(u.line, b)
    OBVIOUS
  <2>2. PICK echo : echo = IF b \in Printable THEN <<b>> ELSE <<>>
    OBVIOUS
  <2>3. b \notin Erases /\ b \notin {CR, LF} /\ ~ (b < 32) /\ b # Rubout /\ ~ (Len(u.line) >= LineMax)
    BY <1>2, <1>12 DEF Erases, CR, LF, Rubout
  <2>4. res = Result([u EXCEPT !.line = x], "none", echo)
    BY <1>12, <2>1, <2>2, <2>3 DEF Edit
  <2>5. x = Corrected(u.line, b)
    BY <2>1, <2>3 DEF Corrected
  <2>6. x = Shown(u.line, b)
    BY <2>1, <2>3 DEF Shown
  <2>7. x \in Seq(Nat) /\ Len(x) <= LineMax
    BY <1>2, <1>12, <2>1
  <2>8. Ascii(u.line) /\ b < 128 => Ascii(x)
    BY <1>2, <2>1, AsciiAppend
  <2>9. b < 128 => echo = <<b>> /\ b \in Nat \ {CR}
    <3>1. b < 128 => b \in Printable
      BY <1>12, IsPrintable
    <3> QED BY <2>2, <2>3, <3>1
  <2>10. echo \in Seq(Nat) /\ <<b>> # <<>>
    BY <2>2
  <2>11. Stays(x, echo)
    BY <2>4, <2>5, <2>6, <2>7, <2>8, <2>9, <2>10
  <2> HIDE DEF Stays
  <2> QED BY <1>7, <2>3, <2>11
<1>13. CASE b >= 32 /\ b # 127 /\ Len(u.line) >= LineMax
  <2>1. b \notin Erases /\ b \notin {CR, LF} /\ ~ (b < 32) /\ ~ (Len(u.line) < LineMax)
    BY <1>2, <1>13 DEF Erases, CR, LF
  <2>2. res = Result(u, "long", <<>>)
    BY <1>13, <2>1 DEF Edit
  <2>3. res.term = u /\ res.end = "long"
    BY <2>2, ResultIs
  <2>4. PICK x : x = Append(u.line, b)
    OBVIOUS
  <2>5. x \in Seq(Nat) /\ Len(x) = LineMax + 1
    BY <1>1, <1>2, <1>13, <2>4
  <2>6. x = Changed(FALSE, u.line, b)
    BY <2>1, <2>4 DEF Corrected, Changed
  <2>7. KeyOf(b) = b
    BY <2>1 DEF KeyOf
  <2>8. WithRows(FALSE, r2, Append(lines, x))
    BY <1>1, <1>2, <1>3, <2>1, <2>5, <2>6, <2>7, LineChanges
  <2>9. KeyRead(k, b, t, lines, res)
    BY <1>4, <2>3, <2>5, <2>8 DEF KeyRead
  <2>10. KeySeen(k, b, t, lines, res, echoed)
    BY <2>3 DEF KeySeen
  <2> QED BY <2>9, <2>10
<1>14. b \in Erases \/ (b < 32 /\ b \notin Erases) \/ (b >= 32 /\ b # 127)
  BY DEF Erases
<1> QED BY <1>2, <1>6, <1>9, <1>10, <1>11, <1>12, <1>13, <1>14

LEMMA KeyReads ==
  ASSUME NEW k, NEW t, NEW lines, NEW r, Typed(k, t, lines, r), NEW b \in Nat,
         NEW echoed, Seen(k, t.line, lines, echoed), NEW res, res = AfterCR(t, b)
  PROVE  KeyRead(k, b, t, lines, res) /\ KeySeen(k, b, t, lines, res, echoed)
<1>1. t \in Terms /\ (t.lastCR <=> k # <<>> /\ k[Len(k)] = CR)
  BY DEF Typed
<1>2. CASE t.lastCR /\ b \in {LF, NUL}
  <2>1. res = Result([t EXCEPT !.lastCR = FALSE], "none", <<>>)
    BY <1>2 DEF AfterCR
  <2> QED BY <1>2, <2>1, SecondRead
<1>3. CASE ~ (t.lastCR /\ b \in {LF, NUL})
  <2>1. ~ AfterReturn(k, b)
    BY <1>1, <1>3 DEF AfterReturn
  <2>2. PICK u : u = [t EXCEPT !.lastCR = FALSE]
    OBVIOUS
  <2>3. u \in Terms /\ u.iac = t.iac /\ u.escape = t.escape /\ ~ u.lastCR /\ u.line = t.line
    BY <1>1, <2>2, ReturnSet
  <2>4. res = Edit(u, b)
    BY <1>3, <2>2 DEF AfterCR
  <2> QED BY <2>1, <2>3, <2>4, EditRead
<1> QED BY <1>2, <1>3

(***************************************************************************)
(* What one byte does: the layers together.                                *)
(***************************************************************************)
\* The reader t has made the finished lines of the stream s, and e is the echo of
\* them: p are the payload, k the keys, and r the keys with their ends of lines told.
Reader(s, t, lines, e, p, k, r) ==
  /\ s \in Seq(Octets)
  /\ Telnet(s, t.iac, p) /\ \A i \in 1..Len(p) : p[i] # Stop
  /\ Escapes(p, t.escape, k)
  /\ Typed(k, t, lines, r)
  /\ Seen(k, t.line, lines, e)

Reading(s, t, lines, e) == \E p, k, r : Reader(s, t, lines, e, p, k, r)

LEMMA ReadingBegins == Reading(<<>>, Fresh, <<>>, <<>>)
<1>1. Fresh \in Terms /\ Fresh.iac = 0 /\ Fresh.escape = 0 /\ Fresh.lastCR = FALSE /\ Fresh.line = <<>>
  BY DEF Fresh, Terms
<1>2. <<>> \in Seq(Octets) /\ <<>> \in Seq(Nat) /\ <<>> \in Seq(Seq(Nat)) /\ Len(<<>>) = 0
  OBVIOUS
<1>3. Append(<<>>, <<>>) = << <<>> >>
  OBVIOUS
<1>4. Typed(<<>>, Fresh, <<>>, <<>>)
  <2>1. WithRows(FALSE, <<>>, << <<>> >>)
    BY RowsEmpty
  <2>2. Len(<<>>) <= LineMax
    BY <1>2, TerminalAssumption
  <2> QED BY <1>1, <1>2, <1>3, <2>1, <2>2, ReturnedEmpty DEF Typed
<1>5. Seen(<<>>, <<>>, <<>>, <<>>)
  <2>1. WithRows(TRUE, <<>>, << <<>> >>)
    BY RowsEmpty
  <2> QED BY <1>2, <1>3, <2>1 DEF Seen, Ascii
<1>6. Telnet(<<>>, 0, <<>>) /\ Escapes(<<>>, 0, <<>>)
  BY TelnetEmpty, EscapesEmpty
<1>7. \A i \in 1..Len(<<>>) : <<>>[i] # Stop
  BY <1>2
<1>8. Reader(<<>>, Fresh, <<>>, <<>>, <<>>, <<>>, <<>>)
  BY <1>1, <1>2, <1>4, <1>5, <1>6, <1>7 DEF Reader
<1> QED BY <1>8 DEF Reading

\* The lines that a payload gives until it is stopped.
LinesOfPayload(p) == RowsBy(FALSE, Returns(KeysOf(UpToStop(p))))

LEMMA LinesAre ==
  ASSUME NEW p \in Seq(Nat), \A i \in 1..Len(p) : p[i] # Stop, NEW q, NEW k, Escapes(p, q, k),
         NEW r, WithReturns(k, r), NEW rows, WithRows(FALSE, r, rows)
  PROVE  LinesOfPayload(p) = rows /\ LinesOfPayload(Append(p, Stop)) = rows
<1>1. k \in Seq(Nat) /\ KeysOf(p) = k
  BY EscapesTypes, EscapesIs
<1>2. Returns(k) = r /\ r \in Seq(Nat)
  BY <1>1, ReturnedIs
<1>3. Len(r) \in Nat
  BY <1>2
<1>4. RowsBy(FALSE, r) = rows
  BY <1>3, RowsIs
<1>5. UpToStop(p) = p
  BY DEF UpToStop
<1>6. UpToStop(Append(p, Stop)) = p
  <2>1. PICK n : n = Len(p)
    OBVIOUS
  <2>2. PICK t : t = Append(p, Stop)
    OBVIOUS
  <2>3. Stop \in Nat
    BY DEF Stop
  <2>4. /\ n \in Nat /\ Len(t) = n + 1 /\ t[n + 1] = Stop /\ t \in Seq(Nat)
        /\ \A i \in 1..n : t[i] = p[i]
    BY <2>1, <2>2, <2>3, AppendIs
  <2> DEFINE stops == {i \in 1..Len(t) : t[i] = Stop}
  <2>5. stops = {n + 1}
    <3>1. ASSUME NEW i \in 1..n PROVE t[i] # Stop
      BY <2>1, <2>4
    <3>2. \A i \in 1..n + 1 : i = n + 1 \/ i \in 1..n
      BY <2>4
    <3> QED BY <2>4, <3>1, <3>2
  <2>6. Min(stops) = n + 1
    <3>1. \A e \in stops : e >= 0 /\ e <= n + 1
      BY <2>4, <2>5
    <3>2. stops \in SUBSET Int /\ n + 1 \in Nat /\ stops # {}
      BY <2>4, <2>5
    <3> HIDE DEF stops
    <3>3. Min(stops) \in stops
      BY <3>1, <3>2, EndsMin
    <3> QED BY <2>5, <3>3
  <2>7. SubSeq(t, 1, n) = p
    <3>1. SubSeq(t, 1, n) \in Seq(Nat) /\ Len(SubSeq(t, 1, n)) = n /\ \A i \in 1..n : SubSeq(t, 1, n)[i] = t[i]
      BY <2>4
    <3> QED BY <2>1, <2>4, <3>1
  <2>8. UpToStop(t) = SubSeq(t, 1, Min(stops) - 1)
    BY <2>5 DEF UpToStop
  <2>9. Min(stops) - 1 = n
    BY <2>4, <2>6
  <2> HIDE DEF stops
  <2> QED BY <2>2, <2>7, <2>8, <2>9
<1> QED BY <1>1, <1>2, <1>4, <1>5, <1>6 DEF LinesOfPayload

\* What a reader has made is what should be made.
LEMMA ReaderIs ==
  ASSUME NEW s, NEW t, NEW lines, NEW e, NEW p, NEW k, NEW r, Reader(s, t, lines, e, p, k, r)
  PROVE  /\ Payload(s) = p /\ KeysOf(p) = k /\ Lines(s) = Append(lines, t.line)
         /\ Ascii(k) => Screen(e) = Lines(s)
<1>1. /\ s \in Seq(Octets) /\ Telnet(s, t.iac, p) /\ Escapes(p, t.escape, k)
      /\ WithReturns(k, r) /\ WithRows(FALSE, r, Append(lines, t.line))
      /\ \A i \in 1..Len(p) : p[i] # Stop
  BY DEF Reader, Typed
<1>2. p \in Seq(Nat) /\ Payload(s) = p
  BY <1>1, TelnetTypes, TelnetIs
<1>3. KeysOf(p) = k
  BY <1>1, <1>2, EscapesIs
<1>4. LinesOfPayload(p) = Append(lines, t.line)
  BY <1>1, <1>2, LinesAre
<1>5. Lines(s) = Append(lines, t.line)
  BY <1>2, <1>4 DEF Lines, LinesOfPayload
<1>6. ASSUME Ascii(k) PROVE Screen(e) = Append(lines, t.line)
  <2>1. e \in Seq(Nat) /\ WithRows(TRUE, e, Append(lines, t.line))
    BY <1>6 DEF Reader, Seen
  <2>2. Len(e) \in Nat
    BY <2>1
  <2> QED BY <2>1, <2>2, RowsIs DEF Screen
<1> QED BY <1>2, <1>3, <1>5, <1>6

\* A byte b after the stream s is read as res says.
ByteRead(s, b, lines, e, res) ==
  /\ res.end \in {"none", "line", "long", "quit"}
  /\ res.end \in {"none", "line"} =>
       Reading(Append(s, b), TermAfter(res), LinesAfter(res, lines), e \o res.echo)
  /\ res.end = "quit" => Lines(Append(s, b)) = Append(lines, res.term.line)
  /\ res.end = "long" => \E x \in Seq(Nat) : Lines(Append(s, b)) = Append(lines, x) /\ Len(x) = LineMax + 1

\* Two ways in which a byte ends the reading or changes only the reader's state.
LEMMA QuitRead ==
  ASSUME NEW s, NEW t, NEW lines, NEW e, NEW p, NEW k, NEW r, Reader(s, t, lines, e, p, k, r),
         NEW b \in Octets, Passed(t.iac, b) = <<Stop>>, NEW res, res = Result(t, "quit", <<>>)
  PROVE  ByteRead(s, b, lines, e, res)
<1>1. /\ s \in Seq(Octets) /\ Telnet(s, t.iac, p) /\ Escapes(p, t.escape, k)
      /\ WithReturns(k, r) /\ WithRows(FALSE, r, Append(lines, t.line))
      /\ \A i \in 1..Len(p) : p[i] # Stop
  BY DEF Reader, Typed
<1>2. PICK s2 : s2 = Append(s, b)
  OBVIOUS
<1>3. p \in Seq(Nat) /\ s2 \in Seq(Octets)
  <2>1. p \in Seq(Nat)
    BY <1>1, TelnetTypes
  <2> QED BY <1>1, <1>2, <2>1
<1>4. Telnet(s2, IacAfter(t.iac, b), p \o <<Stop>>)
  BY <1>1, <1>2, TelnetNext
<1>5. p \o <<Stop>> = Append(p, Stop)
  <2>1. Stop \in Nat
    BY DEF Stop
  <2> QED BY <1>3, <2>1
<1>6. Payload(s2) = Append(p, Stop)
  BY <1>3, <1>4, <1>5, TelnetIs
<1>7. LinesOfPayload(Append(p, Stop)) = Append(lines, t.line)
  BY <1>1, <1>3, LinesAre
<1>8. Lines(s2) = Append(lines, t.line)
  BY <1>6, <1>7 DEF Lines, LinesOfPayload
<1>9. res.end = "quit" /\ res.term = t
  BY ResultIs
<1> QED BY <1>2, <1>8, <1>9 DEF ByteRead

LEMMA StateRead ==
  ASSUME NEW s, NEW lines, NEW e, NEW u, Reading(s, u, lines, e), NEW b,
         NEW s1, s = Append(s1, b), NEW res, res = Result(u, "none", <<>>)
  PROVE  ByteRead(s1, b, lines, e, res)
<1>1. res.end = "none" /\ res.term = u /\ res.echo = <<>>
  BY ResultIs
<1>2. TermAfter(res) = u /\ LinesAfter(res, lines) = lines
  BY <1>1 DEF TermAfter, LinesAfter
<1>3. e \o <<>> = e
  <2>1. e \in Seq(Nat)
    BY DEF Reading, Reader, Seen
  <2> QED BY <2>1
<1> QED BY <1>1, <1>2, <1>3 DEF ByteRead

\* A byte of a Telnet command.
LEMMA CommandRead ==
  ASSUME NEW s, NEW t, NEW lines, NEW e, NEW p, NEW k, NEW r, Reader(s, t, lines, e, p, k, r),
         NEW b \in Octets, t.iac # 0 \/ b = IAC, ~ (t.iac = 1 /\ b = IP),
         NEW res, res = Result([t EXCEPT !.iac = NextIac(t.iac, b)], "none", <<>>)
  PROVE  ByteRead(s, b, lines, e, res)
<1>1. /\ s \in Seq(Octets) /\ Telnet(s, t.iac, p) /\ t \in Terms /\ Typed(k, t, lines, r)
  BY DEF Reader, Typed
<1>2. p \in Seq(Nat) /\ p \o <<>> = p /\ t.iac \in 0..4
  <2>1. p \in Seq(Nat) /\ t.iac \in 0..4
    BY <1>1, TelnetTypes, TermIs
  <2> QED BY <2>1
<1>3. PICK q : q = NextIac(t.iac, b)
  OBVIOUS
<1>4. IacAfter(t.iac, b) = q /\ Passed(t.iac, b) = <<>> /\ q \in 0..4
  BY <1>2, <1>3, IacTypes DEF IacAfter, Passed
<1>5. PICK s2 : s2 = Append(s, b)
  OBVIOUS
<1>6. s2 \in Seq(Octets) /\ Telnet(s2, q, p)
  <2>1. s2 \in Seq(Octets)
    BY <1>1, <1>5
  <2>2. Telnet(s2, IacAfter(t.iac, b), p \o Passed(t.iac, b))
    BY <1>1, <1>5, TelnetNext
  <2> QED BY <1>2, <1>4, <2>1, <2>2
<1>7. PICK u : u = [t EXCEPT !.iac = q]
  OBVIOUS
<1>8. u \in Terms /\ u.iac = q /\ u.escape = t.escape /\ u.lastCR = t.lastCR /\ u.line = t.line
  BY <1>1, <1>4, <1>7, IacSet
<1>9. Typed(k, u, lines, r)
  BY <1>1, <1>8 DEF Typed
<1>10. Reader(s2, u, lines, e, p, k, r)
  BY <1>6, <1>8, <1>9 DEF Reader
<1>11. Reading(s2, u, lines, e)
  BY <1>10 DEF Reading
<1> QED BY <1>3, <1>5, <1>7, <1>11, StateRead

\* A byte that is passed on.
LEMMA PassedOn ==
  ASSUME NEW s, NEW t, NEW lines, NEW e, NEW p, NEW k, NEW r, Reader(s, t, lines, e, p, k, r),
         NEW b \in Octets, t.iac = 0, b \notin {IAC, ETX, EOT}
  PROVE  /\ Append(s, b) \in Seq(Octets) /\ Telnet(Append(s, b), 0, Append(p, b)) /\ p \in Seq(Nat)
         /\ \A i \in 1..Len(Append(p, b)) : Append(p, b)[i] # Stop
         /\ Append(p, b) \in Seq(Nat) /\ b \in Nat
<1>1. /\ s \in Seq(Octets) /\ Telnet(s, t.iac, p) /\ \A i \in 1..Len(p) : p[i] # Stop
  BY DEF Reader
<1>2. p \in Seq(Nat) /\ b \in Nat /\ b # Stop
  BY <1>1, TelnetTypes DEF Octets, Stop
<1>3. IacAfter(t.iac, b) = 0 /\ Passed(t.iac, b) = <<b>>
  BY DEF IacAfter, Passed
<1>4. Telnet(Append(s, b), IacAfter(t.iac, b), p \o Passed(t.iac, b))
  BY <1>1, TelnetNext
<1>5. p \o <<b>> = Append(p, b)
  BY <1>2
<1>6. Append(s, b) \in Seq(Octets)
  BY <1>1
<1>7. PICK n : n = Len(p)
  OBVIOUS
<1>8. PICK p2 : p2 = Append(p, b)
  OBVIOUS
<1>9. n \in Nat /\ Len(p2) = n + 1 /\ p2[n + 1] = b /\ p2 \in Seq(Nat) /\ \A i \in 1..n : p2[i] = p[i]
  BY <1>2, <1>7, <1>8, AppendIs
<1>10. ASSUME NEW i \in 1..n + 1 PROVE p2[i] # Stop
  <2>1. CASE i = n + 1
    BY <1>2, <1>9, <2>1
  <2>2. CASE i # n + 1
    BY <1>1, <1>7, <1>9, <2>2
  <2> QED BY <2>1, <2>2
<1> QED BY <1>2, <1>3, <1>4, <1>5, <1>6, <1>8, <1>9, <1>10

\* A byte of an escape sequence.
LEMMA SequenceRead ==
  ASSUME NEW s, NEW t, NEW lines, NEW e, NEW p, NEW k, NEW r, Reader(s, t, lines, e, p, k, r),
         NEW b \in Octets, t.iac = 0, b \notin {IAC, ETX, EOT}, t.escape # 0 \/ b = ESC,
         NEW res, res = Result([t EXCEPT !.escape = NextEscape(t.escape, b)], "none", <<>>)
  PROVE  ByteRead(s, b, lines, e, res)
<1>1. /\ Escapes(p, t.escape, k) /\ t \in Terms /\ Typed(k, t, lines, r) /\ Seen(k, t.line, lines, e)
  BY DEF Reader, Typed
<1>2. PICK s2 : s2 = Append(s, b)
  OBVIOUS
<1>3. PICK p2 : p2 = Append(p, b)
  OBVIOUS
<1>4. /\ s2 \in Seq(Octets) /\ Telnet(s2, 0, p2) /\ p \in Seq(Nat)
      /\ \A i \in 1..Len(p2) : p2[i] # Stop
      /\ p2 \in Seq(Nat) /\ b \in Nat
  BY <1>2, <1>3, PassedOn
<1>5. PICK q : q = NextEscape(t.escape, b)
  OBVIOUS
<1>6. t.escape \in 0..2 /\ k \in Seq(Nat)
  BY <1>1, <1>4, EscapesTypes
<1>7. EscapeAfter(t.escape, b) = q /\ Kept(t.escape, b) = <<>> /\ q \in 0..2
  BY <1>4, <1>5, <1>6, EscapeTypes DEF EscapeAfter, Kept
<1>8. Escapes(p2, q, k)
  <2>1. Escapes(p2, EscapeAfter(t.escape, b), k \o Kept(t.escape, b))
    BY <1>1, <1>3, <1>4, EscapesNext
  <2>2. k \o <<>> = k
    BY <1>6
  <2> QED BY <1>7, <2>1, <2>2
<1>9. PICK u : u = [t EXCEPT !.escape = q]
  OBVIOUS
<1>10. u \in Terms /\ u.iac = t.iac /\ u.escape = q /\ u.lastCR = t.lastCR /\ u.line = t.line
  BY <1>1, <1>7, <1>9, EscapeSet
<1>11. Typed(k, u, lines, r)
  BY <1>1, <1>10 DEF Typed
<1>12. Reader(s2, u, lines, e, p2, k, r)
  BY <1>1, <1>4, <1>8, <1>10, <1>11 DEF Reader
<1>13. Reading(s2, u, lines, e)
  BY <1>12 DEF Reading
<1> QED BY <1>2, <1>5, <1>9, <1>13, StateRead

\* A key.
LEMMA KeyByteRead ==
  ASSUME NEW s, NEW t, NEW lines, NEW e, NEW p, NEW k, NEW r, Reader(s, t, lines, e, p, k, r),
         NEW b \in Octets, t.iac = 0, b \notin {IAC, ETX, EOT}, t.escape = 0, b # ESC,
         NEW res, res = AfterCR(t, b)
  PROVE  ByteRead(s, b, lines, e, res)
<1>1. /\ Escapes(p, t.escape, k) /\ Typed(k, t, lines, r) /\ Seen(k, t.line, lines, e)
  BY DEF Reader
<1>2. PICK s2 : s2 = Append(s, b)
  OBVIOUS
<1>3. PICK p2 : p2 = Append(p, b)
  OBVIOUS
<1>4. /\ s2 \in Seq(Octets) /\ Telnet(s2, 0, p2) /\ p \in Seq(Nat)
      /\ \A i \in 1..Len(p2) : p2[i] # Stop
      /\ p2 \in Seq(Nat) /\ b \in Nat
  BY <1>2, <1>3, PassedOn
<1>5. PICK k2 : k2 = Append(k, b)
  OBVIOUS
<1>6. Escapes(p2, 0, k2)
  <2>1. Escapes(p2, EscapeAfter(t.escape, b), k \o Kept(t.escape, b))
    BY <1>1, <1>3, <1>4, EscapesNext
  <2>2. k \in Seq(Nat)
    BY <1>1, <1>4, EscapesTypes
  <2>3. k \o <<b>> = k2
    BY <1>4, <1>5, <2>2
  <2>4. EscapeAfter(t.escape, b) = 0 /\ Kept(t.escape, b) = <<b>>
    BY DEF EscapeAfter, Kept
  <2> QED BY <2>1, <2>3, <2>4
<1>7. KeyRead(k, b, t, lines, res) /\ KeySeen(k, b, t, lines, res, e)
  BY <1>1, <1>4, KeyReads
<1>8. res.end \in {"none", "line", "long"} /\ res.term \in Terms /\ res.term.iac = 0 /\ res.term.escape = 0
  BY <1>7 DEF KeyRead
<1>9. CASE res.end # "long"
  <2>1. PICK r2 : Typed(k2, TermAfter(res), LinesAfter(res, lines), r2)
    BY <1>5, <1>7, <1>9 DEF KeyRead
  <2>2. Seen(k2, TermAfter(res).line, LinesAfter(res, lines), e \o res.echo)
    BY <1>5, <1>7, <1>9 DEF KeySeen
  <2>3. TermAfter(res).iac = 0 /\ TermAfter(res).escape = 0
    <3>1. PICK u : u = res.term
      OBVIOUS
    <3>2. u \in Terms /\ u.iac = 0 /\ u.escape = 0
      BY <1>8, <3>1
    <3>3. [u EXCEPT !.line = <<>>].iac = 0 /\ [u EXCEPT !.line = <<>>].escape = 0
      BY <3>2 DEF Terms
    <3> QED BY <3>1, <3>2, <3>3 DEF TermAfter
  <2>4. Reader(s2, TermAfter(res), LinesAfter(res, lines), e \o res.echo, p2, k2, r2)
    BY <1>4, <1>6, <2>1, <2>2, <2>3 DEF Reader
  <2>5. Reading(s2, TermAfter(res), LinesAfter(res, lines), e \o res.echo)
    BY <2>4 DEF Reading
  <2> QED BY <1>2, <1>8, <1>9, <2>5 DEF ByteRead
<1>10. CASE res.end = "long"
  <2>1. PICK r2 \in Seq(Nat), x \in Seq(Nat) :
          WithReturns(k2, r2) /\ WithRows(FALSE, r2, Append(lines, x)) /\ Len(x) = LineMax + 1
    BY <1>5, <1>7, <1>10 DEF KeyRead
  <2>2. Payload(s2) = p2
    BY <1>4, TelnetIs
  <2>3. LinesOfPayload(p2) = Append(lines, x)
    BY <1>4, <1>6, <2>1, LinesAre
  <2>4. Lines(s2) = Append(lines, x)
    BY <2>2, <2>3 DEF Lines, LinesOfPayload
  <2> QED BY <1>2, <1>10, <2>1, <2>4 DEF ByteRead
<1> QED BY <1>9, <1>10

LEMMA ByteReads ==
  ASSUME NEW s, NEW t, NEW lines, NEW e, Reading(s, t, lines, e), NEW b \in Octets,
         NEW res, res = Byte(t, b)
  PROVE  ByteRead(s, b, lines, e, res)
<1>1. PICK p, k, r : Reader(s, t, lines, e, p, k, r)
  BY DEF Reading
<1>2. IAC # ETX /\ IAC # EOT
  BY DEF IAC, ETX, EOT
<1>3. CASE t.iac = 1 /\ b = IP
  <2>1. res = Result(t, "quit", <<>>)
    BY <1>3 DEF Byte
  <2>2. Passed(t.iac, b) = <<Stop>>
    BY <1>3 DEF Passed
  <2> QED BY <1>1, <2>1, <2>2, QuitRead
<1>4. CASE (t.iac # 0 \/ b = IAC) /\ ~ (t.iac = 1 /\ b = IP)
  <2>1. res = Result([t EXCEPT !.iac = NextIac(t.iac, b)], "none", <<>>)
    BY <1>2, <1>4 DEF Byte
  <2> QED BY <1>1, <1>4, <2>1, CommandRead
<1>5. CASE t.iac = 0 /\ b \in {ETX, EOT}
  <2>1. b # IAC
    BY <1>2, <1>5
  <2>2. res = Result(t, "quit", <<>>)
    BY <1>5, <2>1 DEF Byte
  <2>3. Passed(t.iac, b) = <<Stop>>
    BY <1>5, <2>1 DEF Passed
  <2> QED BY <1>1, <2>2, <2>3, QuitRead
<1>6. CASE t.iac = 0 /\ b \notin {IAC, ETX, EOT} /\ (t.escape # 0 \/ b = ESC)
  <2>1. res = Result([t EXCEPT !.escape = NextEscape(t.escape, b)], "none", <<>>)
    BY <1>6 DEF Byte
  <2> QED BY <1>1, <1>6, <2>1, SequenceRead
<1>7. CASE t.iac = 0 /\ b \notin {IAC, ETX, EOT} /\ ~ (t.escape # 0 \/ b = ESC)
  <2>1. t.escape = 0 /\ b # ESC /\ b \notin {IAC, ETX, EOT, ESC}
    BY <1>7
  <2>2. res = AfterCR(t, b)
    BY <1>7, <2>1 DEF Byte
  <2> QED BY <1>1, <1>7, <2>1, <2>2, KeyByteRead
<1> QED BY <1>2, <1>3, <1>4, <1>5, <1>6, <1>7
=============================================================================
