-------------------------- MODULE ConnectionProofs --------------------------
(***************************************************************************)
(* Proofs about Connection, for any timeouts, budgets and limits, any      *)
(* pieces in which a peer sends, and any interleaving of an SSH            *)
(* connection's goroutines.                                                *)
(***************************************************************************)
EXTENDS Connection, KeystrokesProofs

(***************************************************************************)
(* Deadlines.                                                              *)
(***************************************************************************)
LEMMA EarliestIs ==
  ASSUME NEW S, \E t \in S : \A u \in S : t <= u
  PROVE  Earliest(S) \in S /\ \A u \in S : Earliest(S) <= u
BY DEF Earliest

GuardTypes ==
  /\ now \in Nat /\ phase \in Nat
  /\ reader \in {"none", "computed", "blocked"}
  /\ due \in Nat /\ deadline \in Nat /\ began \in 0..now

\* The deadline of a read: by the idle timeout, the lifetime, and the phase if one
\* is in force.
LEMMA DeadlineIs ==
  ASSUME GuardTypes
  PROVE  /\ Deadline(IdleTimeout) \in Nat
         /\ phase = 0 => Deadline(IdleTimeout) = Earliest({now + IdleTimeout, MaxLifetime})
         /\ phase # 0 => Deadline(IdleTimeout) <= phase
<1>1. now + IdleTimeout \in Nat /\ MaxLifetime \in Nat /\ phase \in Nat
  BY GuardAssumption DEF GuardTypes
<1> DEFINE S == {now + IdleTimeout, MaxLifetime}
           T == S \union (IF phase = 0 THEN {} ELSE {phase})
<1>2. Deadline(IdleTimeout) = Earliest(T)
  BY DEF Deadline
<1>3. \E t \in T : \A u \in T : t <= u
  BY <1>1
<1>4. T \subseteq Nat /\ (phase = 0 => T = S) /\ (phase # 0 => phase \in T)
  BY <1>1
<1> HIDE DEF T
<1>5. Earliest(T) \in T /\ \A u \in T : Earliest(T) <= u
  BY <1>3, EarliestIs
<1> QED BY <1>2, <1>4, <1>5

(***************************************************************************)
(* The command budget.  The minute of the property begins anywhere, the    *)
(* window of the code with a command: a minute meets at most two windows,  *)
(* and is short of one command in the first unless it begins with it.      *)
(* The lemmas are about times s[1], ..., s[n] and a budget b, and what one *)
(* line makes of them.                                                     *)
(***************************************************************************)
Within(s, n, i) == {j \in i..n : s[j] < s[i] + Minute}

Budgets == [start : Int, count : Nat, total : Nat]

\* The commands were run by now, and no more than were counted.
Times(s, n, b, time) ==
  /\ n \in Nat /\ time \in Nat /\ b \in Budgets /\ b.start <= time
  /\ \A i \in 1..n : s[i] \in Nat /\ s[i] <= time
  /\ n <= b.total /\ n <= SessionCommands

\* The first w commands were run before the window that is open.
Window(s, n, b, w) ==
  /\ w \in 0..n
  /\ n - w <= b.count /\ n - w <= CommandsPerMinute
  /\ \A j \in 1..w : s[j] <= b.start
  /\ w < n => s[w + 1] = b.start
  /\ w = n => b.start = -Minute \/ b.total > SessionCommands
  /\ \A i \in 1..w : s[i] + Minute > b.start => w - i + 1 < CommandsPerMinute

\* The budget c after a line, and the times t[1], ..., t[m].
Counts(s, n, b, time, t, m, c) ==
  /\ c \in Budgets /\ c.total = b.total + 1
  /\ IF time - b.start >= Minute THEN c.start = time /\ c.count = 1
                                 ELSE c.start = b.start /\ c.count = b.count + 1
  /\ \A i \in 1..n : t[i] = s[i]
  /\ IF Allowed(c) THEN m = n + 1 /\ t[m] = time ELSE m = n

LEMMA CountsTimes ==
  ASSUME NEW s, NEW n, NEW b, NEW time, NEW t, NEW m, NEW c,
         Times(s, n, b, time), Counts(s, n, b, time, t, m, c)
  PROVE  Times(t, m, c, time) /\ b.start <= c.start /\ n <= m
BY ConsoleAssumption DEF Times, Counts, Allowed, Budgets

\* A line keeps the window, or opens the next.
LEMMA CountsWindow ==
  ASSUME NEW s, NEW n, NEW b, NEW time, NEW t, NEW m, NEW c,
         Times(s, n, b, time), Counts(s, n, b, time, t, m, c),
         NEW w, Window(s, n, b, w)
  PROVE  Window(t, m, c, w) \/ Window(t, m, c, n)
<1> USE ConsoleAssumption
<1>1. /\ n \in Nat /\ time \in Nat /\ b.start \in Int /\ b.count \in Nat /\ b.total \in Nat
      /\ b.start <= time /\ w \in Nat /\ w <= n
      /\ m \in Nat /\ n <= m /\ m <= n + 1
      /\ \A i \in 1..n : s[i] \in Nat /\ s[i] <= time
  BY DEF Times, Window, Budgets, Counts
<1>2. CASE time - b.start >= Minute
  <2>1. c.start = time /\ c.count = 1 /\ c.total = b.total + 1
    BY <1>2 DEF Counts
  <2>2. ASSUME NEW i \in 1..n, s[i] + Minute > time
        PROVE  n - i + 1 < CommandsPerMinute
    <3>1. ~ (i <= w)
      BY <1>1, <1>2, <2>2 DEF Window
    <3>2. i # w + 1
      BY <1>1, <1>2, <2>2, <3>1 DEF Window
    <3> QED BY <1>1, <3>1, <3>2 DEF Window
  <2>3. m - n <= c.count /\ m - n <= CommandsPerMinute
    BY <1>1, <2>1
  <2>4. n < m => t[n + 1] = c.start
    BY <1>1, <2>1 DEF Counts
  <2>5. n = m => c.total > SessionCommands
    BY <1>1, <2>1 DEF Counts, Allowed
  <2>6. \A i \in 1..n : t[i] = s[i]
    BY DEF Counts
  <2> QED BY <1>1, <2>1, <2>2, <2>3, <2>4, <2>5, <2>6 DEF Window
<1>3. CASE ~ (time - b.start >= Minute)
  <2>1. c.start = b.start /\ c.count = b.count + 1 /\ c.total = b.total + 1 /\ b.start # -Minute
    BY <1>1, <1>3 DEF Counts
  <2>2. \A i \in 1..n : t[i] = s[i]
    BY DEF Counts
  <2>3. CASE Allowed(c)
    <3>1. w < n /\ m = n + 1 /\ c.count <= CommandsPerMinute
      BY <1>1, <2>1, <2>3 DEF Window, Allowed, Counts
    <3>2. n - w <= b.count
      BY DEF Window
    <3> QED BY <1>1, <2>1, <2>2, <3>1, <3>2 DEF Window
  <2>4. CASE ~ Allowed(c)
    <3>1. m = n
      BY <2>4 DEF Counts
    <3> QED BY <1>1, <2>1, <2>2, <3>1 DEF Window
  <2> QED BY <2>3, <2>4
<1> QED BY <1>2, <1>3

LEMMA WithinSize ==
  ASSUME NEW s, NEW n \in Nat, NEW i \in 1..n
  PROVE  Cardinality(Within(s, n, i)) \in Nat /\ Cardinality(Within(s, n, i)) <= n - i + 1
<1>1. Within(s, n, i) \in SUBSET (i..n)
  BY DEF Within
<1>2. IsFiniteSet(i..n) /\ Cardinality(i..n) = n - i + 1
  BY FS_Interval
<1> QED BY <1>1, <1>2, FS_Subset, FS_CardinalityType

Rare(s, n) == \A i \in 1..n : Cardinality(Within(s, n, i)) < 2 * CommandsPerMinute

\* No minute has more than two windows' commands, less one.
LEMMA CountsRare ==
  ASSUME NEW s, NEW n, NEW b, NEW time, NEW t, NEW m, NEW c,
         Times(s, n, b, time), Counts(s, n, b, time, t, m, c),
         NEW w, Window(s, n, b, w), Rare(s, n)
  PROVE  Rare(t, m)
<1>1. PICK v : v <= n /\ Window(t, m, c, v)
  <2>1. w <= n /\ n <= n
    BY DEF Window, Times
  <2>2. Window(t, m, c, w) \/ Window(t, m, c, n)
    BY CountsWindow
  <2> QED BY <2>1, <2>2
<1>2. Times(t, m, c, time) /\ n <= m /\ n \in Nat
  BY CountsTimes DEF Times
<1>3. m \in Nat /\ time \in Nat /\ c.start \in Int /\ c.start <= time /\ v \in Nat /\ v <= m
      /\ CommandsPerMinute \in Nat \ {0} /\ Minute \in Nat
  BY <1>1, <1>2, ConsoleAssumption DEF Times, Window, Budgets
<1> SUFFICES ASSUME NEW i \in 1..m
             PROVE  Cardinality(Within(t, m, i)) < 2 * CommandsPerMinute
  BY DEF Rare
<1>4. t[i] \in Nat
  BY <1>2 DEF Times
<1>5. Cardinality(Within(t, m, i)) \in Nat /\ Cardinality(Within(t, m, i)) <= m - i + 1
  BY <1>3, WithinSize
<1>6. CASE i > v
  BY <1>1, <1>3, <1>5, <1>6 DEF Window
<1>7. CASE i <= v /\ t[i] + Minute > c.start
  <2>1. v - i + 1 < CommandsPerMinute /\ m - v <= CommandsPerMinute
    BY <1>1, <1>3, <1>7 DEF Window
  <2> QED BY <1>3, <1>5, <2>1
<1>8. CASE i <= v /\ t[i] + Minute <= c.start
  <2>1. i \in 1..n /\ \A j \in 1..n : t[j] = s[j]
    BY <1>1, <1>2, <1>3, <1>8 DEF Counts
  <2>2. \A j \in 1..m : j <= n \/ t[j] = time
    BY <1>2 DEF Counts
  <2>3. Within(t, m, i) = Within(s, n, i)
    <3>1. Within(t, m, i) \subseteq Within(s, n, i)
      BY <1>2, <1>3, <1>4, <1>8, <2>1, <2>2 DEF Within
    <3>2. Within(s, n, i) \subseteq Within(t, m, i)
      BY <1>2, <1>3, <2>1 DEF Within
    <3> QED BY <3>1, <3>2
  <2> QED BY <2>1, <2>3 DEF Rare
<1> QED BY <1>3, <1>4, <1>6, <1>7, <1>8

\* The budget changes when a line is run, and no time passes then.
LineRuns ==
  /\ now' = now
  /\ budget' = NextBudget
  /\ ran' = IF Refused THEN ran ELSE Append(ran, now)

NoLine == UNCHANGED <<budget, ran>> /\ now' \in {now, now + 1}

LEMMA ConsoleBudget ==
  ASSUME NEW oks, ConsoleStep(oks), now' = now
  PROVE  NoLine \/ LineRuns
BY DEF ConsoleStep, Greet, TakeByte, RunLine, NoLine, LineRuns, historyVars

LEMMA NextBudgets ==
  ASSUME [Next]_vars
  PROVE  NoLine \/ LineRuns
<1> USE DEF NoLine, guardVars, consoleVars, historyVars, timeVars, readVars
<1>1. CASE PlainNext
  <2>1. CASE ReadPlain \/ Receive \/ Handshake \/ StartProbe
    BY <2>1 DEF ReadPlain, Receive, Handshake, StartProbe
  <2>2. CASE ReadRefused \/ ReadFails
    BY <2>2 DEF ReadRefused, ReadFails, Fails, Serve, StreamFails
  <2>3. CASE FirstByte \/ Prefix
    BY <2>3 DEF FirstByte, Prefix, Choose, ChooseBrief, Serve
  <2>4. CASE AnswerRequest \/ ServiceReturns
    BY <2>4 DEF AnswerRequest, ServiceReturns
  <2>5. CASE ServeLines
    BY <2>5, ConsoleBudget DEF ServeLines
  <2> QED BY <1>1, <2>1, <2>2, <2>3, <2>4, <2>5 DEF PlainNext, PlainStep
<1>2. CASE SSHDo(SSHStep)
  <2>1. CASE ReaderStep
    BY <2>1 DEF ReaderStep, BeginPacket, AwaitPacket, LoopFails, Resume
  <2>2. CASE MainStep
    BY <2>2 DEF MainStep, Authenticate, ClearPhase, ExtendDeadline, TakeChannel, Finish,
                WaitFinished
  <2>3. CASE DenyGlobal \/ DrainRequest
    BY <2>3 DEF DenyGlobal, DrainRequest
  <2>4. CASE TakeRequest \/ Exec
    BY <2>4 DEF TakeRequest, Serve, Exec
  <2>5. CASE Shell
    <3>1. now' = now
      BY <2>5 DEF Shell
    <3>2. (\E oks : ConsoleStep(oks)) \/ StreamFails \/ UNCHANGED consoleVars
      BY <2>5 DEF Shell
    <3> QED BY <3>1, <3>2, ConsoleBudget DEF StreamFails
  <2> QED BY <1>2, <2>1, <2>2, <2>3, <2>4, <2>5 DEF SSHDo, SSHStep, ChanStep
<1>3. CASE Around(Pass) \/ Around(Expire) \/ Around(Leave)
  BY <1>3 DEF Around, Pass, Tick, Expire, Leave
<1>4. CASE PeerSends
  BY <1>4 DEF PeerSends, Send
<1>5. CASE SSHDo(Packet)
  BY <1>5 DEF SSHDo, Packet
<1>6. CASE UNCHANGED vars
  BY <1>6 DEF vars
<1> QED BY <1>1, <1>2, <1>3, <1>4, <1>5, <1>6 DEF Next, Run, Peer

Budget ==
  /\ ran \in Seq(Nat)
  /\ Times(ran, Len(ran), budget, now)
  /\ \E w : Window(ran, Len(ran), budget, w)
  /\ Rare(ran, Len(ran))

LEMMA NextBudgetInv ==
  ASSUME Budget, [Next]_vars
  PROVE  Budget'
<1>1. CASE NoLine
  <2>1. ran' = ran /\ budget' = budget /\ now' \in Nat /\ now <= now'
    BY <1>1 DEF NoLine, Budget, Times
  <2>2. Times(ran, Len(ran), budget, now')
    BY <2>1 DEF Budget, Times, Budgets
  <2> QED BY <2>1, <2>2 DEF Budget
<1>2. CASE LineRuns
  <2>1. /\ now \in Nat /\ budget \in Budgets /\ ran \in Seq(Nat) /\ Len(ran) \in Nat
    BY DEF Budget, Times
  <2>2. budget' \in Budgets /\ budget'.total = budget.total + 1
        /\ IF now - budget.start >= Minute THEN budget'.start = now /\ budget'.count = 1
           ELSE budget'.start = budget.start /\ budget'.count = budget.count + 1
    BY <1>2, <2>1 DEF LineRuns, NextBudget, Budgets
  <2>3. Refused <=> ~ Allowed(budget')
    BY <1>2 DEF LineRuns, Refused
  <2>4. ran' \in Seq(Nat) /\ Counts(ran, Len(ran), budget, now, ran', Len(ran'), budget')
    <3>1. CASE Refused
      <4>1. ran' = ran
        BY <1>2, <3>1 DEF LineRuns
      <4> QED BY <2>1, <2>2, <2>3, <3>1, <4>1 DEF Counts
    <3>2. CASE ~ Refused
      <4>1. ran' = Append(ran, now)
        BY <1>2, <3>2 DEF LineRuns
      <4>2. /\ ran' \in Seq(Nat) /\ Len(ran') = Len(ran) + 1 /\ ran'[Len(ran')] = now
            /\ \A i \in 1..Len(ran) : ran'[i] = ran[i]
        BY <2>1, <4>1
      <4> QED BY <2>2, <2>3, <3>2, <4>2 DEF Counts
    <3> QED BY <3>1, <3>2
  <2>5. Times(ran', Len(ran'), budget', now)
    BY <2>4, CountsTimes DEF Budget
  <2>6. \E w : Window(ran', Len(ran'), budget', w)
    BY <2>4, CountsWindow DEF Budget
  <2>7. Rare(ran', Len(ran'))
    BY <2>4, CountsRare DEF Budget
  <2> QED BY <1>2, <2>4, <2>5, <2>6, <2>7 DEF Budget, LineRuns
<1> QED BY <1>1, <1>2, NextBudgets

\* In any minute fewer than twice the commands of a minute are run, and in a
\* session at most the budget of the session, for every budget and any times.
THEOREM BudgetCorrect == Spec => []CommandsBounded
<1>1. Init => Budget
  <2> SUFFICES ASSUME Init PROVE Budget
    OBVIOUS
  <2>1. ran = <<>> /\ budget = [start |-> -Minute, count |-> 0, total |-> 0] /\ now = 0
    BY DEF Init, ConsoleInit, GuardInit
  <2>2. ran \in Seq(Nat) /\ Len(ran) = 0
    BY <2>1
  <2>3. Times(ran, 0, budget, now)
    BY <2>1, ConsoleAssumption DEF Times, Budgets
  <2>4. Window(ran, 0, budget, 0)
    BY <2>1, ConsoleAssumption DEF Window
  <2>5. Rare(ran, 0)
    BY DEF Rare
  <2> QED BY <2>2, <2>3, <2>4, <2>5 DEF Budget
<1>2. Budget /\ [Next]_vars => Budget'
  BY NextBudgetInv
<1>3. Budget => CommandsBounded
  BY DEF Budget, Times, Rare, Within, CommandsBounded
<1> QED BY <1>1, <1>2, <1>3, PTL DEF Spec

(***************************************************************************)
(* The goroutines of an SSH connection.                                    *)
(***************************************************************************)
Session ==
  /\ accepted \in BOOLEAN
  /\ opened = IF accepted THEN 1 ELSE 0
  /\ chan # "none" => accepted
  /\ main = "auth" => ~ accepted
  /\ main = "done" => chan \in {"none", "finished"}

LEMMA NextSession ==
  ASSUME Session, [Next]_vars
  PROVE  Session'
<1> USE DEF Session, sshVars, channelVars
<1>1. CASE PlainNext \/ PeerSends
  BY <1>1 DEF PlainNext, PeerSends
<1>2. CASE SSHDo(SSHStep)
  <2>1. CASE ReaderStep
    BY <2>1 DEF ReaderStep, BeginPacket, AwaitPacket, LoopFails, Resume
  <2>2. CASE Authenticate
    BY <2>2 DEF Authenticate
  <2>3. CASE ClearPhase \/ ExtendDeadline
    BY <2>3 DEF ClearPhase, ExtendDeadline
  <2>4. CASE TakeChannel
    <3>1. main = "select"
          /\ \/ /\ ~ accepted /\ accepted' = TRUE /\ opened' = opened + 1
                /\ chan' = "requests" /\ main' = main
             \/ UNCHANGED <<accepted, opened, chan>> /\ main' \in {main, "wait"}
      BY <2>4 DEF TakeChannel
    <3>2. CASE ~ accepted /\ accepted' = TRUE /\ opened' = opened + 1
      BY <3>1, <3>2
    <3>3. CASE UNCHANGED <<accepted, opened, chan>> /\ main' \in {main, "wait"}
      BY <3>1, <3>3
    <3> QED BY <3>1, <3>2, <3>3
  <2>5. CASE Finish \/ WaitFinished
    <3>1. UNCHANGED <<chan, accepted, opened>> /\ main' \in {"wait", "done"}
      BY <2>5 DEF Finish, WaitFinished
    <3>2. main' = "done" => chan \in {"none", "finished"}
      BY <2>5 DEF Finish, WaitFinished
    <3> QED BY <3>1, <3>2
  <2>6. CASE DenyGlobal \/ DrainRequest
    BY <2>6 DEF DenyGlobal, DrainRequest
  <2>7. CASE TakeRequest
    <3>1. UNCHANGED <<main, accepted, opened>> /\ chan = "requests"
      BY <2>7 DEF TakeRequest
    <3> QED BY <3>1
  <2>8. CASE Shell
    <3>1. UNCHANGED <<main, accepted, opened>> /\ chan = "shell"
      BY <2>8 DEF Shell
    <3> QED BY <3>1
  <2>9. CASE Exec
    BY <2>9 DEF Exec
  <2> QED BY <1>2, <2>1, <2>2, <2>3, <2>4, <2>5, <2>6, <2>7, <2>8, <2>9
    DEF SSHDo, SSHStep, MainStep, ChanStep
<1>3. CASE Around(Pass) \/ Around(Expire) \/ Around(Leave)
  BY <1>3 DEF Around
<1>4. CASE SSHDo(Packet)
  BY <1>4 DEF SSHDo, Packet
<1>5. CASE UNCHANGED vars
  BY <1>5 DEF vars
<1> QED BY <1>1, <1>2, <1>3, <1>4, <1>5 DEF Next, Run, Peer

\* One goroutine at most ever uses a session's state, and none does when the
\* connection is reported as ended.
THEOREM SessionCorrect == Spec => []SessionEndsFirst
<1>1. Init => Session
  BY DEF Init, SSHInit, Session
<1>2. Session /\ [Next]_vars => Session'
  BY NextSession
<1>3. Session => SessionEndsFirst
  BY DEF Session, SessionEndsFirst
<1> QED BY <1>1, <1>2, <1>3, PTL DEF Spec

(***************************************************************************)
(* Deadlines: each action of the connection on the guarded socket.         *)
(***************************************************************************)
LEMMA BeginTypes ==
  ASSUME GuardTypes, UNCHANGED <<now, phase>>, BeginRead \/ ComputeDeadline \/ SetDeadline
  PROVE  GuardTypes'
BY DeadlineIs DEF GuardTypes, BeginRead, ComputeDeadline, SetDeadline

LEMMA StopTypes ==
  ASSUME GuardTypes, now' = now, phase' \in Nat, StopReading
  PROVE  GuardTypes'
BY DEF GuardTypes, StopReading

LEMMA SameTypes ==
  ASSUME GuardTypes, now' = now, phase' \in Nat, UNCHANGED readVars
  PROVE  GuardTypes'
BY DEF GuardTypes, readVars

LEMMA NextGuardTypes ==
  ASSUME GuardTypes, [Next]_vars
  PROVE  GuardTypes'
<1> USE GuardAssumption, PlainAssumption DEF timeVars, guardVars
<1>t. now \in Nat /\ phase \in Nat
  BY DEF GuardTypes
<1>1. CASE PlainNext
  <2>1. CASE ReadPlain
    BY <2>1, BeginTypes DEF ReadPlain
  <2>2. CASE Receive
    BY <2>2, <1>t, StopTypes DEF Receive, Returned, StopReading
  <2>3. CASE Handshake
    BY <2>3, <1>t, StopTypes DEF Handshake
  <2>4. CASE ReadFails
    <3>1. phase' \in {0, phase}
      BY <2>4 DEF ReadFails, Fails
    <3> QED BY <2>4, <3>1, <1>t, StopTypes DEF ReadFails
  <2>5. CASE ReadRefused
    BY <2>5, <1>t, SameTypes DEF ReadRefused, Fails
  <2>6. CASE StartProbe
    <3>1. phase' = now + ProbeTimeout
      BY <2>6 DEF StartProbe
    <3> QED BY <2>6, <3>1, <1>t, SameTypes DEF StartProbe
  <2>7. CASE FirstByte
    <3>1. phase' \in {0, now + HandshakeTimeout}
      BY <2>7 DEF FirstByte
    <3> QED BY <2>7, <3>1, <1>t, SameTypes DEF FirstByte
  <2>8. CASE Prefix
    <3>1. phase' \in {0, phase}
      BY <2>8 DEF Prefix
    <3> QED BY <2>8, <3>1, <1>t, SameTypes DEF Prefix
  <2>9. CASE AnswerRequest \/ ServeLines \/ ServiceReturns
    BY <2>9, <1>t, SameTypes DEF AnswerRequest, ServeLines, ServiceReturns
  <2> QED BY <1>1, <2>1, <2>2, <2>3, <2>4, <2>5, <2>6, <2>7, <2>8, <2>9 DEF PlainNext, PlainStep
<1>2. CASE SSHDo(SSHStep)
  <2>1. CASE BeginPacket \/ AwaitPacket
    BY <2>1, BeginTypes DEF BeginPacket, AwaitPacket
  <2>2. CASE LoopFails \/ Authenticate
    BY <2>2, <1>t, StopTypes DEF LoopFails, EndLoop, Authenticate
  <2>3. CASE Resume \/ ClearPhase \/ TakeChannel \/ Finish \/ WaitFinished
    BY <2>3, <1>t, SameTypes DEF Resume, ClearPhase, TakeChannel, Finish, WaitFinished, readVars
  <2>4. CASE ExtendDeadline
    BY <2>4, DeadlineIs DEF ExtendDeadline, GuardTypes
  <2>5. CASE DenyGlobal \/ DrainRequest \/ TakeRequest \/ Shell \/ Exec
    BY <2>5, <1>t, SameTypes DEF DenyGlobal, DrainRequest, TakeRequest, Shell, Exec, readVars
  <2> QED BY <1>2, <2>1, <2>2, <2>3, <2>4, <2>5
    DEF SSHDo, SSHStep, ReaderStep, MainStep, ChanStep
<1>3. CASE Around(Pass)
  BY <1>3 DEF Around, Pass, Tick, readVars, GuardTypes
<1>4. CASE Around(Expire) \/ Around(Leave)
  BY <1>4, <1>t, SameTypes DEF Around, Expire, Leave
<1>5. CASE PeerSends
  BY <1>5, <1>t, SameTypes DEF PeerSends, Send, readVars
<1>6. CASE SSHDo(Packet)
  BY <1>6, <1>t, StopTypes DEF SSHDo, Packet, Returned, StopReading
<1>7. CASE UNCHANGED vars
  BY <1>7, <1>t, SameTypes DEF vars, readVars
<1> QED BY <1>1, <1>2, <1>3, <1>4, <1>5, <1>6, <1>7 DEF Next, Run, Peer

(***************************************************************************)
(* The bytes of a plain connection.  Each lemma is one way in which they   *)
(* move on: from the socket to the buffer, from the buffer to the reader   *)
(* of lines, and from the peer to the socket.                              *)
(***************************************************************************)
Fills(p, q, r, n) ==
  p \o q \o r = p \o (q \o SubSeq(r, 1, n)) \o SubSeq(r, n + 1, Len(r))

Takes(p, q, r) == p \o q \o r = Append(p, Head(q)) \o Tail(q) \o r

Grows(p, q, r, x) == (p \o q \o r) \o x = p \o q \o (r \o x)

Assoc(p, q, r) == (p \o q) \o r = p \o (q \o r)

LEMMA AssocSeq ==
  ASSUME NEW p \in Seq(Octets), NEW q \in Seq(Octets), NEW r \in Seq(Octets)
  PROVE  Assoc(p, q, r)
BY SMTT(30), ConcatAssociative DEF Assoc

Splits(r, n) == r = SubSeq(r, 1, n) \o SubSeq(r, n + 1, Len(r))

LEMMA SplitSeq ==
  ASSUME NEW r \in Seq(Octets), NEW n \in 0..Len(r)
  PROVE  Splits(r, n)
<1>1. 1 \in 1..Len(r) + 1 /\ n \in 1 - 1 .. Len(r) /\ Len(r) \in n .. Len(r)
  OBVIOUS
<1>2. SubSeq(r, 1, n) \o SubSeq(r, n + 1, Len(r)) = SubSeq(r, 1, Len(r))
  BY <1>1, ConcatAdjacentSubSeq
<1>3. SubSeq(r, 1, Len(r)) = r
  BY SubSeqFull
<1> QED BY <1>2, <1>3 DEF Splits

LEMMA FillsBuffer ==
  ASSUME NEW p \in Seq(Octets), NEW q \in Seq(Octets), NEW r \in Seq(Octets), NEW n \in 0..Len(r)
  PROVE  /\ Fills(p, q, r, n)
         /\ SubSeq(r, 1, n) \in Seq(Octets) /\ SubSeq(r, n + 1, Len(r)) \in Seq(Octets)
         /\ Len(SubSeq(r, 1, n)) = n
<1>1. /\ SubSeq(r, 1, n) \in Seq(Octets) /\ SubSeq(r, n + 1, Len(r)) \in Seq(Octets)
      /\ Len(SubSeq(r, 1, n)) = n
  OBVIOUS
<1>2. PICK a \in Seq(Octets), b \in Seq(Octets) :
         a = SubSeq(r, 1, n) /\ b = SubSeq(r, n + 1, Len(r))
  BY <1>1
<1>3. r = a \o b
  BY <1>2, SplitSeq DEF Splits
<1>4. PICK c \in Seq(Octets) : c = p \o q
  <2>1. p \o q \in Seq(Octets)
    OBVIOUS
  <2> QED BY <2>1, Zenon
<1>5. Assoc(c, a, b) /\ Assoc(p, q, a)
  BY <1>4, AssocSeq
<1>6. p \o q \o r = p \o (q \o a) \o b
  BY <1>3, <1>4, <1>5 DEF Assoc
<1> QED BY <1>1, <1>2, <1>6 DEF Fills

LEMMA TakesByte ==
  ASSUME NEW p \in Seq(Octets), NEW q \in Seq(Octets), NEW r \in Seq(Octets), q # <<>>
  PROVE  /\ Takes(p, q, r)
         /\ Append(p, Head(q)) \in Seq(Octets) /\ Tail(q) \in Seq(Octets)
<1>1. Head(q) \in Octets /\ Tail(q) \in Seq(Octets) /\ <<Head(q)>> \in Seq(Octets)
  OBVIOUS
<1>2. q = <<Head(q)>> \o Tail(q)
  OBVIOUS
<1>3. Append(p, Head(q)) = p \o <<Head(q)>>
  BY <1>1, AppendIsConcat
<1>4. (p \o <<Head(q)>>) \o Tail(q) = p \o (<<Head(q)>> \o Tail(q))
  BY <1>1, ConcatAssociative
<1> QED BY <1>1, <1>2, <1>3, <1>4 DEF Takes

LEMMA GrowsWire ==
  ASSUME NEW p \in Seq(Octets), NEW q \in Seq(Octets), NEW r \in Seq(Octets), NEW x \in Seq(Octets)
  PROVE  Grows(p, q, r, x)
<1>1. PICK c \in Seq(Octets) : c = p \o q
  <2>1. p \o q \in Seq(Octets)
    OBVIOUS
  <2> QED BY <2>1, Zenon
<1>2. Assoc(c, r, x)
  BY AssocSeq
<1> QED BY <1>1, <1>2 DEF Assoc, Grows

\* A read of a plain connection waits where the code wants more bytes, and every
\* byte the peer has sent is in one of three places, in order.
Stream ==
  /\ typed \in Seq(Octets) /\ buf \in Seq(Octets) /\ wire \in Seq(Octets) /\ sent \in Seq(Octets)
  /\ readBytes \in 0..MaxRead
  /\ reader = "blocked" => Waiting
  /\ sent = typed \o buf \o wire

LEMMA SameStream ==
  ASSUME Stream, UNCHANGED <<typed, buf, wire, sent, readBytes>>,
         \/ reader' # "blocked"
         \/ UNCHANGED <<reader, stage, console>>
  PROVE  Stream'
BY DEF Stream, Waiting, Complete

\* What one Read delivers.
LEMMA ReceiveStream ==
  ASSUME Stream, Receive
  PROVE  Stream' /\ Len(buf') = Len(buf) + (readBytes' - readBytes) /\ readBytes' > readBytes
<1> DEFINE n == Earliest({Len(wire), MaxRead - readBytes})
<1> USE GuardAssumption
<1>1. Len(wire) \in Nat /\ readBytes \in Nat /\ MaxRead \in Nat
  BY DEF Stream
<1>2. n <= Len(wire) /\ n \in {Len(wire), MaxRead - readBytes}
  <2> DEFINE S == {Len(wire), MaxRead - readBytes}
  <2>1. \E t \in S : \A u \in S : t <= u
    BY <1>1
  <2>2. Len(wire) \in S
    OBVIOUS
  <2> HIDE DEF S
  <2>3. Earliest(S) \in S /\ Earliest(S) <= Len(wire)
    BY <2>1, <2>2, EarliestIs
  <2> QED BY <2>3 DEF S
<1> HIDE DEF n
<1>3. /\ n > 0 /\ readBytes' = readBytes + n /\ readBytes' <= MaxRead /\ reader' = "none"
      /\ buf' = buf \o SubSeq(wire, 1, n) /\ wire' = SubSeq(wire, n + 1, Len(wire))
      /\ UNCHANGED <<typed, sent>>
  BY DEF Receive, Returned, historyVars, n
<1>4. n \in 0..Len(wire)
  BY <1>1, <1>2, <1>3
<1>5. /\ Fills(typed, buf, wire, n) /\ Len(SubSeq(wire, 1, n)) = n
      /\ SubSeq(wire, 1, n) \in Seq(Octets) /\ SubSeq(wire, n + 1, Len(wire)) \in Seq(Octets)
  BY <1>4, FillsBuffer DEF Stream
<1>6. readBytes' \in 0..MaxRead /\ readBytes' > readBytes /\ readBytes' - readBytes = n
  BY <1>1, <1>3, <1>4
<1>7. buf' \in Seq(Octets) /\ Len(buf') = Len(buf) + n
  BY <1>3, <1>5 DEF Stream
<1>8. sent' = typed' \o buf' \o wire'
  BY <1>3, <1>5 DEF Stream, Fills
<1> QED BY <1>3, <1>5, <1>6, <1>7, <1>8 DEF Stream

\* The reader of lines takes bytes from the buffer in order.
LEMMA ConsoleStream ==
  ASSUME Stream, ServeLines
  PROVE  Stream' /\ service' = service
<1>1. UNCHANGED <<wire, sent, readBytes, reader, stage>> /\ stage = "serve"
  BY DEF ServeLines, plainVars, readVars
<1>2. ASSUME NEW ok, Greet(ok) \/ \E quit \in BOOLEAN : RunLine(quit, ok)
      PROVE  Stream' /\ service' = service
  <2>1. UNCHANGED <<typed, buf, service>> /\ console # "read"
    BY <1>2 DEF Greet, RunLine, historyVars
  <2>2. reader # "blocked"
    BY <1>1, <2>1 DEF Stream, Waiting
  <2> QED BY <1>1, <2>1, <2>2, SameStream
<1>3. ASSUME NEW ok, TakeByte(ok)
      PROVE  Stream' /\ service' = service
  <2>1. /\ buf # <<>> /\ buf' = Tail(buf) /\ typed' = Append(typed, Head(buf))
        /\ service' = service
    BY <1>3 DEF TakeByte
  <2>2. reader # "blocked"
    BY <1>1, <2>1 DEF Stream, Waiting
  <2>3. Takes(typed, buf, wire) /\ typed' \in Seq(Octets) /\ buf' \in Seq(Octets)
    BY <2>1, TakesByte DEF Stream
  <2>4. sent' = typed' \o buf' \o wire'
    BY <1>1, <2>1, <2>3 DEF Stream, Takes
  <2> QED BY <1>1, <2>1, <2>2, <2>3, <2>4 DEF Stream
<1> QED BY <1>2, <1>3 DEF ServeLines, ConsoleStep

\* Only a silent probe's end empties the buffer, which is empty then.
LEMMA FailsStream ==
  ASSUME Stream, NEW timeout, Fails(timeout), UNCHANGED readBytes, reader' # "blocked",
         timeout => reader = "blocked"
  PROVE  Stream'
<1>1. UNCHANGED <<typed, wire, sent>>
  BY DEF Fails, Serve, StreamFails, historyVars, consoleVars, plainVars
<1>2. buf' = buf
  <2>1. CASE stage = "probe" /\ timeout /\ buf' = <<>>
    BY <2>1 DEF Stream, Waiting
  <2> QED BY <2>1 DEF Fails, StreamFails, consoleVars
<1> QED BY <1>1, <1>2, SameStream

LEMMA SendPiece ==
  ASSUME kind \in Kinds \ {"ssh"}, PeerSends, sends \in Nat
  PROVE  \E p \in Seq(Octets) : wire' = wire \o p /\ sent' = sent \o p
<1> DEFINE pieces == IF service \in {"terminal", "ftp"} THEN Fragments[kind][sends + 1] ELSE Openings
<1>1. pieces \subseteq Seq(Octets)
  <2>1. sends + 1 \in 1..MaxSends
    BY PlainAssumption DEF PeerSends, Send
  <2> QED BY <2>1, ConnectionAssumption DEF Octets
<1>2. PICK p \in pieces : wire' = wire \o p /\ sent' = sent \o p
  BY DEF PeerSends, Send
<1> QED BY <1>1, <1>2

LEMMA SendStream ==
  ASSUME Stream, kind \in Kinds \ {"ssh"}, PeerSends, sends \in Nat
  PROVE  Stream'
<1>1. PICK p \in Seq(Octets) : wire' = wire \o p /\ sent' = sent \o p
  BY SendPiece
<1>2. UNCHANGED <<typed, buf, readBytes, reader, stage, console>>
  BY DEF PeerSends, Send, guardVars, consoleVars
<1>3. Grows(typed, buf, wire, p)
  BY GrowsWire DEF Stream
<1>4. sent' = typed' \o buf' \o wire'
  BY <1>1, <1>2, <1>3 DEF Stream, Grows
<1>5. wire' \in Seq(Octets) /\ sent' \in Seq(Octets)
  BY <1>1 DEF Stream
<1> QED BY <1>2, <1>4, <1>5 DEF Stream, Waiting, Complete

LEMMA KindStays ==
  ASSUME [Next]_vars
  PROVE  kind' = kind
BY DEF Next, Run, Peer, PlainNext, PeerSends, SSHDo, Around, vars

\* A plain connection stays one, and its bytes in order.
LEMMA NextStream ==
  ASSUME kind \in Kinds \ {"ssh"}, sends \in Nat, Stream, [Next]_vars
  PROVE  kind' = kind /\ sends' \in Nat /\ Stream'
<1> USE DEF guardVars, plainVars, consoleVars, historyVars
<1>1. CASE PlainNext
  <2> kind' = kind
    BY <1>1 DEF PlainNext
  <2>1. CASE ReadPlain
    <3>1. UNCHANGED <<typed, buf, wire, sent, readBytes, stage, console, sends>> /\ Waiting
      BY <2>1 DEF ReadPlain
    <3> QED BY <3>1 DEF Stream, Waiting, Complete
  <2>2. CASE ReadRefused
    <3>1. reader' = reader /\ reader = "none" /\ readBytes' = readBytes /\ Fails(FALSE)
      BY <2>2 DEF ReadRefused, readVars
    <3>2. sends' = sends
      BY <3>1 DEF Fails
    <3> QED BY <3>1, <3>2, FailsStream
  <2>3. CASE Receive
    <3>1. sends' = sends
      BY <2>3 DEF Receive
    <3> QED BY <2>3, <3>1, ReceiveStream
  <2>4. CASE ReadFails
    <3>1. /\ reader' = "none" /\ readBytes' = readBytes
          /\ (Fails(TRUE) /\ reader = "blocked") \/ Fails(FALSE)
      BY <2>4 DEF ReadFails, StopReading, TimedOut
    <3>2. sends' = sends
      BY <3>1 DEF Fails
    <3> QED BY <3>1, <3>2, FailsStream
  <2>5. CASE Handshake
    <3>1. UNCHANGED <<typed, buf, wire, sent, readBytes, sends>> /\ reader' = "none"
      BY <2>5 DEF Handshake, StopReading
    <3> QED BY <3>1, SameStream
  <2>6. CASE StartProbe \/ FirstByte
    <3>1. UNCHANGED <<typed, buf, wire, sent, readBytes, sends, reader>> /\ ~ Waiting
      BY <2>6 DEF StartProbe, FirstByte, ChooseBrief, Choose, Serve, Waiting, readVars
    <3> QED BY <3>1, SameStream DEF Stream
  <2>7. CASE Prefix
    <3>1. UNCHANGED <<typed, buf, wire, sent, readBytes, sends, reader>>
      BY <2>7 DEF Prefix, ChooseBrief, Choose, Serve, readVars
    <3>2. ~ Waiting
      BY <2>7 DEF Prefix, Waiting, Stream
    <3> QED BY <3>1, <3>2, SameStream DEF Stream
  <2>8. CASE AnswerRequest \/ ServiceReturns
    <3>1. UNCHANGED <<typed, buf, wire, sent, readBytes, sends, reader>> /\ ~ Waiting
      BY <2>8 DEF AnswerRequest, ServiceReturns, Waiting, readVars
    <3> QED BY <3>1, SameStream DEF Stream
  <2>9. CASE ServeLines
    <3>1. sends' = sends
      BY <2>9 DEF ServeLines
    <3> QED BY <2>9, <3>1, ConsoleStream
  <2> QED BY <1>1, <2>1, <2>2, <2>3, <2>4, <2>5, <2>6, <2>7, <2>8, <2>9 DEF PlainNext, PlainStep
<1>2. CASE SSHDo(SSHStep) \/ SSHDo(Packet)
  BY <1>2 DEF SSHDo
<1>3. CASE Around(Pass) \/ Around(Expire) \/ Around(Leave)
  <2>1. UNCHANGED <<kind, typed, buf, wire, sent, readBytes, sends, reader, stage, console>>
    BY <1>3 DEF Around, Pass, Tick, Expire, Leave, readVars
  <2> QED BY <2>1, SameStream
<1>4. CASE PeerSends
  <2>1. sends' \in Nat /\ kind' = kind
    BY <1>4 DEF PeerSends, Send
  <2> QED BY <1>4, <2>1, SendStream
<1>5. CASE UNCHANGED vars
  <2>1. UNCHANGED <<kind, typed, buf, wire, sent, readBytes, sends, reader, stage, console>>
    BY <1>5 DEF vars
  <2> QED BY <2>1, SameStream
<1> QED BY <1>1, <1>2, <1>3, <1>4, <1>5 DEF Next, Run, Peer

\* The kind of a connection never changes, and what is true of plain connections
\* is true of no SSH connection.
PlainInv == kind \in Kinds /\ (kind # "ssh" => sends \in Nat /\ Stream)

LEMMA InitStream == Init => PlainInv
<1> SUFFICES ASSUME Init PROVE PlainInv
  OBVIOUS
<1>1. /\ kind \in Kinds /\ sends = 0 /\ readBytes = 0 /\ reader = "none"
      /\ typed = <<>> /\ buf = <<>> /\ wire = <<>> /\ sent = <<>>
  BY DEF Init, GuardInit, ConsoleInit, PlainInit
<1>2. <<>> \in Seq(Octets) /\ <<>> = <<>> \o <<>> \o <<>>
  OBVIOUS
<1> QED BY <1>1, <1>2, GuardAssumption DEF PlainInv, Stream

LEMMA NextPlain ==
  ASSUME PlainInv, [Next]_vars
  PROVE  PlainInv'
<1>1. kind' = kind
  BY KindStays
<1> QED BY <1>1, NextStream DEF PlainInv

\* No byte of a plain peer is lost, doubled or reordered on its way to the service,
\* for any stream in any pieces and any budget.
THEOREM StreamCorrect == Spec => []StreamIntact
<1>1. PlainInv => StreamIntact
  BY DEF PlainInv, Stream, StreamIntact
<1> QED BY <1>1, InitStream, NextPlain, PTL DEF Spec

(***************************************************************************)
(* The choice of a service.  What is asked is settled with the first byte, *)
(* unless it is a letter with which a request may begin, and then with the *)
(* fourth.                                                                 *)
(***************************************************************************)
AskedBy(s) ==
  LET first == SubSeq(s, 1, 4)
  IN  CASE s = <<>> -> "terminal"
        [] s # <<>> /\ s[1] = TLSRecord -> "tls"
        [] Len(s) >= 4 /\ first \in Methods -> "http"
        [] Len(s) >= 4 /\ first = Banner -> "ssh"
        [] Len(s) >= 4 /\ Upper(first) = User /\ s[1] = 85 -> "ftp"
        [] OTHER -> "terminal"

Settled(s) == s # <<>> /\ (s[1] \notin Letters \/ Len(s) >= 4)

LEMMA FirstFour ==
  ASSUME NEW s \in Seq(Octets), Len(s) >= 4
  PROVE  LET first == SubSeq(s, 1, 4)
         IN  /\ first \in Seq(Octets) /\ Len(first) = 4 /\ first[1] = s[1]
             /\ first \in Methods => s[1] \in {71, 80, 72, 79, 68}
             /\ first = Banner => s[1] = 83
             /\ Upper(first) = User => s[1] \in {85, 117}
<1> DEFINE first == SubSeq(s, 1, 4)
<1>1. first \in Seq(Octets) /\ Len(first) = 4 /\ first[1] = s[1]
  OBVIOUS
<1>2. \A m \in Methods : m[1] \in {71, 80, 72, 79, 68}
  BY DEF Methods
<1>3. Banner[1] = 83 /\ User[1] = 85
  BY DEF Banner, User
<1> HIDE DEF first
<1>4. Upper(first)[1] = IF first[1] \in 97..122 THEN first[1] - 32 ELSE first[1]
  BY <1>1 DEF Upper
<1>5. first[1] \in 0..255
  <2>1. s[1] \in Octets
    BY ElementOfSeq
  <2> QED BY <1>1, <2>1 DEF Octets
<1>6. Upper(first) = User => s[1] \in {85, 117}
  <2>1. Upper(first) = User => Upper(first)[1] = 85
    BY <1>3
  <2> QED BY <1>1, <1>4, <1>5, <2>1
<1>7. first \in Methods => s[1] \in {71, 80, 72, 79, 68}
  BY <1>1, <1>2
<1>8. first = Banner => s[1] = 83
  BY <1>1, <1>3
<1> QED BY <1>1, <1>6, <1>7, <1>8 DEF first

LEMMA AskedCases ==
  ASSUME NEW s \in Seq(Octets), Settled(s)
  PROVE  LET first == SubSeq(s, 1, 4)
         IN  /\ s[1] = TLSRecord => AskedBy(s) = "tls"
             /\ s[1] \notin Letters \union {TLSRecord} => AskedBy(s) = "terminal"
             /\ s[1] \in Letters /\ first \in Methods => AskedBy(s) = "http"
             /\ s[1] \in Letters /\ first = Banner => AskedBy(s) = "ssh"
             /\ s[1] \in Letters /\ Upper(first) = User => AskedBy(s) = "ftp"
             /\ s[1] \in Letters /\ first \notin Methods \union {Banner} /\ Upper(first) # User
                => AskedBy(s) = "terminal"
<1> DEFINE first == SubSeq(s, 1, 4)
<1>1. Len(s) >= 4 => /\ first \in Methods => s[1] \in {71, 80, 72, 79, 68}
                     /\ first = Banner => s[1] = 83
                     /\ Upper(first) = User => s[1] \in {85, 117}
  BY FirstFour
<1> HIDE DEF first
<1>2. s # <<>> /\ (s[1] \in Letters => Len(s) >= 4)
  BY DEF Settled
<1>3. AskedBy(s) = CASE s = <<>> -> "terminal"
        [] s # <<>> /\ s[1] = TLSRecord -> "tls"
        [] Len(s) >= 4 /\ first \in Methods -> "http"
        [] Len(s) >= 4 /\ first = Banner -> "ssh"
        [] Len(s) >= 4 /\ Upper(first) = User /\ s[1] = 85 -> "ftp"
        [] OTHER -> "terminal"
  BY DEF AskedBy, first
<1>4. CASE s[1] = TLSRecord
  BY <1>1, <1>2, <1>3, <1>4 DEF TLSRecord, Letters, first
<1>5. CASE s[1] \notin Letters \union {TLSRecord}
  BY <1>1, <1>2, <1>3, <1>5 DEF TLSRecord, Letters, first
<1>6. CASE s[1] \in Letters
  BY <1>1, <1>2, <1>3, <1>6 DEF TLSRecord, Letters, first
<1> QED BY <1>4, <1>5, <1>6

\* Once settled, the answer stands.
LEMMA AskedStays ==
  ASSUME NEW s \in Seq(Octets), NEW x \in Seq(Octets), Settled(s),
         NEW t \in Seq(Octets), t = s \o x
  PROVE  Settled(t) /\ AskedBy(t) = AskedBy(s)
<1>1. s # <<>> /\ Len(s) \in Nat /\ Len(x) \in Nat /\ Len(s) # 0
  BY DEF Settled
<1>2. Len(t) = Len(s) + Len(x) /\ t[1] = s[1] /\ t # <<>>
  BY <1>1
<1>3. Len(s) >= 4 => SubSeq(t, 1, 4) = SubSeq(s, 1, 4)
  BY SubSeqOfConcat1
<1>4. Settled(t)
  BY <1>1, <1>2 DEF Settled
<1>5. CASE s[1] \in Letters
  <2>1. Len(s) >= 4 /\ SubSeq(t, 1, 4) = SubSeq(s, 1, 4)
    BY <1>3, <1>5 DEF Settled
  <2> QED BY <1>2, <1>4, <1>5, <2>1, AskedCases
<1>6. CASE s[1] \notin Letters
  BY <1>2, <1>4, <1>6, AskedCases
<1> QED BY <1>5, <1>6

LEMMA AskedIs == Asked = AskedBy(sent)
BY DEF Asked, AskedBy

\* Until a service is chosen nothing is taken from the buffer, which then begins
\* the stream.
Decided ==
  /\ stage \in {"handshake", "start", "probe", "prefix", "http", "serve", "done"}
  /\ stage \in {"handshake", "start", "probe", "prefix"} => service = "none"
  /\ stage \in {"http", "serve"} => service # "none"
  /\ service = "none" => typed = <<>> /\ Len(buf) = readBytes
  /\ stage = "prefix" => buf # <<>> /\ buf[1] \in Letters
  /\ service # "none" => \/ service = "terminal" /\ ~ heard
                         \/ Settled(sent) /\ service = AskedBy(sent)

\* What the buffer asks for is what the stream asks for.
LEMMA BufferDecides ==
  ASSUME Stream, typed = <<>>, Settled(buf)
  PROVE  Settled(sent) /\ AskedBy(sent) = AskedBy(buf)
<1>1. typed \o buf = buf
  BY ConcatEmptySeq DEF Stream
<1>2. sent = buf \o wire
  BY <1>1 DEF Stream
<1> QED BY <1>2, AskedStays DEF Stream

LEMMA SameDecided ==
  ASSUME Decided, UNCHANGED <<typed, buf, sent, service, heard, readBytes>>,
         \/ stage' \in {stage, "done"}
         \/ stage \in {"handshake", "start"} /\ stage' \in {"start", "probe"}
  PROVE  Decided'
BY DEF Decided

LEMMA ReceiveDecided ==
  ASSUME Stream, Decided, Receive
  PROVE  Decided'
<1>1. Len(buf') = Len(buf) + (readBytes' - readBytes) /\ buf' \in Seq(Octets)
      /\ readBytes \in Nat /\ readBytes' \in Nat
  BY ReceiveStream, GuardAssumption DEF Stream
<1>2. /\ UNCHANGED <<typed, sent, service, heard, stage>>
      /\ \E n : buf' = buf \o SubSeq(wire, 1, n)
  BY DEF Receive, historyVars
<1>3. service = "none" => Len(buf') = readBytes'
  BY <1>1 DEF Decided
<1>4. stage = "prefix" => buf' # <<>> /\ buf'[1] \in Letters
  <2> SUFFICES ASSUME stage = "prefix" PROVE buf' # <<>> /\ buf'[1] \in Letters
    OBVIOUS
  <2>1. Len(buf) \in Nat /\ Len(buf) # 0 /\ buf[1] \in Letters /\ buf \in Seq(Octets)
    BY DEF Decided, Stream
  <2>2. Len(buf') # 0
    <3>1. readBytes' > readBytes
      BY ReceiveStream
    <3> QED BY <1>1, <2>1, <3>1
  <2>3. buf'[1] = buf[1]
    BY <1>1, <1>2, <2>1
  <2> QED BY <2>1, <2>2, <2>3
<1> QED BY <1>2, <1>3, <1>4 DEF Decided

LEMMA FailsDecided ==
  ASSUME Stream, Decided, NEW timeout, Fails(timeout), readBytes' = readBytes,
         timeout => reader = "blocked"
  PROVE  Decided'
<1>1. CASE stage = "probe" /\ timeout
  <2>1. buf = <<>> /\ readBytes = 0
    BY <1>1 DEF Stream, Waiting, Decided
  <2>2. service' = "terminal" /\ stage' = "serve" /\ heard' = (readBytes > 0)
    BY <1>1 DEF Fails, Enter, Serve
  <2>3. ~ (readBytes > 0)
    BY <2>1
  <2>4. ~ heard'
    BY <2>2, <2>3, Zenon
  <2> QED BY <2>2, <2>4 DEF Decided
<1>2. CASE stage \in {"handshake", "prefix", "http"} \/ (stage = "probe" /\ ~ timeout)
  <2>1. stage' = "done" /\ UNCHANGED <<typed, buf, sent, service, heard>>
    BY <1>2 DEF Fails, Return, Enter, consoleVars, historyVars
  <2> QED BY <2>1, SameDecided
<1>3. CASE stage = "serve"
  <2>1. UNCHANGED <<typed, buf, sent, service, heard, stage>>
    BY <1>3 DEF Fails, StreamFails, plainVars, historyVars
  <2> QED BY <2>1, SameDecided
<1> QED BY <1>1, <1>2, <1>3 DEF Fails

LEMMA FirstByteDecided ==
  ASSUME Stream, Decided, FirstByte
  PROVE  Decided'
<1>1. /\ stage = "probe" /\ buf # <<>> /\ UNCHANGED <<typed, buf, sent, readBytes>>
      /\ typed = <<>> /\ service = "none" /\ Len(buf) = readBytes
  BY DEF FirstByte, ChooseBrief, Choose, Serve, historyVars, Decided
<1>2. CASE buf[1] \in Letters
  <2>1. stage' = "prefix" /\ service' = "none"
    BY <1>1, <1>2 DEF FirstByte, Enter, TLSRecord, Letters
  <2> QED BY <1>1, <1>2, <2>1 DEF Decided
<1>3. CASE buf[1] \notin Letters
  <2>1. Settled(buf)
    BY <1>1, <1>3 DEF Settled
  <2>2. Settled(sent) /\ AskedBy(sent) = AskedBy(buf)
    BY <1>1, <2>1, BufferDecides
  <2>3. /\ stage' \in {"done", "serve"} /\ service' # "none"
        /\ service' = IF buf[1] = TLSRecord THEN "tls" ELSE "terminal"
    BY <1>3 DEF FirstByte, ChooseBrief, Choose, Serve, Enter
  <2>4. service' = AskedBy(buf)
    BY <1>3, <2>1, <2>3, AskedCases DEF Stream
  <2> QED BY <1>1, <2>2, <2>3, <2>4 DEF Decided
<1> QED BY <1>2, <1>3

LEMMA PrefixDecided ==
  ASSUME Stream, Decided, Prefix
  PROVE  Decided'
<1>1. /\ stage = "prefix" /\ Len(buf) >= 4 /\ UNCHANGED <<typed, buf, sent, readBytes>>
      /\ typed = <<>> /\ service = "none" /\ buf[1] \in Letters /\ buf # <<>>
  BY DEF Prefix, ChooseBrief, Choose, Serve, historyVars, Decided
<1>2. Settled(buf)
  BY <1>1 DEF Settled
<1>3. Settled(sent) /\ AskedBy(sent) = AskedBy(buf)
  BY <1>1, <1>2, BufferDecides
<1>4. /\ stage' \in {"http", "done", "serve"} /\ service' # "none"
      /\ \/ SubSeq(buf, 1, 4) \in Methods /\ service' = "http"
         \/ SubSeq(buf, 1, 4) = Banner /\ service' = "ssh"
         \/ Upper(SubSeq(buf, 1, 4)) = User /\ service' = "ftp"
         \/ /\ SubSeq(buf, 1, 4) \notin Methods \union {Banner}
            /\ Upper(SubSeq(buf, 1, 4)) # User /\ service' = "terminal"
  BY DEF Prefix, ChooseBrief, Choose, Serve, Enter
<1>5. service' = AskedBy(buf)
  BY <1>1, <1>2, <1>4, AskedCases DEF Stream
<1> QED BY <1>1, <1>3, <1>4, <1>5 DEF Decided

LEMMA SendDecided ==
  ASSUME Stream, Stream', Decided, kind \in Kinds \ {"ssh"}, PeerSends, sends \in Nat
  PROVE  Decided'
<1>1. UNCHANGED <<typed, buf, service, heard, readBytes, stage>>
  BY DEF PeerSends, Send, guardVars, consoleVars, historyVars
<1>2. PICK p \in Seq(Octets) : sent' = sent \o p
  BY SendPiece
<1>3. Settled(sent) => Settled(sent') /\ AskedBy(sent') = AskedBy(sent)
  BY ZenonT(60), <1>2, AskedStays DEF Stream
<1> QED BY <1>1, <1>3 DEF Decided

LEMMA NextDecided ==
  ASSUME kind \in Kinds \ {"ssh"}, sends \in Nat, Stream, Decided, [Next]_vars
  PROVE  Decided'
<1> USE DEF guardVars, plainVars, consoleVars, historyVars
<1>1. CASE PlainNext
  <2>1. CASE ReadPlain \/ StartProbe \/ Handshake \/ AnswerRequest \/ ServiceReturns
    <3>1. UNCHANGED <<typed, buf, sent, service, heard, readBytes>>
      BY <2>1 DEF ReadPlain, StartProbe, Handshake, AnswerRequest, ServiceReturns
    <3>2. \/ stage' \in {stage, "done"}
          \/ stage \in {"handshake", "start"} /\ stage' \in {"start", "probe"}
      BY <2>1 DEF ReadPlain, StartProbe, Handshake, AnswerRequest, ServiceReturns, Enter, Return
    <3> QED BY <3>1, <3>2, SameDecided
  <2>2. CASE ReadRefused \/ ReadFails
    <3>1. readBytes' = readBytes /\ (Fails(FALSE) \/ (Fails(TRUE) /\ reader = "blocked"))
      BY <2>2 DEF ReadRefused, ReadFails, TimedOut
    <3> QED BY <3>1, FailsDecided
  <2>3. CASE Receive
    BY <2>3, ReceiveDecided
  <2>4. CASE FirstByte
    BY <2>4, FirstByteDecided
  <2>5. CASE Prefix
    BY <2>5, PrefixDecided
  <2>6. CASE ServeLines
    <3>1. service' = service
      BY <2>6, ConsoleStream
    <3>2. UNCHANGED <<sent, heard, readBytes, stage>> /\ stage = "serve"
      BY <2>6 DEF ServeLines
    <3> QED BY <3>1, <3>2 DEF Decided
  <2> QED BY <1>1, <2>1, <2>2, <2>3, <2>4, <2>5, <2>6 DEF PlainNext, PlainStep
<1>2. CASE SSHDo(SSHStep) \/ SSHDo(Packet)
  BY <1>2 DEF SSHDo
<1>3. CASE Around(Pass) \/ Around(Expire) \/ Around(Leave)
  <2>1. UNCHANGED <<typed, buf, sent, service, heard, readBytes, stage>>
    BY <1>3 DEF Around, Pass, Tick, Expire, Leave
  <2> QED BY <2>1, SameDecided
<1>4. CASE PeerSends
  BY <1>4, NextStream, SendDecided
<1>5. CASE UNCHANGED vars
  <2>1. UNCHANGED <<typed, buf, sent, service, heard, readBytes, stage>>
    BY <1>5 DEF vars
  <2> QED BY <2>1, SameDecided
<1> QED BY <1>1, <1>2, <1>3, <1>4, <1>5 DEF Next, Run, Peer

\* A plain peer gets the service that his first four bytes ask for, however they
\* came, or the terminal if nothing came in time, for any stream and any timeouts.
THEOREM ServiceCorrect == Spec => []ServedAsAsked
<1> DEFINE DInv == kind # "ssh" => Decided
<1>1. Init => DInv
  <2> SUFFICES ASSUME Init, kind # "ssh" PROVE Decided
    OBVIOUS
  <2>1. /\ stage \in {"handshake", "start"} /\ service = "none"
        /\ typed = <<>> /\ buf = <<>> /\ readBytes = 0
    BY DEF Init, PlainInit, ConsoleInit, GuardInit
  <2> QED BY <2>1 DEF Decided
<1>2. PlainInv /\ DInv /\ [Next]_vars => DInv'
  <2> SUFFICES ASSUME PlainInv, DInv, [Next]_vars PROVE DInv'
    OBVIOUS
  <2>1. kind' = kind
    BY KindStays
  <2> QED BY <2>1, NextDecided DEF PlainInv
<1>3. PlainInv /\ DInv => ServedAsAsked
  BY AskedIs DEF ServedAsAsked, Decided, PlainInv
<1> QED BY <1>1, <1>2, <1>3, InitStream, NextPlain, PTL DEF Spec

(***************************************************************************)
(* The deadline of the read that waits.                                    *)
(***************************************************************************)
Idle(t) == Earliest({t + IdleTimeout, MaxLifetime})

LEMMA IdleIs ==
  ASSUME NEW t \in Nat
  PROVE  Idle(t) \in Nat /\ Idle(t) \in {t + IdleTimeout, MaxLifetime}
         /\ Idle(t) <= t + IdleTimeout /\ Idle(t) <= MaxLifetime
<1> DEFINE S == {t + IdleTimeout, MaxLifetime}
<1>1. t + IdleTimeout \in Nat /\ MaxLifetime \in Nat
  BY GuardAssumption
<1>2. (\E x \in S : \A u \in S : x <= u) /\ t + IdleTimeout \in S /\ MaxLifetime \in S
  BY <1>1
<1>3. S \subseteq Nat /\ Idle(t) = Earliest(S) /\ S = {t + IdleTimeout, MaxLifetime}
  BY <1>1 DEF Idle
<1> HIDE DEF S
<1>4. Earliest(S) \in S /\ \A u \in S : Earliest(S) <= u
  BY <1>2, EarliestIs
<1> QED BY <1>2, <1>3, <1>4

LEMMA IdleGrows ==
  ASSUME NEW t \in Nat, NEW u \in Nat, t <= u
  PROVE  Idle(t) <= Idle(u)
BY IdleIs, GuardAssumption

\* A plain connection: while it opens a phase is in force, later none.
PlainTimes ==
  /\ entered \in 0..now
  /\ stage \in {"handshake", "probe", "prefix", "http"} =>
       phase # 0 /\ phase <= entered + Allowance
  /\ stage = "serve" => phase = 0
  /\ reader # "computed"
  /\ reader = "blocked" => IF phase = 0 THEN deadline = Idle(began) ELSE deadline <= phase

LEMMA SameTimes ==
  ASSUME GuardTypes, PlainTimes, UNCHANGED <<phase, entered, stage>>, now' \in Nat, now <= now',
         reader' = "none" \/ UNCHANGED readVars
  PROVE  PlainTimes'
BY GuardAssumption DEF PlainTimes, GuardTypes, readVars, Allowance

\* A new stage begins with no read waiting.
LEMMA EnterTimes ==
  ASSUME GuardTypes, PlainTimes, now' = now, reader' = "none", NEW s, Enter(s),
         s \in {"probe", "prefix", "http"} =>
           phase' # 0 /\ phase' <= now + (IF s = "probe" THEN ProbeTimeout ELSE HandshakeTimeout),
         s # "handshake", s = "serve" => phase' = 0
  PROVE  PlainTimes'
<1>1. entered' \in {0, now} /\ stage' = s /\ (s \in {"probe", "prefix", "http"} => entered' = now)
  BY DEF Enter
<1>2. now \in Nat
  BY DEF GuardTypes
<1> QED BY <1>1, <1>2 DEF PlainTimes, Allowance

LEMMA FailsTimes ==
  ASSUME GuardTypes, PlainTimes, NEW timeout, Fails(timeout), now' = now, reader' = "none"
  PROVE  PlainTimes'
<1>1. CASE stage = "probe" /\ timeout
  <2>1. Enter("serve") /\ phase' = 0
    BY <1>1 DEF Fails
  <2> QED BY <2>1, EnterTimes
<1>2. CASE stage \in {"handshake", "prefix", "http"} \/ (stage = "probe" /\ ~ timeout)
  <2>1. Enter("done")
    BY <1>2 DEF Fails, Return
  <2> QED BY <2>1, EnterTimes
<1>3. CASE stage = "serve"
  <2>1. UNCHANGED <<phase, entered, stage>>
    BY <1>3 DEF Fails, plainVars
  <2> QED BY <2>1, SameTimes DEF GuardTypes
<1> QED BY <1>1, <1>2, <1>3 DEF Fails

LEMMA PlainStepTimes ==
  ASSUME Stream, GuardTypes, PlainTimes, PlainStep
  PROVE  PlainTimes'
<1> USE GuardAssumption, PlainAssumption
<1>t. now \in Nat /\ phase \in Nat /\ now <= now
  BY DEF GuardTypes
<1>n. reader = "blocked" => Waiting
  BY DEF Stream
<1>r. reader \in {"none", "blocked"}
  BY DEF PlainTimes, GuardTypes
<1>1. CASE ReadPlain
  <2>1. /\ UNCHANGED <<now, phase, stage, entered>> /\ reader' = "blocked"
        /\ began' = now /\ deadline' = Deadline(IdleTimeout)
    BY <1>1 DEF ReadPlain, BeginRead, timeVars, plainVars
  <2>2. IF phase' = 0 THEN deadline' = Idle(began') ELSE deadline' <= phase'
    BY <2>1, DeadlineIs DEF Idle
  <2> QED BY <2>1, <2>2 DEF PlainTimes, Allowance
<1>2. CASE Receive
  BY <1>2, <1>t, SameTimes DEF Receive, Returned, timeVars
<1>3. CASE ReadRefused \/ ReadFails
  <2>1. now' = now /\ reader' = "none" /\ \E timeout : Fails(timeout)
    BY <1>3 DEF ReadRefused, ReadFails, StopReading, readVars, timeVars
  <2> QED BY <2>1, FailsTimes
<1>4. CASE Handshake
  <2>1. now' = now /\ reader' = "none" /\ (Enter("start") \/ Enter("done"))
    BY <1>4 DEF Handshake, StopReading, Return, timeVars
  <2> QED BY <2>1, EnterTimes
<1>5. CASE StartProbe
  <2>1. now' = now /\ reader' = "none" /\ Enter("probe") /\ phase' = now + ProbeTimeout
    BY <1>5, <1>n, <1>r DEF StartProbe, Waiting, readVars, timeVars
  <2>2. phase' # 0 /\ phase' <= now + ProbeTimeout
    BY <2>1, <1>t
  <2> QED BY <2>1, <2>2, EnterTimes
<1>6. CASE FirstByte
  <2>1. now' = now /\ reader' = "none"
    BY <1>6, <1>n, <1>r DEF FirstByte, Waiting, readVars, timeVars
  <2>2. CASE phase' = now + HandshakeTimeout /\ Enter("prefix")
    <3>1. phase' # 0 /\ phase' <= now + HandshakeTimeout
      BY <2>2, <1>t
    <3> QED BY <2>1, <2>2, <3>1, EnterTimes
  <2>3. CASE phase' = 0 /\ (Enter("serve") \/ Enter("done"))
    BY <2>1, <2>3, EnterTimes
  <2> QED BY <1>6, <2>2, <2>3 DEF FirstByte, Choose, ChooseBrief
<1>7. CASE Prefix
  <2>1. now' = now /\ reader' = "none"
    BY <1>7, <1>n, <1>r DEF Prefix, Waiting, readVars, timeVars
  <2>2. CASE phase' = phase /\ Enter("http")
    <3>1. phase # 0 /\ phase <= entered + HandshakeTimeout /\ entered \in 0..now
      BY <1>7 DEF PlainTimes, Allowance, Prefix
    <3>2. phase' # 0 /\ phase' <= now + HandshakeTimeout
      BY <3>1, <2>2, <1>t
    <3> QED BY <2>1, <2>2, <3>2, EnterTimes
  <2>3. CASE phase' = 0 /\ (Enter("serve") \/ Enter("done"))
    BY <2>1, <2>3, EnterTimes
  <2> QED BY <1>7, <2>2, <2>3 DEF Prefix, Choose, ChooseBrief
<1>8. CASE AnswerRequest
  <2>1. now' = now /\ reader' = "none" /\ Enter("done")
    BY <1>8, <1>n, <1>r DEF AnswerRequest, Return, readVars, timeVars
  <2> QED BY <2>1, EnterTimes
<1>9. CASE ServiceReturns
  <2>1. now' = now /\ reader' = "none" /\ Enter("done")
    BY <1>9, <1>n, <1>r DEF ServiceReturns, Return, Waiting, readVars, timeVars
  <2> QED BY <2>1, EnterTimes
<1>10. CASE ServeLines
  <2>1. UNCHANGED <<now, phase, entered, stage, readVars>>
    BY <1>10 DEF ServeLines, timeVars, plainVars
  <2> QED BY <2>1, <1>t, SameTimes
<1> QED BY <1>1, <1>2, <1>3, <1>4, <1>5, <1>6, <1>7, <1>8, <1>9, <1>10 DEF PlainStep

LEMMA NextPlainTimes ==
  ASSUME kind # "ssh", Stream, GuardTypes, PlainTimes, [Next]_vars
  PROVE  PlainTimes'
<1>t. now \in Nat /\ now <= now
  BY DEF GuardTypes
<1>1. CASE PlainNext
  BY <1>1, PlainStepTimes DEF PlainNext
<1>2. CASE SSHDo(SSHStep) \/ SSHDo(Packet)
  BY <1>2 DEF SSHDo
<1>3. CASE Around(Pass) \/ Around(Expire) \/ Around(Leave)
  <2>1. UNCHANGED <<phase, entered, stage, readVars>> /\ now' \in {now, now + 1}
    BY <1>3 DEF Around, Pass, Tick, Expire, Leave, plainVars
  <2>2. now' \in Nat /\ now <= now'
    BY <1>t, <2>1
  <2> QED BY <2>1, <2>2, SameTimes
<1>4. CASE PeerSends
  <2>1. UNCHANGED <<now, phase, entered, stage, readVars>>
    BY <1>4 DEF PeerSends, Send, guardVars, readVars
  <2> QED BY <2>1, <1>t, SameTimes
<1>5. CASE UNCHANGED vars
  <2>1. UNCHANGED <<now, phase, entered, stage, readVars>>
    BY <1>5 DEF vars, guardVars, readVars, plainVars
  <2> QED BY <2>1, <1>t, SameTimes
<1> QED BY <1>1, <1>2, <1>3, <1>4, <1>5 DEF Next, Run, Peer

\* The deadline of a read that began at t while the handshake's phase was in force.
Brief(t) == Earliest({t + IdleTimeout, MaxLifetime, HandshakeTimeout})

LEMMA BriefIs ==
  ASSUME NEW t \in Nat
  PROVE  Brief(t) \in Nat /\ Brief(t) <= Idle(t)
<1> DEFINE S == {t + IdleTimeout, MaxLifetime, HandshakeTimeout}
<1>1. t + IdleTimeout \in Nat /\ MaxLifetime \in Nat /\ HandshakeTimeout \in Nat
  BY GuardAssumption
<1>2. \E x \in S : \A y \in S : x <= y
  BY <1>1
<1>3. S \subseteq Nat /\ Brief(t) = Earliest(S) /\ {t + IdleTimeout, MaxLifetime} \subseteq S
  BY <1>1 DEF Brief
<1> HIDE DEF S
<1>4. Earliest(S) \in S /\ \A y \in S : Earliest(S) <= y
  BY <1>2, EarliestIs
<1>5. Idle(t) \in {t + IdleTimeout, MaxLifetime}
  BY IdleIs
<1> QED BY <1>3, <1>4, <1>5

LEMMA BriefDeadline ==
  ASSUME phase = HandshakeTimeout
  PROVE  Deadline(IdleTimeout) = Brief(now)
<1>1. HandshakeTimeout # 0
  BY GuardAssumption
<1>2. {now + IdleTimeout, MaxLifetime} \union (IF phase = 0 THEN {} ELSE {phase})
      = {now + IdleTimeout, MaxLifetime, HandshakeTimeout}
  BY <1>1
<1> QED BY <1>2 DEF Deadline, Brief

LEMMA ReadLimitIs ==
  ReadLimit = IF kind = "ssh" /\ raced /\ inPhase THEN Brief(began) ELSE Idle(began)
<1>1. ASSUME kind = "ssh", raced, inPhase PROVE ReadLimit = Brief(began)
  <2>1. {began + IdleTimeout, MaxLifetime} \union {HandshakeTimeout}
        = {began + IdleTimeout, MaxLifetime, HandshakeTimeout}
    OBVIOUS
  <2> QED BY <1>1, <2>1, Zenon DEF ReadLimit, Brief
<1>2. ASSUME ~ (kind = "ssh" /\ raced /\ inPhase) PROVE ReadLimit = Idle(began)
  <2>1. {began + IdleTimeout, MaxLifetime} \union {} = {began + IdleTimeout, MaxLifetime}
    OBVIOUS
  <2> QED BY <1>2, <2>1, Zenon DEF ReadLimit, Idle
<1> QED BY <1>1, <1>2

\* An SSH connection: the phase of the handshake is in force until handleSSH clears
\* it, and a deadline that was computed before may be set after.
SSHTimes ==
  /\ main \in {"auth", "clear", "extend", "select", "wait", "done"}
  /\ readBytes \in Nat
  /\ main \in {"auth", "clear"} => phase = HandshakeTimeout
  /\ main \in {"extend", "select", "wait"} => phase = 0
  /\ main = "auth" /\ reader = "computed" => due <= HandshakeTimeout
  /\ main = "auth" /\ reader = "blocked" => deadline <= HandshakeTimeout
  /\ reader = "computed" => due = IF inPhase THEN Brief(began) ELSE Idle(began)
  /\ main = "select" /\ reader = "blocked" =>
       IF raced /\ inPhase THEN Brief(began) <= deadline ELSE Idle(began) <= deadline

\* Steps that leave the read alone, or end it.
SameSSH ==
  /\ readBytes' \in Nat
  /\ UNCHANGED <<phase, raced>>
  /\ reader' = "none" \/ UNCHANGED readVars
  /\ \/ main' = main
     \/ main = "auth" /\ main' \in {"clear", "done"}
     \/ main \in {"select", "wait"} /\ main' \in {"wait", "done"}

LEMMA SameSSHTimes ==
  ASSUME SSHTimes, SameSSH
  PROVE  SSHTimes'
BY DEF SSHTimes, SameSSH, readVars

LEMMA ReadSSHTimes ==
  ASSUME GuardTypes, SSHTimes, BeginPacket \/ AwaitPacket, main \notin {"wait", "done"}
  PROVE  SSHTimes'
<1>t. /\ now \in Nat /\ phase \in Nat /\ due \in Nat /\ began \in Nat
      /\ HandshakeTimeout \in Nat \ {0}
  BY GuardAssumption DEF GuardTypes
<1>1. CASE BeginPacket
  <2>1. /\ UNCHANGED <<now, phase, readBytes, main, raced>> /\ began' = now
        /\ due' = Deadline(IdleTimeout) /\ inPhase' = (phase # 0)
    BY <1>1 DEF BeginPacket, BeginRead, ComputeDeadline, timeVars, sshVars
  <2>2. due' \in Nat /\ IF phase = 0 THEN due' = Idle(began') ELSE due' <= phase
    BY <2>1, DeadlineIs DEF Idle
  <2>3. CASE main \in {"auth", "clear", "extend"}
    <3>1. reader' = "computed"
      BY <1>1, <2>3 DEF BeginPacket, ComputeDeadline
    <3>2. due' = IF inPhase' THEN Brief(began') ELSE Idle(began')
      <4>1. CASE phase = 0
        BY <2>1, <2>2, <4>1
      <4>2. CASE phase # 0
        <5>1. phase = HandshakeTimeout
          BY <2>3, <4>2 DEF SSHTimes
        <5> QED BY <2>1, <4>2, <5>1, BriefDeadline
      <4> QED BY <4>1, <4>2
    <3>3. main = "auth" => due' <= HandshakeTimeout
      BY <1>t, <2>2 DEF SSHTimes
    <3> QED BY <2>1, <2>3, <3>1, <3>2, <3>3 DEF SSHTimes
  <2>4. CASE main = "select"
    <3>1. reader' = "blocked" /\ deadline' = due' /\ phase = 0 /\ ~ inPhase'
      BY <1>1, <2>1, <2>4 DEF BeginPacket, BeginRead, SSHTimes
    <3> QED BY <2>1, <2>2, <2>4, <3>1 DEF SSHTimes
  <2> QED BY <2>3, <2>4 DEF SSHTimes
<1>2. CASE AwaitPacket
  <2>1. /\ UNCHANGED <<phase, readBytes, main, due, began, inPhase>>
        /\ reader = "computed" /\ reader' = "blocked" /\ deadline' = due
        /\ raced' = (raced \/ (inPhase /\ main \notin {"auth", "clear", "extend"}))
    BY <1>2 DEF AwaitPacket, SetDeadline
  <2>2. main = "select" =>
          IF raced' /\ inPhase' THEN Brief(began') <= deadline' ELSE Idle(began') <= deadline'
    <3>1. main = "select" /\ inPhase => raced'
      BY <2>1
    <3> QED BY <1>t, <2>1, <3>1 DEF SSHTimes
  <2> QED BY <2>1, <2>2 DEF SSHTimes
<1> QED BY <1>1, <1>2

LEMMA SSHStepTimes ==
  ASSUME GuardTypes, SSHTimes, SSHStep
  PROVE  SSHTimes'
<1> USE DEF SameSSH, readVars
<1>t. /\ now \in Nat /\ began \in Nat /\ began <= now /\ readBytes \in Nat
  BY DEF GuardTypes, SSHTimes
<1>1. CASE (BeginPacket \/ AwaitPacket) /\ main \notin {"wait", "done"}
  BY <1>1, ReadSSHTimes
<1>2. CASE (BeginPacket \/ AwaitPacket) /\ main \in {"wait", "done"}
  <2>1. UNCHANGED <<main, phase, readBytes>>
    BY <1>2 DEF BeginPacket, AwaitPacket, sshVars
  <2>2. reader' = "blocked"
    BY <1>2 DEF BeginPacket, AwaitPacket, BeginRead, SetDeadline
  <2> QED BY <1>2, <2>1, <2>2 DEF SSHTimes
<1>3. CASE LoopFails \/ Resume \/ DenyGlobal
  <2>1. SameSSH
    BY <1>3, <1>t DEF LoopFails, EndLoop, StopReading, Resume, DenyGlobal, guardVars
  <2> QED BY <2>1, SameSSHTimes
<1>4. CASE Authenticate
  <2>1. SameSSH
    BY <1>4, <1>t DEF Authenticate, StopReading
  <2> QED BY <2>1, SameSSHTimes
<1>5. CASE ClearPhase
  <2>1. /\ UNCHANGED <<readVars, readBytes, raced>> /\ phase' = 0
        /\ main = "clear" /\ main' = "extend"
    BY <1>5 DEF ClearPhase
  <2> QED BY <2>1 DEF SSHTimes
<1>6. CASE ExtendDeadline
  <2>1. /\ UNCHANGED <<phase, reader, due, began, inPhase, readBytes, raced>>
        /\ main = "extend" /\ main' = "select" /\ deadline' = Deadline(IdleTimeout)
    BY <1>6 DEF ExtendDeadline
  <2>2. deadline' = Idle(now)
    BY <2>1, DeadlineIs DEF Idle, SSHTimes
  <2>3. Idle(began) <= deadline'
    BY <1>t, <2>2, IdleGrows
  <2>4. Brief(began) <= deadline'
    BY <1>t, <2>2, <2>3, BriefIs, IdleIs
  <2> QED BY <2>1, <2>3, <2>4 DEF SSHTimes
<1>7. CASE TakeChannel \/ Finish \/ WaitFinished
  <2>1. SameSSH
    BY <1>7, <1>t DEF TakeChannel, Finish, WaitFinished, guardVars
  <2> QED BY <2>1, SameSSHTimes
<1>8. CASE TakeRequest
  <2>1. UNCHANGED guardVars /\ UNCHANGED <<main, raced>>
    BY <1>8 DEF TakeRequest
  <2>2. SameSSH
    BY <2>1, <1>t DEF guardVars
  <2> QED BY <2>2, SameSSHTimes
<1>9. CASE Shell \/ Exec \/ DrainRequest
  <2>1. SameSSH
    BY <1>9, <1>t DEF Shell, Exec, DrainRequest, guardVars
  <2> QED BY <2>1, SameSSHTimes
<1> QED BY <1>1, <1>2, <1>3, <1>4, <1>5, <1>6, <1>7, <1>8, <1>9
  DEF SSHStep, ReaderStep, MainStep, ChanStep

LEMMA NextSSHTimes ==
  ASSUME kind = "ssh", GuardTypes, SSHTimes, [Next]_vars
  PROVE  SSHTimes'
<1> USE DEF SameSSH, readVars
<1>1. CASE PlainNext \/ PeerSends
  BY <1>1 DEF PlainNext, PeerSends
<1>2. CASE SSHDo(SSHStep)
  BY <1>2, SSHStepTimes DEF SSHDo
<1>3. CASE Around(Pass) \/ Around(Expire) \/ Around(Leave)
  <2>1. UNCHANGED <<phase, readVars, readBytes, main, raced>>
    BY <1>3 DEF Around, Pass, Tick, Expire, Leave, sshVars
  <2>2. SameSSH
    BY <2>1 DEF SSHTimes
  <2> QED BY <2>2, SameSSHTimes
<1>4. CASE SSHDo(Packet)
  <2>1. UNCHANGED <<phase, main, raced>> /\ reader' = "none" /\ readBytes' = readBytes + 1
    BY <1>4 DEF SSHDo, Packet, Returned
  <2>2. readBytes' \in Nat
    BY <2>1 DEF SSHTimes
  <2>3. SameSSH
    BY <2>1, <2>2
  <2> QED BY <2>3, SameSSHTimes
<1>5. CASE UNCHANGED vars
  <2>1. UNCHANGED <<phase, readVars, readBytes, main, raced>>
    BY <1>5 DEF vars, guardVars, sshVars
  <2>2. SameSSH
    BY <2>1 DEF SSHTimes
  <2> QED BY <2>2, SameSSHTimes
<1> QED BY <1>1, <1>2, <1>3, <1>4, <1>5 DEF Next, Run, Peer

\* What is known of the deadline.
DeadlineInv ==
  /\ PlainInv /\ GuardTypes
  /\ IF kind = "ssh" THEN SSHTimes ELSE PlainTimes

LEMMA InitDeadline == Init => DeadlineInv
<1> SUFFICES ASSUME Init PROVE DeadlineInv
  OBVIOUS
<1> USE GuardAssumption
<1>1. /\ now = 0 /\ phase = HandshakeTimeout /\ reader = "none" /\ due = 0 /\ deadline = 0
      /\ began = 0 /\ readBytes = 0
  BY DEF Init, GuardInit
<1>2. GuardTypes
  BY <1>1 DEF GuardTypes
<1>3. kind = "ssh" => SSHTimes
  BY <1>1 DEF Init, SSHInit, SSHTimes
<1>4. kind # "ssh" => PlainTimes
  <2>1. entered = 0 /\ stage \in {"handshake", "start"}
    BY DEF Init, PlainInit
  <2> QED BY <1>1, <2>1 DEF PlainTimes, Allowance
<1> QED BY <1>2, <1>3, <1>4, InitStream DEF DeadlineInv

LEMMA NextDeadline ==
  ASSUME DeadlineInv, [Next]_vars
  PROVE  DeadlineInv'
BY KindStays, NextPlain, NextGuardTypes, NextSSHTimes, NextPlainTimes DEF DeadlineInv, PlainInv

\* Until a peer is served as a player, no read waits beyond the time of the stage,
\* for any timeouts, and although an SSH connection's deadlines are computed and
\* set in two steps.
THEOREM OpeningCorrect == Spec => []OpeningBounded
<1>1. DeadlineInv => OpeningBounded
  <2> SUFFICES ASSUME DeadlineInv PROVE OpeningBounded
    OBVIOUS
  <2>1. kind = "ssh" /\ main = "auth" /\ reader = "blocked" => deadline <= HandshakeTimeout
    BY DEF DeadlineInv, SSHTimes
  <2>2. ASSUME Opening, reader = "blocked"
        PROVE  deadline <= entered + Allowance
    <3>1. deadline <= phase /\ phase <= entered + Allowance
      BY <2>2 DEF Opening, DeadlineInv, PlainTimes
    <3>2. deadline \in Nat /\ phase \in Nat /\ entered \in 0..now /\ now \in Nat
      BY <2>2 DEF DeadlineInv, GuardTypes, PlainTimes, Opening
    <3>3. Allowance \in Nat
      BY GuardAssumption, PlainAssumption DEF Allowance
    <3> QED BY <3>1, <3>2, <3>3
  <2> QED BY <2>1, <2>2 DEF OpeningBounded
<1> QED BY <1>1, InitDeadline, NextDeadline, PTL DEF Spec

LEMMA CutAfterIdle ==
  ASSUME DeadlineInv, [Next]_vars, Established, GivenUp
  PROVE  now >= ReadLimit
<1> USE DEF DeadlineInv, PlainInv
<1>t. now \in Nat /\ deadline \in Nat /\ began \in Nat /\ Idle(began) \in Nat /\ Brief(began) \in Nat
  <2>1. now \in Nat /\ deadline \in Nat /\ began \in Nat
    BY DEF GuardTypes
  <2> QED BY <2>1, IdleIs, BriefIs
<1>1. reader = "blocked" /\ open /\ peerOpen /\ reader' = "none" /\ readBytes' = readBytes
  BY DEF GivenUp
<1>2. CASE kind # "ssh"
  <2>1. stage = "serve" /\ phase = 0 /\ deadline = Idle(began)
    BY <1>1, <1>2 DEF Established, PlainTimes
  <2>2. reader' # reader
    BY <1>1
  <2>3. ReadFails
    <3>1. ~ Receive
      <4>1. ASSUME Receive PROVE readBytes' > readBytes /\ readBytes \in Nat
        BY <1>2, <4>1, ReceiveStream DEF Stream
      <4> QED BY <1>1, <4>1
    <3>2. ~ PeerSends /\ ~ Around(Pass) /\ ~ Around(Expire) /\ ~ Around(Leave) /\ ~ UNCHANGED vars
      BY <2>2 DEF PeerSends, Send, Around, Pass, Tick, Expire, Leave, vars, guardVars, readVars
    <3>3. PlainStep
      BY <1>2, <3>2 DEF Next, Run, Peer, SSHDo, PlainNext
    <3>4. ~ ReadPlain /\ ~ ReadRefused /\ ~ Handshake /\ ~ StartProbe /\ ~ FirstByte /\ ~ Prefix
      BY <1>1, <2>1 DEF ReadPlain, BeginRead, ReadRefused, Handshake, StartProbe, FirstByte, Prefix
    <3>5. ~ AnswerRequest /\ ~ ServeLines /\ ~ ServiceReturns
      BY <2>2 DEF AnswerRequest, ServeLines, ServiceReturns, readVars
    <3> QED BY <3>1, <3>3, <3>4, <3>5 DEF PlainStep
  <2>4. now >= deadline
    BY <1>1, <2>3 DEF ReadFails, TimedOut
  <2> QED BY <1>2, <2>1, <2>4, ReadLimitIs
<1>3. CASE kind = "ssh"
  <2>1. main = "select"
    BY <1>3 DEF Established
  <2>2. reader' # reader
    BY <1>1
  <2>3. LoopFails
    <3>1. ~ SSHDo(Packet)
      <4>1. ASSUME SSHDo(Packet) PROVE readBytes' = readBytes + 1 /\ readBytes \in Nat
        BY <1>3, <4>1 DEF SSHDo, Packet, Returned, SSHTimes
      <4> QED BY <1>1, <4>1
    <3>2. ~ Around(Pass) /\ ~ Around(Expire) /\ ~ Around(Leave) /\ ~ UNCHANGED vars
      BY <2>2 DEF Around, Pass, Tick, Expire, Leave, vars, guardVars, readVars
    <3>3. SSHStep
      BY <1>3, <3>1, <3>2 DEF Next, Run, Peer, SSHDo, PlainNext, PeerSends
    <3>4. ~ BeginPacket /\ ~ AwaitPacket /\ ~ Authenticate
      BY <1>1, <2>1 DEF BeginPacket, BeginRead, ComputeDeadline, AwaitPacket, SetDeadline,
                       Authenticate
    <3>5. /\ ~ Resume /\ ~ ClearPhase /\ ~ ExtendDeadline /\ ~ TakeChannel /\ ~ Finish
          /\ ~ WaitFinished
      BY <2>2 DEF Resume, ClearPhase, ExtendDeadline, TakeChannel, Finish, WaitFinished, guardVars,
                  readVars
    <3>6. ~ DenyGlobal /\ ~ TakeRequest /\ ~ Shell /\ ~ Exec /\ ~ DrainRequest
      BY <2>2 DEF DenyGlobal, TakeRequest, Shell, Exec, DrainRequest, guardVars, readVars
    <3> QED BY <3>3, <3>4, <3>5, <3>6 DEF SSHStep, ReaderStep, MainStep, ChanStep
  <2>4. now >= deadline
    BY <1>1, <2>3 DEF LoopFails, TimedOut
  <2>5. IF raced /\ inPhase THEN Brief(began) <= deadline ELSE Idle(began) <= deadline
    BY <1>1, <1>3, <2>1 DEF SSHTimes
  <2> QED BY <1>t, <1>3, <2>4, <2>5, ReadLimitIs
<1> QED BY <1>2, <1>3

\* An established connection is given up by the deadline of its idle time or its
\* lifetime only; the one read of an SSH connection that raced with handleSSH may
\* end with the handshake's time, and no read after it.
THEOREM CutCorrect == Spec => CutWhenIdle
<1>1. DeadlineInv /\ [Next]_vars => [Established /\ GivenUp => now >= ReadLimit]_vars
  BY CutAfterIdle
<1> QED BY <1>1, InitDeadline, NextDeadline, PTL DEF Spec, CutWhenIdle

(***************************************************************************)
(* The lines of a stream.  The bytes that line() has taken were read one   *)
(* by one, from a Fresh terminal; nothing else touches the terminal, the   *)
(* lines or the echo, and a service begins once.                           *)
(***************************************************************************)
\* Where a connection stands while nobody serves it, and what an SSH channel has
\* in its buffer.
Place ==
  IF kind = "ssh" THEN buf \in Seq(Octets) /\ (chan \in {"none", "requests"} => console = "off")
                  ELSE stage \notin {"serve", "done"} => console = "off"

\* A step that takes no byte: it lets the service go on or end, or begins it.
NothingRead ==
  /\ UNCHANGED <<typed, lines, echoed, term, tooLong>>
  /\ \/ echo' = echo /\ console' = console
     \/ echo' = echo /\ console \in {"greet", "read", "run"} /\ console' \in {"read", "ended"}
     \/ console = "off" /\ console' \in {"greet", "read"}

LEMMA ConsoleReads ==
  ASSUME NEW oks, ConsoleStep(oks) \/ StreamFails
  PROVE  NothingRead \/ \E ok : TakeByte(ok)
BY DEF ConsoleStep, Greet, RunLine, StreamFails, NothingRead, historyVars

LEMMA ServeBegins ==
  ASSUME NEW name, NEW withEcho, Serve(name, withEcho), console = "off"
  PROVE  NothingRead
BY DEF Serve, NothingRead, historyVars

LEMMA NextReads ==
  ASSUME Place, [Next]_vars
  PROVE  NothingRead \/ \E ok : TakeByte(ok)
<1> USE DEF guardVars, consoleVars, historyVars
<1>1. CASE PlainNext
  <2>1. kind # "ssh" /\ (stage \notin {"serve", "done"} => console = "off")
    BY <1>1 DEF PlainNext, Place
  <2>2. CASE ReadPlain \/ Receive \/ Handshake \/ StartProbe
    BY <2>2 DEF ReadPlain, Receive, Handshake, StartProbe, NothingRead
  <2>3. CASE ReadRefused \/ ReadFails
    <3>1. PICK timeout : Fails(timeout)
      BY <2>3 DEF ReadRefused, ReadFails
    <3>2. \/ stage = "probe" /\ Serve("terminal", FALSE)
          \/ UNCHANGED consoleVars
          \/ StreamFails
      BY <3>1 DEF Fails
    <3>3. ASSUME stage = "probe", Serve("terminal", FALSE) PROVE NothingRead
      BY <2>1, <3>3, ServeBegins
    <3>4. ASSUME UNCHANGED consoleVars PROVE NothingRead
      BY <3>4 DEF NothingRead
    <3> QED BY <3>2, <3>3, <3>4, ConsoleReads
  <2>4. CASE FirstByte \/ Prefix
    <3>1. stage \in {"probe", "prefix"}
      BY <2>4 DEF FirstByte, Prefix
    <3>2. \/ Serve("terminal", FALSE) \/ Serve("ftp", FALSE)
          \/ UNCHANGED <<console, echo, term, budget, historyVars>>
      BY <2>4 DEF FirstByte, Prefix, Choose, ChooseBrief
    <3>3. ASSUME UNCHANGED <<console, echo, term, budget, historyVars>> PROVE NothingRead
      BY <3>3 DEF NothingRead
    <3>4. console = "off"
      BY <2>1, <3>1
    <3> QED BY <3>2, <3>3, <3>4, ServeBegins
  <2>5. CASE AnswerRequest \/ ServiceReturns
    BY <2>5 DEF AnswerRequest, ServiceReturns, NothingRead
  <2>6. CASE ServeLines
    BY <2>6, ConsoleReads DEF ServeLines
  <2> QED BY <1>1, <2>2, <2>3, <2>4, <2>5, <2>6 DEF PlainNext, PlainStep
<1>2. CASE SSHDo(SSHStep)
  <2>1. kind = "ssh" /\ (chan \in {"none", "requests"} => console = "off")
    BY <1>2 DEF SSHDo, Place
  <2>2. CASE ReaderStep
    BY <2>2 DEF ReaderStep, BeginPacket, AwaitPacket, LoopFails, Resume, NothingRead
  <2>3. CASE MainStep
    BY <2>3 DEF MainStep, Authenticate, ClearPhase, ExtendDeadline, TakeChannel, Finish,
                WaitFinished, NothingRead
  <2>4. CASE DenyGlobal \/ DrainRequest \/ Exec
    BY <2>4 DEF DenyGlobal, DrainRequest, Exec, NothingRead
  <2>5. CASE TakeRequest
    <3>1. chan = "requests" /\ (Serve("terminal", pty) \/ UNCHANGED consoleVars)
      BY <2>5 DEF TakeRequest
    <3>2. ASSUME UNCHANGED consoleVars PROVE NothingRead
      BY <3>2 DEF NothingRead
    <3> QED BY <2>1, <3>1, <3>2, ServeBegins
  <2>6. CASE Shell
    <3>1. (\E oks : ConsoleStep(oks)) \/ StreamFails \/ UNCHANGED consoleVars
      BY <2>6 DEF Shell
    <3>2. ASSUME UNCHANGED consoleVars PROVE NothingRead
      BY <3>2 DEF NothingRead
    <3> QED BY <3>1, <3>2, ConsoleReads
  <2> QED BY <1>2, <2>2, <2>3, <2>4, <2>5, <2>6 DEF SSHDo, SSHStep, ChanStep
<1>3. CASE Around(Pass) \/ Around(Expire) \/ Around(Leave)
  BY <1>3 DEF Around, NothingRead
<1>4. CASE PeerSends
  BY <1>4 DEF PeerSends, Send, NothingRead
<1>5. CASE SSHDo(Packet)
  BY <1>5 DEF SSHDo, Packet, NothingRead
<1>6. CASE UNCHANGED vars
  BY <1>6 DEF vars, NothingRead
<1> QED BY <1>1, <1>2, <1>3, <1>4, <1>5, <1>6 DEF Next, Run, Peer

\* The services take bytes only from the buffer, and into an SSH channel's buffer
\* comes what was typed.
LEMMA ConsoleBuffer ==
  ASSUME NEW oks, ConsoleStep(oks) \/ StreamFails, buf \in Seq(Octets)
  PROVE  buf' \in Seq(Octets)
<1>1. buf' = buf \/ (buf # <<>> /\ buf' = Tail(buf))
  BY DEF ConsoleStep, Greet, TakeByte, RunLine, StreamFails
<1> QED BY <1>1

LEMMA NextPlace ==
  ASSUME PlainInv, Session, Place, [Next]_vars
  PROVE  Place'
<1> USE DEF guardVars, consoleVars, historyVars, plainVars, sshVars, channelVars
<1>k. kind' = kind
  BY KindStays
<1>1. CASE PlainNext
  <2>1. kind # "ssh" /\ (stage \notin {"serve", "done"} => console = "off")
    BY <1>1 DEF PlainNext, Place
  <2>2. CASE ReadPlain \/ Receive
    BY <1>k, <2>1, <2>2 DEF ReadPlain, Receive, Place
  <2>3. CASE Handshake \/ StartProbe
    <3>1. console' = console /\ stage \notin {"serve", "done"}
      BY <2>3 DEF Handshake, StartProbe
    <3> QED BY <1>k, <2>1, <3>1 DEF Place
  <2>4. CASE ReadRefused \/ ReadFails
    <3>1. PICK timeout : Fails(timeout)
      BY <2>4 DEF ReadRefused, ReadFails
    <3>2. stage' \in {"serve", "done"}
      BY <3>1 DEF Fails, Enter, Return
    <3> QED BY <1>k, <2>1, <3>2 DEF Place
  <2>5. CASE FirstByte \/ Prefix
    <3>1. stage' \in {"serve", "done"} \/ console' = console
      BY <2>5 DEF FirstByte, Prefix, Choose, ChooseBrief, Enter
    <3>2. stage \in {"probe", "prefix"}
      BY <2>5 DEF FirstByte, Prefix
    <3> QED BY <1>k, <2>1, <3>1, <3>2 DEF Place
  <2>6. CASE AnswerRequest \/ ServiceReturns
    <3>1. stage' = "done"
      BY <2>6 DEF AnswerRequest, ServiceReturns, Return, Enter
    <3> QED BY <1>k, <2>1, <3>1 DEF Place
  <2>7. CASE ServeLines
    <3>1. stage' = "serve"
      BY <2>7 DEF ServeLines
    <3> QED BY <1>k, <2>1, <3>1 DEF Place
  <2> QED BY <1>1, <2>2, <2>3, <2>4, <2>5, <2>6, <2>7 DEF PlainNext, PlainStep
<1>2. CASE SSHDo(SSHStep)
  <2>1. kind = "ssh" /\ buf \in Seq(Octets) /\ (chan \in {"none", "requests"} => console = "off")
    BY <1>2 DEF SSHDo, Place
  <2>2. CASE ReaderStep
    <3>1. UNCHANGED <<buf, chan, console>>
      BY <2>2 DEF ReaderStep, BeginPacket, AwaitPacket, LoopFails, Resume
    <3> QED BY <1>k, <2>1, <3>1 DEF Place
  <2>3. CASE MainStep
    <3>1. UNCHANGED <<buf, console>>
      BY <2>3 DEF MainStep, Authenticate, ClearPhase, ExtendDeadline, TakeChannel, Finish,
                  WaitFinished
    <3>2. chan' = chan \/ ~ accepted
      BY <2>3 DEF MainStep, Authenticate, ClearPhase, ExtendDeadline, TakeChannel, Finish,
                  WaitFinished
    <3>3. ~ accepted => chan = "none"
      BY DEF Session
    <3> QED BY <1>k, <2>1, <3>1, <3>2, <3>3 DEF Place
  <2>4. CASE DenyGlobal \/ DrainRequest
    <3>1. UNCHANGED <<buf, chan, console>>
      BY <2>4 DEF DenyGlobal, DrainRequest
    <3> QED BY <1>k, <2>1, <3>1 DEF Place
  <2>5. CASE Exec
    <3>1. UNCHANGED <<buf, console>> /\ chan' = "finished"
      BY <2>5 DEF Exec
    <3> QED BY <1>k, <2>1, <3>1 DEF Place
  <2>6. CASE TakeRequest
    <3>1. chan = "requests" /\ buf' = buf /\ (chan' \in {"none", "requests"} => console' = console)
      <4>1. CASE requests # <<>>
        <5>1. PICK k : k = IF count' > MaxBefore THEN "malformed" ELSE Head(requests)
          OBVIOUS
        <5>2. CASE k = "shell"
          BY <2>6, <4>1, <5>1, <5>2 DEF TakeRequest
        <5>3. CASE k # "shell"
          BY <2>6, <4>1, <5>1, <5>3 DEF TakeRequest
        <5> QED BY <5>2, <5>3
      <4>2. CASE requests = <<>>
        BY <2>6, <4>2 DEF TakeRequest
      <4> QED BY <4>1, <4>2
    <3> QED BY <1>k, <2>1, <3>1 DEF Place
  <2>7. CASE Shell
    <3>1. chan = "shell" /\ chan' \in {"shell", "finished"}
      BY <2>7 DEF Shell
    <3>2. (\E oks : ConsoleStep(oks)) \/ StreamFails \/ UNCHANGED consoleVars
      BY <2>7 DEF Shell
    <3>3. buf' \in Seq(Octets)
      BY <2>1, <3>2, ConsoleBuffer
    <3> QED BY <1>k, <2>1, <3>1, <3>3 DEF Place
  <2> QED BY <1>2, <2>2, <2>3, <2>4, <2>5, <2>6, <2>7 DEF SSHDo, SSHStep, ChanStep
<1>3. CASE Around(Pass) \/ Around(Expire) \/ Around(Leave)
  BY <1>k, <1>3 DEF Around, Place
<1>4. CASE PeerSends
  BY <1>k, <1>4 DEF PeerSends, Send, Place
<1>5. CASE SSHDo(Packet)
  <2>1. kind = "ssh" /\ buf \in Seq(Octets) /\ (chan \in {"none", "requests"} => console = "off")
    BY <1>5 DEF SSHDo, Place
  <2>2. UNCHANGED <<chan, console>>
    BY <1>5 DEF SSHDo, Packet
  <2>3. buf' = buf \/ \E k \in Typing : buf' = buf \o k
    BY <1>5 DEF SSHDo, Packet, GlobalRequest, OpenChannel, ChannelRequest, ChannelData
  <2>4. buf' \in Seq(Octets)
    <3>1. CASE buf' = buf
      BY <2>1, <3>1
    <3>2. CASE \E k \in Typing : buf' = buf \o k
      <4>1. PICK k \in Typing : buf' = buf \o k
        BY <3>2
      <4>2. k \in Seq(Octets)
        BY SSHAssumption DEF Octets
      <4> QED BY <2>1, <4>1, <4>2
    <3> QED BY <2>3, <3>1, <3>2
  <2> QED BY <1>k, <2>1, <2>2, <2>4 DEF Place
<1>6. CASE UNCHANGED vars
  BY <1>6 DEF vars, Place
<1> QED BY <1>1, <1>2, <1>3, <1>4, <1>5, <1>6 DEF Next, Run, Peer

\* The lines are those of the stream, up to one that is too long.
LinesKept ==
  IF tooLong THEN Front(Lines(typed)) = lines /\ Len(Last(Lines(typed))) = LineMax + 1
             ELSE Lines(typed) = Append(lines, term.line)

ReadLines ==
  /\ console \in {"off", "greet", "read", "run", "ended"}
  /\ console = "off" => typed = <<>> /\ lines = <<>> /\ echoed = <<>> /\ term = Fresh
  /\ console # "ended" => ~ tooLong /\ \E e : Reading(typed, term, lines, e) /\ (echo => e = echoed)
  /\ LinesKept

LEMMA ReadingIs ==
  ASSUME NEW s, NEW t, NEW ls, NEW e, Reading(s, t, ls, e)
  PROVE  /\ Lines(s) = Append(ls, t.line) /\ s \in Seq(Octets) /\ ls \in Seq(Seq(Nat))
         /\ ToSet(KeysOf(Payload(s))) \subseteq 0..127 => Screen(e) = Lines(s)
<1>1. PICK p, k, r : Reader(s, t, ls, e, p, k, r)
  BY DEF Reading
<1>2. /\ Payload(s) = p /\ KeysOf(p) = k /\ Lines(s) = Append(ls, t.line)
      /\ Ascii(k) => Screen(e) = Lines(s)
  BY <1>1, ReaderIs
<1>3. s \in Seq(Octets) /\ ls \in Seq(Seq(Nat)) /\ k \in Seq(Nat)
  BY <1>1 DEF Reader, Typed
<1>4. ASSUME ToSet(k) \subseteq 0..127 PROVE Ascii(k)
  <2>1. DOMAIN k = 1..Len(k)
    BY <1>3
  <2>2. \A i \in 1..Len(k) : k[i] \in 0..127
    BY <1>4, <2>1 DEF ToSet
  <2>3. \A c \in 0..127 : c < 128
    OBVIOUS
  <2> QED BY <2>2, <2>3 DEF Ascii
<1> QED BY <1>2, <1>3, <1>4

LEMMA LastRow ==
  ASSUME NEW ls \in Seq(Seq(Nat)), NEW x \in Seq(Nat)
  PROVE  Front(Append(ls, x)) = ls /\ Last(Append(ls, x)) = x
<1>1. PICK y : y = Append(ls, x)
  OBVIOUS
<1>2. Len(ls) \in Nat /\ Len(y) = Len(ls) + 1 /\ y[Len(ls) + 1] = x /\ y \in Seq(Seq(Nat))
      /\ \A i \in 1..Len(ls) : y[i] = ls[i]
  BY <1>1, AppendIs
<1>3. SubSeq(y, 1, Len(ls)) = ls
  <2>1. /\ SubSeq(y, 1, Len(ls)) \in Seq(Seq(Nat)) /\ Len(SubSeq(y, 1, Len(ls))) = Len(ls)
        /\ \A i \in 1..Len(ls) : SubSeq(y, 1, Len(ls))[i] = y[i]
    BY <1>2
  <2> QED BY <1>2, <2>1
<1> QED BY <1>1, <1>2, <1>3 DEF Front, Last

LEMMA InitLines == Init => ReadLines
<1> SUFFICES ASSUME Init PROVE ReadLines
  OBVIOUS
<1>1. /\ console = "off" /\ typed = <<>> /\ lines = <<>> /\ echoed = <<>> /\ term = Fresh
      /\ tooLong = FALSE
  BY DEF Init, ConsoleInit
<1>2. Reading(typed, term, lines, echoed)
  BY <1>1, ReadingBegins
<1>3. LinesKept
  BY <1>1, <1>2, ReadingIs DEF LinesKept
<1> QED BY <1>1, <1>2, <1>3 DEF ReadLines

\* A byte of the stream, whatever is written.
LEMMA TakeLines ==
  ASSUME ReadLines, buf \in Seq(Octets), NEW ok, TakeByte(ok)
  PROVE  ReadLines'
<1>1. console = "read" /\ buf # <<>> /\ echo' = echo /\ ~ tooLong
  BY DEF TakeByte, ReadLines
<1>2. PICK e : Reading(typed, term, lines, e) /\ (echo => e = echoed)
  BY <1>1 DEF ReadLines
<1>3. PICK b \in Octets : b = Head(buf)
  BY <1>1
<1>4. PICK res : res = Byte(term, b)
  OBVIOUS
<1>5. PICK shown : shown = IF echo THEN res.echo ELSE <<>>
  OBVIOUS
<1>6. PICK fails : fails = (shown # <<>> /\ ~ ok)
  OBVIOUS
<1>7. /\ typed' = Append(typed, b)
      /\ echoed' = IF fails THEN echoed ELSE echoed \o shown
      /\ lines' = LinesAfter(res, lines) /\ term' = TermAfter(res)
      /\ tooLong' = (res.end = "long")
      /\ console' = CASE res.end \in {"quit", "long"} \/ fails -> "ended"
                      [] res.end = "line" /\ ~ fails -> "run"
                      [] res.end = "none" /\ ~ fails -> "read"
  BY <1>3, <1>4, <1>5, <1>6 DEF TakeByte, LinesAfter, TermAfter
<1>8. ByteRead(typed, b, lines, e, res)
  BY <1>2, <1>4, ByteReads
<1>9. lines \in Seq(Seq(Nat))
  BY <1>2, ReadingIs
<1>10. CASE res.end \in {"none", "line"}
  <2>1. Reading(typed', term', lines', e \o res.echo)
    BY <1>7, <1>8, <1>10 DEF ByteRead
  <2>2. Lines(typed') = Append(lines', term'.line)
    BY <2>1, ReadingIs
  <2>3. ~ tooLong' /\ LinesKept'
    BY <1>7, <1>10, <2>2 DEF LinesKept
  <2>4. console' \in {"read", "run", "ended"} /\ (console' # "ended" => ~ fails)
    <3>1. CASE fails
      BY <1>7, <3>1
    <3>2. CASE ~ fails
      BY <1>7, <1>10, <3>2
    <3> QED BY <3>1, <3>2
  <2>5. ~ fails /\ echo => e \o res.echo = echoed'
    BY <1>2, <1>5, <1>7
  <2> QED BY <1>1, <2>1, <2>3, <2>4, <2>5 DEF ReadLines
<1>11. CASE res.end = "quit"
  <2>1. Lines(typed') = Append(lines, res.term.line)
    BY <1>7, <1>8, <1>11 DEF ByteRead
  <2>2. lines' = lines /\ term' = res.term /\ ~ tooLong' /\ console' = "ended"
    BY <1>7, <1>11 DEF LinesAfter, TermAfter
  <2> QED BY <2>1, <2>2 DEF ReadLines, LinesKept
<1>12. CASE res.end = "long"
  <2>1. PICK x \in Seq(Nat) : Lines(typed') = Append(lines, x) /\ Len(x) = LineMax + 1
    BY <1>7, <1>8, <1>12 DEF ByteRead
  <2>2. lines' = lines /\ tooLong' /\ console' = "ended"
    BY <1>7, <1>12 DEF LinesAfter
  <2>3. Front(Lines(typed')) = lines /\ Last(Lines(typed')) = x
    BY <1>9, <2>1, LastRow
  <2> QED BY <2>1, <2>2, <2>3 DEF ReadLines, LinesKept
<1>13. res.end \in {"none", "line", "long", "quit"}
  BY <1>8 DEF ByteRead
<1> QED BY <1>10, <1>11, <1>12, <1>13

LEMMA SameLines ==
  ASSUME ReadLines, NothingRead
  PROVE  ReadLines'
<1>1. LinesKept'
  BY DEF ReadLines, NothingRead, LinesKept
<1>2. CASE echo' = echo /\ console' = console
  BY <1>1, <1>2 DEF ReadLines, NothingRead
<1>3. CASE echo' = echo /\ console \in {"greet", "read", "run"} /\ console' \in {"read", "ended"}
  BY <1>1, <1>3 DEF ReadLines, NothingRead
<1>4. CASE console = "off" /\ console' \in {"greet", "read"}
  <2>1. Reading(typed', term', lines', echoed') /\ ~ tooLong'
    BY <1>4, ReadingBegins DEF ReadLines, NothingRead
  <2> QED BY <1>1, <1>4, <2>1 DEF ReadLines
<1> QED BY <1>2, <1>3, <1>4 DEF NothingRead

LineInv == PlainInv /\ Session /\ Place /\ ReadLines

LEMMA NextLineInv ==
  ASSUME LineInv, [Next]_vars
  PROVE  LineInv'
<1>1. PlainInv' /\ Session' /\ Place'
  BY NextPlain, NextSession, NextPlace DEF LineInv
<1>2. buf \in Seq(Octets)
  BY DEF LineInv, PlainInv, Stream, Place
<1>3. ReadLines'
  BY <1>2, NextReads, TakeLines, SameLines DEF LineInv
<1> QED BY <1>1, <1>3 DEF LineInv

\* The services get the lines of the whole stream, and a client with a pty sees
\* them, however the stream was cut, for every stream and every length of a line.
THEOREM LinesCorrect == Spec => []LinesOfStream
<1>1. Init => LineInv
  <2> SUFFICES ASSUME Init PROVE LineInv
    OBVIOUS
  <2>1. PlainInv /\ ReadLines
    BY InitStream, InitLines
  <2>2. Session
    BY DEF Init, SSHInit, Session
  <2>3. Place
    BY DEF Init, ConsoleInit, Place
  <2> QED BY <2>1, <2>2, <2>3 DEF LineInv
<1>2. LineInv /\ [Next]_vars => LineInv'
  BY NextLineInv
<1>3. LineInv => LinesOfStream
  <2> SUFFICES ASSUME LineInv PROVE LinesOfStream
    OBVIOUS
  <2>1. LinesKept
    BY DEF LineInv, ReadLines
  <2>2. ASSUME echo, console # "ended", ToSet(KeysOf(Payload(typed))) \subseteq 0..127
        PROVE  Screen(echoed) = Lines(typed)
    <3>1. PICK e : Reading(typed, term, lines, e) /\ (echo => e = echoed)
      BY <2>2 DEF LineInv, ReadLines
    <3> QED BY <2>2, <3>1, ReadingIs
  <2> QED BY <2>1, <2>2 DEF LinesOfStream, LinesKept
<1> QED BY <1>1, <1>2, <1>3, PTL DEF Spec
=============================================================================
