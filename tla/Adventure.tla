------------------------------ MODULE Adventure ------------------------------
(***************************************************************************)
(* One visitor's session of the adventure (internal/adventure/game.go and  *)
(* guidance.go): a deterministic reply to every line the visitor sends.    *)
(*                                                                         *)
(* A line is a record:                                                     *)
(*   cmd, arg  its first word and the rest, cleaned and in lower case      *)
(*   item      arg with underscores for its spaces                         *)
(*   answer    the whole line without its spaces                           *)
(***************************************************************************)
EXTENDS World

CONSTANTS
  Worlds,    \* the worlds that may be loaded
  Lines,     \* the lines a visitor may send
  Sorted,    \* the directions in the order of their names
  NoDir      \* no direction

Cmd(cmd, arg) == [cmd |-> cmd, arg |-> arg]
NoHint == Cmd("", "")
LookAround == Cmd("look", "")

\* What the guide may suggest in a world.
Commands(w) ==
  {LookAround}
    \cup {Cmd("go", d) : d \in UNION {DOMAIN w.rooms[r].exits : r \in RoomIds(w)}}
    \cup {Cmd("take", item) : item \in Pickups(w)}
    \cup {Cmd(cmd, id) : cmd \in {"read", "use"}, id \in DOMAIN w.rewards}

\* A world has finitely many rooms, and Sorted names every direction.  A visitor
\* can send what the guide may suggest: an identifier is not empty and holds no
\* spaces, so that it is its own item.
ASSUME AdventureAssumption ==
  /\ IsList(Sorted) /\ NoDir \notin ToSet(Sorted)
  /\ \A w \in Worlds :
       /\ IsFiniteSet(RoomIds(w))
       /\ \A r \in RoomIds(w) : /\ DOMAIN w.rooms[r].exits \subseteq ToSet(Sorted)
                               /\ IsList(w.rooms[r].pickup) /\ IsList(w.rooms[r].rewards)
       /\ \A c \in Commands(w) :
            /\ \E l \in Lines : l.cmd = c.cmd /\ l.arg = c.arg
            /\ \A l \in Lines : l.arg = c.arg => l.item = c.arg
            /\ c # LookAround => c.arg # ""

VARIABLES
  world,        \* the validated world
  connected,    \* the visitor has not quit
  room, inventory, unlocked, taken, puzzleDir, elevated, completed, readRewards,
  decoy,        \* the session has its decoy key
  solved,       \* history: the gates whose challenge was answered
  victories,    \* history: how many victory events were emitted
  reply,        \* what the last line came to
  hint          \* the command that the last reply suggests

progress == <<room, inventory, unlocked, taken, puzzleDir, elevated, completed, readRewards,
              decoy, solved, victories>>
vars == <<world, connected, progress, reply, hint>>

RoomOf(r) == world.rooms[r]
ExitAt(r, d) == RoomOf(r).exits[d]

\* The first member of S in the sequence s, if there is one.
FirstIn(s, S) ==
  {s[i] : i \in {j \in DOMAIN s : s[j] \in S /\ \A k \in 1..j - 1 : s[k] \notin S}}

Gated(e) == e.key # None \/ e.puzzle # None
\* Mutant: a locked exit opens without its key.
KeyIgnored(e) == TRUE

KeyFits(e) == e.key = None \/ e.key \in inventory
-----------------------------------------------------------------------------
(* nextCommand: a search, breadth first, of the rooms the visitor can walk *)
(* to, for the first one with something left to do.                        *)

\* The visitor can walk through, unlocking with a key he holds.
Passable(r, d) ==
  <<r, d>> \in unlocked \/ (KeyFits(ExitAt(r, d)) /\ ExitAt(r, d).puzzle = None)

\* A challenge that he can begin.
Ready(r, d) ==
  <<r, d>> \notin unlocked /\ KeyFits(ExitAt(r, d)) /\ ExitAt(r, d).puzzle # None

Step(r, first) == [room |-> r, first |-> first]
Steps == [room : RoomIds(world), first : ToSet(Sorted) \cup {NoDir}]

\* Mutant: the step keeps the last direction instead of the first one.
FirstDirLast(s, d) == d

\* The first direction of the way to a room behind the step.
FirstDir(s, d) == IF s.first = NoDir THEN d ELSE s.first

\* The queue, with the room behind exit d of step s if it does not hold it yet.
EnqueueExit(q, s, d) ==
  IF /\ d \in DOMAIN RoomOf(s.room).exits /\ Passable(s.room, d)
     /\ \A i \in DOMAIN q : q[i].room # ExitAt(s.room, d).to
  THEN Append(q, Step(ExitAt(s.room, d).to, FirstDir(s, d)))
  ELSE q

\* The queue, with what the exits of step s add to it: add[n] is for the last n
\* directions.
Enqueue(queue, s) ==
  LET add[n \in 0..Len(Sorted)] ==
        [q \in Seq(Steps) |->
           IF n = 0 THEN q ELSE add[n - 1][EnqueueExit(q, s, Sorted[Len(Sorted) - n + 1])]]
  IN  add[Len(Sorted)][queue]

Unread(r) == FirstIn(RoomOf(r).rewards, DOMAIN world.rewards \ readRewards)
Untaken(r) == FirstIn(RoomOf(r).pickup, Pickups(world) \ inventory)
Begun(r) == FirstIn(Sorted, {d \in DOMAIN RoomOf(r).exits : Ready(r, d)})

ReadReward(id) == Cmd(IF world.rewards[id].kind = "shell" THEN "use" ELSE "read", id)

\* Mutant: challenges are not suggested.
ActionNoGates(r) ==
  IF Unread(r) # {} THEN {ReadReward(id) : id \in Unread(r)}
  ELSE {Cmd("take", item) : item \in Untaken(r)}

\* What is left to do in a room, if anything is: the first artifact to read, else
\* the first item to take, else the first challenge to begin.
Action(r) ==
  IF Unread(r) # {} THEN {ReadReward(id) : id \in Unread(r)}
  ELSE IF Untaken(r) # {} THEN {Cmd("take", item) : item \in Untaken(r)}
  ELSE {Cmd("go", d) : d \in Begun(r)}

\* What is suggested for a step with something left: its first direction, or in
\* the visitor's own room what is left.
Suggestion(s) ==
  IF s.first # NoDir THEN Cmd("go", s.first) ELSE CHOOSE c \in Action(s.room) : TRUE

\* search[n] is for a queue of which n steps at most are to come.
NextCommand ==
  LET N == Cardinality(RoomIds(world))
      search[n \in 0..N] ==
        [q \in Seq(Steps) |->
           LET i == N - n + 1
           IN  IF i > N \/ i > Len(q) THEN LookAround
               ELSE IF Action(q[i].room) # {} THEN Suggestion(q[i])
               ELSE search[n - 1][Enqueue(q, q[i])]]
  IN  search[N][<<Step(room, NoDir)>>]
-----------------------------------------------------------------------------
(* Replies.  guide adds the next command, but not while a challenge is on. *)

Say(kind) == reply' = kind /\ hint' = NoHint

Guide ==
  /\ UNCHANGED progress
  /\ IF puzzleDir # NoDir
     THEN Say("guided")
     ELSE reply' = "guided" /\ hint' = NextCommand

Tell == UNCHANGED progress /\ Say("text")

\* unlock: a gate with a challenge shows it, any other gate opens.
Unlock(d) ==
  IF ExitAt(room, d).puzzle # None
  THEN puzzleDir' = d /\ UNCHANGED unlocked
  ELSE unlocked' = unlocked \cup {<<room, d>>} /\ UNCHANGED puzzleDir

Compass == {"north", "south", "east", "west", "up", "down"}
Shortcut == [n |-> "north", s |-> "south", e |-> "east", w |-> "west", u |-> "up", d |-> "down"]

\* Mutant: a shortcut is taken for a compass direction even when an exit has its name.
ResolveShortcut(word) == IF word \in DOMAIN Shortcut THEN Shortcut[word] ELSE word

\* An exit that bears the name of a shortcut takes precedence over it.
Resolve(word) ==
  IF word \notin DOMAIN RoomOf(room).exits /\ word \in DOMAIN Shortcut
  THEN Shortcut[word]
  ELSE word

\* Mutant: the visitor goes on through a gate whose challenge has begun.
MoveOn(word) ==
  LET d == Resolve(word) IN
  IF d \notin DOMAIN RoomOf(room).exits THEN Guide
  ELSE /\ IF <<room, d>> \notin unlocked /\ Gated(ExitAt(room, d))
          THEN Unlock(d)
          ELSE UNCHANGED <<unlocked, puzzleDir>>
       /\ room' = ExitAt(room, d).to
       /\ Say("text")
       /\ UNCHANGED <<inventory, taken, elevated, completed, readRewards, decoy, solved, victories>>

Move(word) ==
  LET d == Resolve(word) IN
  IF d \notin DOMAIN RoomOf(room).exits THEN Guide
  ELSE LET e == ExitAt(room, d)
           shut == <<room, d>> \notin unlocked /\ Gated(e)
       IN  IF shut /\ ~ KeyFits(e) THEN Guide
           ELSE /\ IF shut THEN Unlock(d) ELSE UNCHANGED <<unlocked, puzzleDir>>
                /\ room' = IF puzzleDir' # NoDir THEN room ELSE e.to
                /\ Say("text")
                /\ UNCHANGED <<inventory, taken, elevated, completed, readRewards, decoy,
                               solved, victories>>
-----------------------------------------------------------------------------
(* Rewards *)

\* The reward of the room that a name stands for: the first one listed.
Named(arg) ==
  FirstIn(RoomOf(room).rewards,
          {id \in DOMAIN world.rewards : arg = id \/ arg \in world.rewards[id].aliases})

\* Mutant: the reward is recorded before its content can be made.
RewardEarly(id) ==
  LET r == world.rewards[id] IN
  /\ elevated' = (elevated \/ r.kind = "shell")
  /\ readRewards' = readRewards \cup {id}
  /\ completed' = TRUE
  /\ decoy' \in IF r.decoy THEN {decoy, TRUE} ELSE {decoy}
  /\ victories' = IF completed THEN victories ELSE victories + 1
  /\ Say(IF completed THEN "text" ELSE "victory")
  /\ UNCHANGED <<room, inventory, unlocked, taken, puzzleDir, solved>>

\* reward: the decoy key is generated for the first reward that shows it, which
\* may fail; the first reward of a session is its victory.
Reward(id) ==
  LET r == world.rewards[id] IN
  \/ /\ elevated' = (elevated \/ r.kind = "shell")
     /\ readRewards' = readRewards \cup {id}
     /\ completed' = TRUE
     /\ decoy' = (decoy \/ r.decoy)
     /\ victories' = IF completed THEN victories ELSE victories + 1
     /\ Say(IF completed THEN "text" ELSE "victory")
     /\ UNCHANGED <<room, inventory, unlocked, taken, puzzleDir, solved>>
  \/ r.decoy /\ ~ decoy /\ Tell
-----------------------------------------------------------------------------
(* The commands *)

Read(l) ==
  IF l.arg = "" THEN Guide
  ELSE \/ \E id \in Named(l.arg) : Reward(id)
       \/ /\ Named(l.arg) = {}
          /\ IF l.item \in RoomOf(room).items THEN Tell ELSE Guide

Take(l) ==
  IF l.arg = "" \/ l.item \notin ToSet(RoomOf(room).pickup) THEN Guide
  ELSE IF l.item \in taken THEN Tell
  ELSE /\ inventory' = inventory \cup {l.item}
       /\ taken' = taken \cup {l.item}
       /\ Say("text")
       /\ UNCHANGED <<room, unlocked, puzzleDir, elevated, completed, readRewards, decoy,
                      solved, victories>>

\* The exit that the item unlocks: the first one by name.
KeyedBy(item) ==
  FirstIn(Sorted, {d \in DOMAIN RoomOf(room).exits :
                     /\ ExitAt(room, d).key = item /\ item \in inventory
                     /\ <<room, d>> \notin unlocked})

Use(l) ==
  \/ \E id \in Named(l.arg) : Reward(id)
  \/ /\ Named(l.arg) = {} /\ l.arg # ""
     /\ \E d \in KeyedBy(l.item) : Unlock(d)
     /\ Say("text")
     /\ UNCHANGED <<room, inventory, taken, elevated, completed, readRewards, decoy,
                    solved, victories>>
  \/ /\ Named(l.arg) = {} /\ (l.arg = "" \/ KeyedBy(l.item) = {})
     /\ Guide

Quit ==
  /\ connected' = FALSE
  /\ UNCHANGED progress /\ Say("quit")

\* A line outside of a challenge.
Command(l) ==
  LET ways == Compass \cup DOMAIN Shortcut
      goes == {"go", "move", "walk"}
      reads == {"read", "examine", "cat", "open", "check", "inspect"}
      takes == {"take", "grab", "get", "pickup"}
      quits == {"quit", "exit", "logout", "q"}
      roots == {"whoami", "id", "pwd", "hostname", "uname"}
      tells == {"look", "l", "inventory", "inv", "i"}
  IN \/ l.cmd \in quits /\ Quit
     \/ /\ l.cmd \notin quits /\ UNCHANGED connected
        /\ \/ l.cmd \in ways /\ Move(l.cmd)
           \/ l.cmd \in goes /\ Move(l.arg)
           \/ l.cmd \in reads /\ Read(l)
           \/ l.cmd \in takes /\ Take(l)
           \/ l.cmd = "use" /\ Use(l)
           \/ l.cmd \in tells /\ Tell
           \/ l.cmd \in roots /\ IF elevated THEN Tell ELSE Guide
           \/ /\ l.cmd \notin ways \cup goes \cup reads \cup takes \cup {"use"} \cup tells \cup roots
              /\ Guide

Accepted(l) == l.answer \in world.puzzles[ExitAt(room, puzzleDir).puzzle]

\* Mutant: the challenge stays open after a right answer.
AtPanelStays(l) ==
  /\ UNCHANGED connected
  /\ unlocked' = unlocked \cup {<<room, puzzleDir>>}
  /\ solved' = solved \cup {<<room, puzzleDir>>}
  /\ Say("text")
  /\ UNCHANGED <<room, inventory, taken, puzzleDir, elevated, completed, readRewards, decoy,
                 victories>>

\* A line at a challenge: some words step back or leave, whatever the answers are.
AtPanel(l) ==
  LET bare == l.arg = "" IN
  \/ /\ bare /\ l.cmd \in {"cancel", "back"}
     /\ puzzleDir' = NoDir /\ Say("text")
     /\ UNCHANGED <<connected, room, inventory, unlocked, taken, elevated, completed,
                    readRewards, decoy, solved, victories>>
  \/ bare /\ l.cmd \in {"quit", "exit"} /\ Quit
  \/ /\ ~ (bare /\ l.cmd \in {"cancel", "back", "quit", "exit"})
     /\ UNCHANGED connected
     /\ IF Accepted(l)
        THEN /\ unlocked' = unlocked \cup {<<room, puzzleDir>>}
             /\ solved' = solved \cup {<<room, puzzleDir>>}
             /\ puzzleDir' = NoDir
             /\ Say("text")
             /\ UNCHANGED <<room, inventory, taken, elevated, completed, readRewards, decoy,
                            victories>>
        ELSE Guide

Run(l) ==
  /\ connected /\ UNCHANGED world
  /\ \/ l.cmd = "" /\ Tell /\ UNCHANGED connected
     \/ l.cmd # "" /\ puzzleDir = NoDir /\ Command(l)
     \/ l.cmd # "" /\ puzzleDir # NoDir /\ AtPanel(l)

\* NewSession, for a world that Load has accepted.
Init ==
  /\ world \in {w \in Worlds : Validate(w)}
  /\ connected = TRUE
  /\ room = world.start
  /\ inventory = {} /\ unlocked = {} /\ taken = {} /\ readRewards = {} /\ solved = {}
  /\ puzzleDir = NoDir
  /\ elevated = FALSE /\ completed = FALSE /\ decoy = FALSE /\ victories = 0
  /\ reply = "none" /\ hint = NoHint

Next == \E l \in Lines : Run(l)

Spec == Init /\ [][Next]_vars
-----------------------------------------------------------------------------
(***************************************************************************)
(* A visitor who follows the guidance: it probes, runs what is suggested,  *)
(* and tries any line at a challenge, but never quits.                     *)
(***************************************************************************)
LineOf(c) == CHOOSE l \in Lines : l.cmd = c.cmd /\ l.arg = c.arg

BotProbe == puzzleDir = NoDir /\ hint = NoHint /\ Run(LineOf(Cmd("sudo", "")))

BotFollow == puzzleDir = NoDir /\ hint # NoHint /\ Run(LineOf(hint))

BotAnswer == puzzleDir # NoDir /\ \E l \in Lines : Run(l) /\ UNCHANGED connected

BotNext == BotProbe \/ BotFollow \/ BotAnswer

\* It goes on, it does not get every challenge wrong for ever, and the decoy key
\* is not refused for ever.
BotFairness ==
  /\ WF_vars(BotNext)
  /\ SF_vars(BotAnswer /\ solved' # solved)
  /\ SF_vars(BotFollow /\ readRewards' # readRewards)

BotSpec == Init /\ [][BotNext]_vars /\ BotFairness
-----------------------------------------------------------------------------
(* Properties *)

Gates == UNION {{<<r, d>> : d \in DOMAIN RoomOf(r).exits} : r \in RoomIds(world)}

\* The type invariant.
TypeOK ==
  /\ connected \in BOOLEAN /\ elevated \in BOOLEAN /\ completed \in BOOLEAN /\ decoy \in BOOLEAN
  /\ room \in RoomIds(world)
  /\ inventory \subseteq Pickups(world) /\ taken \subseteq Pickups(world)
  /\ unlocked \subseteq Gates /\ solved \subseteq Gates
  /\ puzzleDir \in DOMAIN RoomOf(room).exits \cup {NoDir}
  /\ readRewards \subseteq DOMAIN world.rewards
  /\ victories \in Nat
  /\ reply \in {"none", "text", "guided", "victory", "quit"}
  /\ hint \in [cmd : {"", "look", "go", "take", "use", "read"}, arg : {l.arg : l \in Lines}]

\* A visitor is only where open and unlocked exits lead from the start, every
\* unlocked gate's key is in hand and its challenge was answered, and whatever
\* was read or taken lay in a room that he could enter.
Held(e) == e.key = None \/ e.key \in inventory
IsOpen(g) == g \in unlocked \/ ~ Gated(ExitAt(g[1], g[2]))
ClosedUnder(S, Through(_)) ==
  \A g \in Gates : g[1] \in S /\ Through(g) => ExitAt(g[1], g[2]).to \in S
EarnedRooms ==
  {r \in RoomIds(world) : \A S \in SUBSET RoomIds(world) :
                            world.start \in S /\ ClosedUnder(S, IsOpen) => r \in S}

Earned ==
  /\ room \in EarnedRooms
  /\ \A g \in unlocked : /\ Held(ExitAt(g[1], g[2]))
                         /\ ExitAt(g[1], g[2]).puzzle # None => g \in solved
  /\ \A id \in readRewards : \E r \in EarnedRooms : id \in ToSet(RoomOf(r).rewards)
  /\ \A item \in inventory : \E r \in EarnedRooms : item \in ToSet(RoomOf(r).pickup)

\* While a challenge is on, it is that of a locked exit of the visitor's room
\* for which he has the key: the prompt and the answers are its own.
PanelConsistent ==
  puzzleDir # NoDir =>
    /\ <<room, puzzleDir>> \in Gates \ unlocked
    /\ ExitAt(room, puzzleDir).puzzle # None /\ Held(ExitAt(room, puzzleDir))

\* A session has one victory, at its first reward, and the state it shows
\* afterwards (the root prompt, the decoy key) is that of the rewards it read.
RewardsConsistent ==
  /\ completed <=> readRewards # {}
  /\ victories = IF completed THEN 1 ELSE 0
  /\ elevated <=> \E id \in readRewards : world.rewards[id].kind = "shell"
  /\ decoy <=> \E id \in readRewards : world.rewards[id].decoy

\* The guide only says "look" when no room that the visitor can walk to holds
\* anything to read, to take or to answer.
CanPass(g) ==
  g \in unlocked \/ (Held(ExitAt(g[1], g[2])) /\ ExitAt(g[1], g[2]).puzzle = None)

NothingLeft ==
  \E S \in SUBSET RoomIds(world) :
    /\ room \in S /\ ClosedUnder(S, CanPass)
    /\ \A r \in S : /\ ToSet(RoomOf(r).rewards) \subseteq readRewards
                    /\ ToSet(RoomOf(r).pickup) \subseteq inventory
    /\ \A g \in Gates : g[1] \in S /\ Held(ExitAt(g[1], g[2])) => CanPass(g)

LookMeansDone == NextCommand = LookAround <=> NothingLeft

\* A suggested command is valid where it is suggested: it is never answered by
\* a refusal, and a suggested direction is taken literally, through the exit of
\* that name or to its challenge.
HintPlayable ==
  [][hint # NoHint /\ Run(LineOf(hint)) =>
       /\ reply' # "guided"
       /\ hint.cmd = "go" => room' = ExitAt(room, hint.arg).to \/ puzzleDir' = hint.arg]_vars

\* From every room, exits without a gate lead back to the start.
Returnable(w) ==
  \A S \in SUBSET RoomIds(w) :
    (/\ S # {}
     /\ \A r \in S : \A e \in ExitsOf(w, r) : e.key = None /\ e.puzzle = None => e.to \in S)
    => w.start \in S

\* The guidance never leads in a circle: whoever follows it comes to the point
\* where nothing is left.
GuideSettles == <>[](puzzleDir = NoDir /\ NextCommand = LookAround)

\* In a validated world from whose rooms the visitor can go back, it leads to
\* everything.
GuideCompletes ==
  Returnable(world) =>
    <>(readRewards = DOMAIN world.rewards /\ inventory = Pickups(world))

\* A visitor who tries every line at a challenge, its configured answers among
\* them, opens its gate.
AnswersOpen ==
  \A g \in UNION {{<<r, d>> : r \in RoomIds(w), d \in ToSet(Sorted)} : w \in Worlds} :
    (room = g[1] /\ puzzleDir = g[2]) ~> g \in solved

\* Every room of a validated world is reached by some visitor.
Moves(w, s) ==
  {[room |-> s.room, keys |-> s.keys \cup ToSet(w.rooms[s.room].pickup)]}
    \cup {[room |-> e.to, keys |-> s.keys] :
            e \in {x \in ExitsOf(w, s.room) : x.key = None \/ x.key \in s.keys}}

Played(w) ==
  LET N == Cardinality(RoomIds(w)) * (Cardinality(Pickups(w)) + 1)
      play[n \in 0..N] ==
        IF n = 0 THEN {[room |-> w.start, keys |-> {}]}
        ELSE LET S == play[n - 1] IN S \cup UNION {Moves(w, s) : s \in S}
  IN  {s.room : s \in play[N]}

RoomsReachable == reply = "none" => RoomIds(world) \subseteq Played(world)
=============================================================================
