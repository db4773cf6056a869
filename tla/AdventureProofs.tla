--------------------------- MODULE AdventureProofs ---------------------------
(***************************************************************************)
(* Theorems about a session of the adventure, for every validated world    *)
(* and any lines: what the visitor can come to, and what the guide         *)
(* suggests to him.                                                        *)
(***************************************************************************)
EXTENDS FiniteSetTheorems, SetInduction, Adventure

(* The inductive invariant.  The three properties are inductive together:  *)
(* a gate opened at a challenge is earned because the challenge on is one  *)
(* of the visitor's room, and what he reads there because the room is one  *)
(* he could enter.                                                         *)

SessionOK ==
  /\ world \in Worlds /\ Validate(world)
  /\ room \in RoomIds(world)
  /\ elevated \in BOOLEAN /\ completed \in BOOLEAN /\ decoy \in BOOLEAN

IInv == SessionOK /\ Earned /\ PanelConsistent /\ RewardsConsistent
-----------------------------------------------------------------------------
(* Rooms and gates *)

\* An exit of a room is a gate of the world.
LEMMA GateOf ==
  ASSUME NEW r \in RoomIds(world), NEW d \in DOMAIN RoomOf(r).exits
  PROVE  <<r, d>> \in Gates
BY DEF Gates

\* An exit is a direction of the list, and leads to a room.
LEMMA ExitLeads ==
  ASSUME SessionOK, NEW r \in RoomIds(world), NEW d \in DOMAIN RoomOf(r).exits
  PROVE  /\ d \in ToSet(Sorted) /\ d # NoDir
         /\ ExitAt(r, d).to \in RoomIds(world)
<1>1. ExitAt(r, d) \in ExitsOf(world, r)
  BY DEF ExitsOf, ExitAt, RoomOf
<1>2. ExitOK(world, ExitAt(r, d))
  BY <1>1 DEF SessionOK, Validate
<1>3. d \in ToSet(Sorted) /\ d # NoDir
  BY AdventureAssumption DEF SessionOK, RoomOf
<1> QED
  BY <1>2, <1>3 DEF ExitOK

\* The start of a validated world is one of its rooms, and earned.
LEMMA StartEarned ==
  ASSUME Validate(world)
  PROVE  world.start \in EarnedRooms
BY DEF Validate, EarnedRooms

\* What is open stays open, so what is earned stays earned.
LEMMA EarnedGrows ==
  ASSUME world' = world, unlocked \subseteq unlocked'
  PROVE  EarnedRooms \subseteq EarnedRooms'
<1> SUFFICES ASSUME NEW r \in EarnedRooms, NEW S \in SUBSET RoomIds(world),
                    world.start \in S,
                    \A g \in Gates : g[1] \in S /\ IsOpen(g)' => ExitAt(g[1], g[2]).to \in S
             PROVE  r \in S
  BY SMTT(30) DEF EarnedRooms, ClosedUnder, Gates, RoomIds, ExitAt, RoomOf
<1>1. \A g : IsOpen(g) => IsOpen(g)'
  BY DEF IsOpen, ExitAt, RoomOf, Gated
<1>2. \A g \in Gates : g[1] \in S /\ IsOpen(g) => ExitAt(g[1], g[2]).to \in S
  BY <1>1
<1> QED
  BY <1>2 DEF EarnedRooms, ClosedUnder

\* An open exit of an earned room leads to an earned room.
LEMMA EarnedStep ==
  ASSUME SessionOK, NEW d \in DOMAIN RoomOf(room).exits,
         room \in EarnedRooms, IsOpen(<<room, d>>)
  PROVE  ExitAt(room, d).to \in EarnedRooms
<1> SUFFICES ASSUME NEW S \in SUBSET RoomIds(world), world.start \in S,
                    \A g \in Gates : g[1] \in S /\ IsOpen(g) => ExitAt(g[1], g[2]).to \in S
             PROVE  ExitAt(room, d).to \in S
  BY ExitLeads DEF SessionOK, EarnedRooms, ClosedUnder
<1>1. room \in S
  BY DEF EarnedRooms, ClosedUnder
<1>2. <<room, d>> \in Gates
  BY GateOf DEF SessionOK
<1> QED
  BY <1>1, <1>2
-----------------------------------------------------------------------------
(* The steps, each with the part of the state it changes                   *)

\* A line that changes no progress keeps the invariant.
LEMMA SameInv ==
  ASSUME IInv, UNCHANGED <<world, progress>>
  PROVE  IInv'
<1> USE DEF progress
<1>1. SessionOK'
  BY DEF IInv, SessionOK, RoomIds
<1>2. EarnedRooms \subseteq EarnedRooms'
  BY EarnedGrows
<1>3. Earned'
  BY <1>2 DEF IInv, Earned, Held, ExitAt, RoomOf
<1>4. PanelConsistent'
  BY DEF IInv, PanelConsistent, Gates, RoomIds, Held, ExitAt, RoomOf
<1>5. RewardsConsistent'
  BY DEF IInv, RewardsConsistent
<1> QED
  BY <1>1, <1>3, <1>4, <1>5 DEF IInv

\* Opening a gate for which the visitor has the key, and has answered the
\* challenge if there is one, and moving on at most to the room behind it.
LEMMA OpenInv ==
  ASSUME IInv, NEW d \in DOMAIN RoomOf(room).exits,
         UNCHANGED <<world, inventory, elevated, completed, readRewards, decoy, victories>>,
         unlocked' = unlocked \cup {<<room, d>>},
         room' \in {room, ExitAt(room, d).to},
         solved \subseteq solved',
         Held(ExitAt(room, d)),
         ExitAt(room, d).puzzle # None => <<room, d>> \in solved',
         puzzleDir' = NoDir
  PROVE  IInv'
<1> USE DEF IInv
<1>1. SessionOK'
  BY ExitLeads DEF SessionOK, RoomIds
<1>2. EarnedRooms \subseteq EarnedRooms'
  BY EarnedGrows
<1>3. room' \in EarnedRooms'
  <2>1. CASE room' = room
    BY <2>1, <1>2 DEF Earned
  <2>2. CASE room' = ExitAt(room, d).to
    <3>0. room' \in RoomIds(world)
      BY <2>2, ExitLeads DEF SessionOK
    <3> SUFFICES ASSUME NEW S \in SUBSET RoomIds(world), world.start \in S,
                        \A g \in Gates : g[1] \in S /\ IsOpen(g)' => ExitAt(g[1], g[2]).to \in S
                 PROVE  room' \in S
      BY SMTT(30), <3>0 DEF EarnedRooms, ClosedUnder, Gates, RoomIds, ExitAt, RoomOf
    <3>1. \A g \in Gates : g[1] \in S /\ IsOpen(g) => ExitAt(g[1], g[2]).to \in S
      BY DEF IsOpen, ExitAt, RoomOf, Gated
    <3>2. room \in S
      BY <3>1 DEF Earned, EarnedRooms, ClosedUnder
    <3>3. <<room, d>> \in Gates
      BY GateOf DEF SessionOK
    <3>4. \A g \in Gates : g = <<room, d>> => IsOpen(g)'
      BY SMTT(30) DEF IsOpen
    <3> QED
      BY <2>2, <3>2, <3>3, <3>4
  <2> QED
    BY <2>1, <2>2
<1>4. Earned'
  <2>1. \A g \in unlocked' : Held(ExitAt(g[1], g[2]))' /\ (ExitAt(g[1], g[2]).puzzle # None => g \in solved)'
    <3>1. \A g \in unlocked : Held(ExitAt(g[1], g[2])) /\ (ExitAt(g[1], g[2]).puzzle # None => g \in solved)
      BY DEF Earned
    <3>2. \A g \in unlocked' : g \in unlocked \/ (g[1] = room /\ g[2] = d /\ g = <<room, d>>)
      OBVIOUS
    <3> HIDE DEF IInv
    <3> QED BY <3>1, <3>2 DEF Held, ExitAt, RoomOf
  <2>2. \A id \in readRewards' : \E r \in EarnedRooms' : (id \in ToSet(RoomOf(r).rewards))'
    <3>1. \A id \in readRewards : \E r \in EarnedRooms : id \in ToSet(RoomOf(r).rewards)
      BY DEF Earned
    <3> HIDE DEF IInv
    <3> QED BY <1>2, <3>1 DEF RoomOf
  <2>3. \A item \in inventory' : \E r \in EarnedRooms' : (item \in ToSet(RoomOf(r).pickup))'
    <3>1. \A item \in inventory : \E r \in EarnedRooms : item \in ToSet(RoomOf(r).pickup)
      BY DEF Earned
    <3> HIDE DEF IInv
    <3> QED BY <1>2, <3>1 DEF RoomOf
  <2> HIDE DEF IInv
  <2> QED BY SMTT(30), <1>3, <2>1, <2>2, <2>3 DEF Earned
<1>5. PanelConsistent'
  BY DEF PanelConsistent
<1>6. RewardsConsistent'
  BY DEF RewardsConsistent
<1> QED
  BY <1>1, <1>4, <1>5, <1>6

\* Beginning the challenge of a locked gate for which he has the key.
LEMMA BeginInv ==
  ASSUME IInv, NEW d \in DOMAIN RoomOf(room).exits,
         UNCHANGED <<world, room, inventory, unlocked, elevated, completed, readRewards, decoy,
                     solved, victories>>,
         puzzleDir' = d,
         <<room, d>> \notin unlocked,
         Held(ExitAt(room, d)),
         ExitAt(room, d).puzzle # None
  PROVE  IInv'
<1> USE DEF IInv
<1>1. SessionOK'
  BY SMTT(30) DEF SessionOK, RoomIds
<1>2. Earned'
  BY EarnedGrows DEF Earned, Held, ExitAt, RoomOf
<1>3. PanelConsistent'
  <2>1. <<room, d>> \in Gates
    BY GateOf DEF SessionOK
  <2> QED
    BY <2>1 DEF PanelConsistent, Held, Gates, RoomIds, ExitAt, RoomOf
<1>4. RewardsConsistent'
  BY DEF RewardsConsistent
<1> QED
  BY <1>1, <1>2, <1>3, <1>4

\* unlock, for a locked gate whose key he has, without a move.
LEMMA UnlockInv ==
  ASSUME IInv, NEW d \in DOMAIN RoomOf(room).exits,
         puzzleDir = NoDir, <<room, d>> \notin unlocked, KeyFits(ExitAt(room, d)),
         Unlock(d),
         UNCHANGED <<world, room, inventory, elevated, completed, readRewards, decoy, solved,
                     victories>>
  PROVE  IInv'
<1>1. Held(ExitAt(room, d))
  BY DEF KeyFits, Held
<1>2. CASE ExitAt(room, d).puzzle # None
  BY <1>1, <1>2, BeginInv DEF Unlock
<1>3. CASE ExitAt(room, d).puzzle = None
  BY <1>1, <1>3, OpenInv DEF Unlock
<1> QED
  BY <1>2, <1>3

\* A move: refused, stopped at a challenge, or made through an open gate.
LEMMA MoveInv ==
  ASSUME IInv, UNCHANGED world, puzzleDir = NoDir, NEW word, Move(word)
  PROVE  IInv'
<1> DEFINE d == Resolve(word)
           e == ExitAt(room, d)
           shut == <<room, d>> \notin unlocked /\ Gated(e)
<1> HIDE DEF d
<1>1. CASE Guide
  BY <1>1, SameInv DEF Guide
<1>2. CASE ~ Guide
  <2>1. /\ d \in DOMAIN RoomOf(room).exits
        /\ ~ (shut /\ ~ KeyFits(e))
        /\ IF shut THEN Unlock(d) ELSE UNCHANGED <<unlocked, puzzleDir>>
        /\ room' = IF puzzleDir' # NoDir THEN room ELSE e.to
        /\ UNCHANGED <<inventory, taken, elevated, completed, readRewards, decoy, solved, victories>>
    BY <1>2 DEF Move, d
  <2>2. d # NoDir
    BY <2>1, ExitLeads DEF IInv, SessionOK
  <2>3. CASE shut /\ e.puzzle # None
    <3>1. puzzleDir' = d /\ unlocked' = unlocked /\ room' = room
      BY <2>1, <2>2, <2>3 DEF Unlock
    <3> QED
      BY <2>1, <2>3, <3>1, BeginInv DEF KeyFits, Held
  <2>4. CASE shut /\ e.puzzle = None
    <3>1. puzzleDir' = NoDir /\ unlocked' = unlocked \cup {<<room, d>>} /\ room' = e.to
      BY <2>1, <2>4 DEF Unlock
    <3> QED
      BY <2>1, <2>4, <3>1, OpenInv DEF KeyFits, Held
  <2>5. CASE ~ shut
    <3>1. puzzleDir' = NoDir /\ unlocked' = unlocked /\ room' = e.to
      BY <2>1, <2>5
    <3>2. IsOpen(<<room, d>>)
      BY <2>5 DEF IsOpen
    <3>3. e.to \in EarnedRooms /\ e.to \in RoomIds(world)
      BY <2>1, <3>2, EarnedStep, ExitLeads DEF IInv, SessionOK, Earned
    <3>4. SessionOK'
      BY SMTT(30), <2>1, <3>1, <3>3 DEF IInv, SessionOK, RoomIds
    <3>5. Earned'
      BY <2>1, <3>1, <3>3, EarnedGrows DEF IInv, Earned, Held, ExitAt, RoomOf
    <3>6. PanelConsistent' /\ RewardsConsistent'
      BY <2>1, <3>1 DEF IInv, PanelConsistent, RewardsConsistent
    <3> QED
      BY <3>4, <3>5, <3>6 DEF IInv
  <2> QED
    BY <2>3, <2>4, <2>5
<1> QED
  BY <1>1, <1>2

\* A reward of the room is given, or its decoy key could not be made.
LEMMA RewardInv ==
  ASSUME IInv, UNCHANGED world, puzzleDir = NoDir, NEW arg, NEW id \in Named(arg), Reward(id)
  PROVE  IInv'
<1>1. CASE Tell
  BY <1>1, SameInv DEF Tell
<1>2. CASE ~ Tell
  <2>1. /\ elevated' = (elevated \/ world.rewards[id].kind = "shell")
        /\ readRewards' = readRewards \cup {id}
        /\ completed' = TRUE
        /\ decoy' = (decoy \/ world.rewards[id].decoy)
        /\ victories' = IF completed THEN victories ELSE victories + 1
        /\ UNCHANGED <<room, inventory, unlocked, taken, puzzleDir, solved>>
    BY <1>2 DEF Reward
  <2>2. id \in ToSet(RoomOf(room).rewards)
    BY DEF Named, FirstIn, ToSet
  <2>3. SessionOK'
    BY SMTT(30), <2>1 DEF IInv, SessionOK, RoomIds
  <2>4. Earned'
    BY <2>1, <2>2, EarnedGrows DEF IInv, Earned, Held, ExitAt, RoomOf
  <2>5. PanelConsistent'
    BY <2>1 DEF IInv, PanelConsistent
  <2>6. RewardsConsistent'
    <3>1. (completed <=> readRewards # {})' /\ victories' = IF completed' THEN 1 ELSE 0
      BY <2>1 DEF IInv, RewardsConsistent
    <3>2. elevated' <=> \E x \in readRewards' : world.rewards[x].kind = "shell"
      BY <2>1, Zenon DEF IInv, RewardsConsistent
    <3>3. decoy' <=> \E x \in readRewards' : world.rewards[x].decoy
      BY <2>1, Zenon DEF IInv, RewardsConsistent
    <3> QED
      BY <3>1, <3>2, <3>3 DEF RewardsConsistent
  <2> QED
    BY <2>3, <2>4, <2>5, <2>6 DEF IInv
<1> QED
  BY <1>1, <1>2

\* An item of the room is taken.
LEMMA TakeInv ==
  ASSUME IInv, UNCHANGED world, puzzleDir = NoDir, NEW l, Take(l)
  PROVE  IInv'
<1>1. CASE Guide \/ Tell
  BY <1>1, SameInv DEF Guide, Tell
<1>2. CASE ~ (Guide \/ Tell)
  <2>1. /\ l.item \in ToSet(RoomOf(room).pickup)
        /\ inventory' = inventory \cup {l.item}
        /\ UNCHANGED <<room, unlocked, puzzleDir, elevated, completed, readRewards, decoy,
                       solved, victories>>
    BY <1>2 DEF Take
  <2>2. SessionOK' /\ PanelConsistent' /\ RewardsConsistent'
    BY SMTT(30), <2>1 DEF IInv, SessionOK, PanelConsistent, RewardsConsistent, RoomIds
  <2>3. Earned'
    BY <2>1, EarnedGrows DEF IInv, Earned, Held, ExitAt, RoomOf
  <2> QED
    BY <2>2, <2>3 DEF IInv
<1> QED
  BY <1>1, <1>2

\* A reward or a key of the visitor's is used.
LEMMA UseInv ==
  ASSUME IInv, UNCHANGED world, puzzleDir = NoDir, NEW l, Use(l)
  PROVE  IInv'
<1>1. ASSUME NEW id \in Named(l.arg), Reward(id)
      PROVE  IInv'
  BY <1>1, RewardInv
<1>2. ASSUME NEW d \in KeyedBy(l.item), Unlock(d),
             UNCHANGED <<room, inventory, taken, elevated, completed, readRewards, decoy,
                         solved, victories>>
      PROVE  IInv'
  <2>1. /\ d \in DOMAIN RoomOf(room).exits /\ <<room, d>> \notin unlocked
        /\ KeyFits(ExitAt(room, d))
    BY DEF KeyedBy, FirstIn, KeyFits
  <2> QED
    BY <1>2, <2>1, UnlockInv
<1>3. CASE Guide
  BY <1>3, SameInv DEF Guide
<1> QED
  BY <1>1, <1>2, <1>3 DEF Use

\* A line at a challenge: cancelled, left, answered or failed.
LEMMA PanelInv ==
  ASSUME IInv, UNCHANGED world, puzzleDir # NoDir, NEW l, AtPanel(l)
  PROVE  IInv'
<1>1. ASSUME puzzleDir' = NoDir,
             UNCHANGED <<room, inventory, unlocked, taken, elevated, completed, readRewards,
                         decoy, solved, victories>>
      PROVE  IInv'
  <2>1. SessionOK' /\ PanelConsistent' /\ RewardsConsistent'
    BY SMTT(30), <1>1 DEF IInv, SessionOK, PanelConsistent, RewardsConsistent, RoomIds
  <2>2. Earned'
    BY <1>1, EarnedGrows DEF IInv, Earned, Held, ExitAt, RoomOf
  <2> QED
    BY <2>1, <2>2 DEF IInv
<1>2. CASE UNCHANGED progress
  BY <1>2, SameInv
<1>3. ASSUME unlocked' = unlocked \cup {<<room, puzzleDir>>},
             solved' = solved \cup {<<room, puzzleDir>>}, puzzleDir' = NoDir,
             UNCHANGED <<room, inventory, taken, elevated, completed, readRewards, decoy, victories>>
      PROVE  IInv'
  <2>1. puzzleDir \in DOMAIN RoomOf(room).exits /\ Held(ExitAt(room, puzzleDir))
    BY DEF IInv, PanelConsistent, Gates
  <2> QED
    BY <1>3, <2>1, OpenInv
<1> QED
  BY <1>1, <1>2, <1>3 DEF AtPanel, Quit, Guide
-----------------------------------------------------------------------------
(* The invariant holds *)

LEMMA InitInv == Init => IInv
<1> SUFFICES ASSUME Init PROVE IInv
  OBVIOUS
<1>1. SessionOK
  BY DEF Init, SessionOK, Validate
<1>2. Earned
  BY StartEarned DEF Init, Earned
<1>3. PanelConsistent /\ RewardsConsistent
  BY DEF Init, PanelConsistent, RewardsConsistent
<1> QED
  BY <1>1, <1>2, <1>3 DEF IInv

\* Every line keeps the invariant.
LEMMA RunInv ==
  ASSUME IInv, NEW l, Run(l)
  PROVE  IInv'
<1>0. UNCHANGED world
  BY DEF Run
<1>1. CASE Tell
  BY <1>0, <1>1, SameInv DEF Tell
<1>2. CASE puzzleDir # NoDir /\ AtPanel(l)
  BY <1>0, <1>2, PanelInv
<1>3. CASE puzzleDir = NoDir /\ Command(l)
  <2>1. CASE Quit \/ Tell \/ Guide
    BY <1>0, <2>1, SameInv DEF Quit, Tell, Guide
  <2>2. CASE Move(l.cmd) \/ Move(l.arg)
    BY <1>0, <1>3, <2>2, MoveInv
  <2>3. CASE Read(l)
    BY <1>0, <1>3, <2>1, <2>3, RewardInv DEF Read
  <2>4. CASE Take(l)
    BY <1>0, <1>3, <2>4, TakeInv
  <2>5. CASE Use(l)
    BY <1>0, <1>3, <2>5, UseInv
  <2> QED
    BY <1>3, <2>1, <2>2, <2>3, <2>4, <2>5 DEF Command
<1> QED
  BY <1>1, <1>2, <1>3 DEF Run

LEMMA NextInv == IInv /\ [Next]_vars => IInv'
<1> SUFFICES ASSUME IInv, [Next]_vars PROVE IInv'
  OBVIOUS
<1>1. CASE Next
  BY <1>1, RunInv DEF Next
<1>2. CASE UNCHANGED vars
  BY <1>2, SameInv DEF vars, progress
<1> QED
  BY <1>1, <1>2

LEMMA InvHolds == Spec => []IInv
BY InitInv, NextInv, PTL DEF Spec
-----------------------------------------------------------------------------
(* What is left to do in a room *)

\* A list that has a member in S has a first one.
LEMMA FirstExists ==
  ASSUME NEW s, IsList(s), NEW S, ToSet(s) \cap S # {}
  PROVE  FirstIn(s, S) # {}
<1> SUFFICES ASSUME \A j \in DOMAIN s : s[j] \in S => \E k \in 1..j - 1 : s[k] \in S
             PROVE  \A j \in DOMAIN s : s[j] \notin S
  BY DEF FirstIn, ToSet
<1>0. Len(s) \in Nat /\ DOMAIN s = 1..Len(s)
  BY DEF IsList
<1> DEFINE T == {n \in 0..Len(s) : \A k \in 1..n : s[k] \notin S}
<1>1. T \in SUBSET (0..Len(s)) /\ 0 \in T
  BY <1>0
<1>2. ASSUME NEW n \in T, n < Len(s) PROVE n + 1 \in T
  BY <1>0, <1>2
<1>3. T = 0..Len(s)
  <2> HIDE DEF T
  <2> QED BY <1>0, <1>1, <1>2, IntervalInduction
<1>4. Len(s) \in T
  BY <1>0, <1>3
<1> QED
  BY <1>0, <1>4

\* A first member is one of the list, and in S.
LEMMA FirstIsMember ==
  ASSUME NEW s, NEW S
  PROVE  FirstIn(s, S) \subseteq ToSet(s) \cap S
BY DEF FirstIn, ToSet

\* Nothing is left in a room whose artifacts are read, whose items are taken and
\* whose challenges are answered.
Done(r) ==
  /\ ToSet(RoomOf(r).rewards) \subseteq readRewards
  /\ ToSet(RoomOf(r).pickup) \subseteq inventory
  /\ \A d \in DOMAIN RoomOf(r).exits : ~ Ready(r, d)

LEMMA ActionDone ==
  ASSUME SessionOK, NEW r \in RoomIds(world)
  PROVE  Action(r) = {} <=> Done(r)
<1>1. Unread(r) = {} <=> ToSet(RoomOf(r).rewards) \subseteq readRewards
  <2>1. IsList(RoomOf(r).rewards) /\ ToSet(RoomOf(r).rewards) \subseteq DOMAIN world.rewards
    BY AdventureAssumption DEF SessionOK, Validate, RoomOK, RoomOf
  <2> QED
    BY <2>1, FirstExists, FirstIsMember DEF Unread
<1>2. Untaken(r) = {} <=> ToSet(RoomOf(r).pickup) \subseteq inventory
  <2>1. IsList(RoomOf(r).pickup) /\ ToSet(RoomOf(r).pickup) \subseteq Pickups(world)
    BY AdventureAssumption DEF SessionOK, Pickups, RoomOf
  <2> QED
    BY <2>1, FirstExists, FirstIsMember DEF Untaken
<1>3. Begun(r) = {} <=> \A d \in DOMAIN RoomOf(r).exits : ~ Ready(r, d)
  <2>1. IsList(Sorted) /\ DOMAIN RoomOf(r).exits \subseteq ToSet(Sorted)
    BY AdventureAssumption DEF SessionOK, RoomOf
  <2> QED
    BY <2>1, FirstExists, FirstIsMember DEF Begun
<1> QED
  BY <1>1, <1>2, <1>3 DEF Action, Done

\* The commands that are suggested in the visitor's own room.
Local(c) ==
  \/ c = LookAround
  \/ \E d \in DOMAIN RoomOf(room).exits :
       c = Cmd("go", d) /\ (Passable(room, d) \/ Ready(room, d))
  \/ \E item \in ToSet(RoomOf(room).pickup) : c = Cmd("take", item)
  \/ \E id \in ToSet(RoomOf(room).rewards), cmd \in {"read", "use"} : c = Cmd(cmd, id)

LEMMA ActionLocal == \A c \in Action(room) : Local(c) /\ c # LookAround
<1> TAKE c \in Action(room)
<1>0. \A x : Cmd("go", x) # LookAround /\ Cmd("take", x) # LookAround
             /\ Cmd("read", x) # LookAround /\ Cmd("use", x) # LookAround
  BY DEF Cmd, LookAround
<1>1. CASE \E id \in Unread(room) : c = ReadReward(id)
  <2>1. PICK id \in ToSet(RoomOf(room).rewards) : c = ReadReward(id)
    BY <1>1, FirstIsMember DEF Unread
  <2>2. PICK cmd \in {"read", "use"} : c = Cmd(cmd, id)
    BY <2>1 DEF ReadReward
  <2> QED
    BY <1>0, <2>2 DEF Local
<1>2. CASE \E item \in Untaken(room) : c = Cmd("take", item)
  <2>1. PICK item \in ToSet(RoomOf(room).pickup) : c = Cmd("take", item)
    BY <1>2, FirstIsMember DEF Untaken
  <2> QED
    BY <1>0, <2>1 DEF Local
<1>3. CASE \E d \in Begun(room) : c = Cmd("go", d)
  <2>1. PICK d \in DOMAIN RoomOf(room).exits : c = Cmd("go", d) /\ Ready(room, d)
    BY <1>3, FirstIsMember DEF Begun
  <2> QED
    BY <1>0, <2>1 DEF Local
<1> QED
  BY <1>1, <1>2, <1>3 DEF Action
-----------------------------------------------------------------------------
(* The search *)

Known(q, r) == \E i \in DOMAIN q : q[i].room = r

\* Where the visitor can walk from his room without an answer.
Walkable(r) ==
  \A S \in SUBSET RoomIds(world) : room \in S /\ ClosedUnder(S, CanPass) => r \in S

\* The queue starts with the visitor's room, holds every room once, each that he
\* can walk to, and for every other room a direction that he can take from his.
QueueOK(q) ==
  /\ q \in Seq(Steps) /\ 1 \in DOMAIN q /\ q[1] = Step(room, NoDir)
  /\ \A i, j \in DOMAIN q : q[i].room = q[j].room => i = j
  /\ \A i \in DOMAIN q : Walkable(q[i].room)
  /\ \A i \in DOMAIN q :
       i # 1 => q[i].first \in DOMAIN RoomOf(room).exits /\ Passable(room, q[i].first)

\* The queue goes on where another one ended.
Extends(q, p) == DOMAIN p \subseteq DOMAIN q /\ \A i \in DOMAIN p : q[i] = p[i]

\* The room behind an exit that he can walk through is in the queue.
Followed(q, r, d) ==
  d \in DOMAIN RoomOf(r).exits /\ Passable(r, d) => Known(q, ExitAt(r, d).to)

LEMMA WalkOn ==
  ASSUME SessionOK, NEW r \in RoomIds(world), Walkable(r),
         NEW d \in DOMAIN RoomOf(r).exits, Passable(r, d)
  PROVE  Walkable(ExitAt(r, d).to)
<1> SUFFICES ASSUME NEW S \in SUBSET RoomIds(world), room \in S,
                    \A g \in Gates : g[1] \in S /\ CanPass(g) => ExitAt(g[1], g[2]).to \in S
             PROVE  ExitAt(r, d).to \in S
  BY DEF Walkable, ClosedUnder
<1>1. r \in S
  BY DEF Walkable, ClosedUnder
<1>2. <<r, d>> \in Gates /\ CanPass(<<r, d>>)
  BY GateOf DEF Passable, CanPass, KeyFits, Held
<1> QED
  BY <1>1, <1>2

LEMMA FirstQueue == SessionOK => QueueOK(<<Step(room, NoDir)>>)
<1> SUFFICES ASSUME SessionOK PROVE QueueOK(<<Step(room, NoDir)>>)
  OBVIOUS
<1>1. Step(room, NoDir) \in Steps /\ Step(room, NoDir).room = room
  BY DEF SessionOK, Step, Steps
<1>2. Walkable(room)
  BY DEF Walkable
<1> QED
  BY <1>1, <1>2 DEF QueueOK

\* One more step to a room that the queue does not hold keeps it in order.
LEMMA AppendStep ==
  ASSUME SessionOK, NEW q, QueueOK(q), NEW i \in DOMAIN q,
         NEW d \in DOMAIN RoomOf(q[i].room).exits, Passable(q[i].room, d),
         ~ Known(q, ExitAt(q[i].room, d).to)
  PROVE  LET p == Append(q, Step(ExitAt(q[i].room, d).to, FirstDir(q[i], d)))
         IN  QueueOK(p) /\ Extends(p, q) /\ Known(p, ExitAt(q[i].room, d).to)
<1> DEFINE r == ExitAt(q[i].room, d).to
           e == Step(r, FirstDir(q[i], d))
           p == Append(q, e)
           n == Len(q) + 1
<1>1. q \in Seq(Steps) /\ Len(q) \in Nat /\ DOMAIN q = 1..Len(q) /\ q[i] \in Steps
  BY DEF QueueOK
<1>2. q[i].room \in RoomIds(world) /\ q[i].first \in ToSet(Sorted) \cup {NoDir}
  BY <1>1 DEF Steps
<1>3. r \in RoomIds(world) /\ d \in ToSet(Sorted) /\ d # NoDir
  BY <1>2, ExitLeads
<1>4. Walkable(r)
  BY <1>2, WalkOn DEF QueueOK
<1>5. /\ FirstDir(q[i], d) \in DOMAIN RoomOf(room).exits
      /\ Passable(room, FirstDir(q[i], d))
  <2>1. CASE i = 1
    <3>1. q[i] = Step(room, NoDir)
      BY <2>1 DEF QueueOK
    <3>2. q[i].first = NoDir /\ q[i].room = room
      BY <3>1 DEF Step
    <3> QED
      BY <3>2 DEF FirstDir
  <2>2. CASE i # 1
    <3>1. q[i].first \in DOMAIN RoomOf(room).exits /\ Passable(room, q[i].first)
      BY <2>2 DEF QueueOK
    <3>2. q[i].first # NoDir
      BY <3>1, ExitLeads DEF SessionOK
    <3> QED
      BY <3>1, <3>2 DEF FirstDir
  <2> QED
    BY <2>1, <2>2
<1>6. e \in Steps /\ e.room = r /\ e.first = FirstDir(q[i], d)
  <2>1. FirstDir(q[i], d) \in ToSet(Sorted) \cup {NoDir}
    BY <1>2, <1>3 DEF FirstDir
  <2> QED
    BY <1>3, <2>1 DEF Step, Steps
<1> HIDE DEF r, e
<1>7. /\ p \in Seq(Steps) /\ DOMAIN p = 1..n /\ p[n] = e
      /\ \A j \in 1..Len(q) : p[j] = q[j]
  BY <1>1, <1>6
<1>8. \A j \in DOMAIN q : q[j].room # r
  BY DEF Known, r
<1> HIDE DEF p
<1>9. QueueOK(p)
  <2>1. p \in Seq(Steps) /\ 1 \in DOMAIN p /\ p[1] = Step(room, NoDir)
    BY <1>1, <1>7 DEF QueueOK
  <2>2. ASSUME NEW j \in DOMAIN p, NEW k \in DOMAIN p, p[j].room = p[k].room
        PROVE  j = k
    <3>1. CASE j = n \/ k = n
      BY <1>1, <1>6, <1>7, <1>8, <2>2, <3>1
    <3>2. CASE j # n /\ k # n
      BY <1>1, <1>7, <2>2, <3>2 DEF QueueOK
    <3> QED
      BY <3>1, <3>2
  <2>3. ASSUME NEW j \in DOMAIN p
        PROVE  /\ Walkable(p[j].room)
               /\ j # 1 => p[j].first \in DOMAIN RoomOf(room).exits /\ Passable(room, p[j].first)
    <3>1. CASE j = n
      BY <1>4, <1>5, <1>6, <1>7, <3>1
    <3>2. CASE j \in DOMAIN q
      BY <1>1, <1>7, <3>2 DEF QueueOK
    <3> QED
      BY <1>1, <1>7, <3>1, <3>2
  <2> QED
    BY <2>1, <2>2, <2>3 DEF QueueOK
<1>10. Extends(p, q)
  BY <1>1, <1>7 DEF Extends
<1>11. Known(p, r)
  BY <1>1, <1>6, <1>7 DEF Known
<1> QED
  BY <1>9, <1>10, <1>11 DEF p, e, r

\* One exit keeps the queue in order, and is followed.
LEMMA EnqueueExitOK ==
  ASSUME SessionOK, NEW q, QueueOK(q), NEW i \in DOMAIN q, NEW d
  PROVE  LET p == EnqueueExit(q, q[i], d)
         IN  QueueOK(p) /\ Extends(p, q) /\ Followed(p, q[i].room, d)
<1> DEFINE p == EnqueueExit(q, q[i], d)
           to == ExitAt(q[i].room, d).to
<1>1. CASE d \in DOMAIN RoomOf(q[i].room).exits /\ Passable(q[i].room, d) /\ ~ Known(q, to)
  <2>1. p = Append(q, Step(to, FirstDir(q[i], d)))
    BY <1>1 DEF EnqueueExit, Known
  <2> QED
    BY <1>1, <2>1, AppendStep DEF Followed
<1>2. CASE ~ (d \in DOMAIN RoomOf(q[i].room).exits /\ Passable(q[i].room, d) /\ ~ Known(q, to))
  <2>1. p = q
    BY <1>2 DEF EnqueueExit, Known
  <2> QED
    BY <1>2, <2>1 DEF Followed, Extends
<1> QED
  BY <1>1, <1>2

\* The list of the directions.
LEMMA SortedList == Len(Sorted) \in Nat /\ DOMAIN Sorted = 1..Len(Sorted)
<1>1. IsList(Sorted)
  BY AdventureAssumption
<1> QED
  BY <1>1 DEF IsList

LEMMA EnqueueExitType ==
  ASSUME SessionOK, NEW q \in Seq(Steps), NEW s \in Steps, NEW d \in ToSet(Sorted)
  PROVE  EnqueueExit(q, s, d) \in Seq(Steps)
<1>1. CASE d \in DOMAIN RoomOf(s.room).exits
  <2>1. Step(ExitAt(s.room, d).to, FirstDir(s, d)) \in Steps
    BY <1>1, ExitLeads DEF Steps, Step, FirstDir
  <2> QED
    BY <2>1 DEF EnqueueExit
<1>2. CASE d \notin DOMAIN RoomOf(s.room).exits
  BY <1>2 DEF EnqueueExit
<1> QED
  BY <1>1, <1>2

\* The recursion of Enqueue, as equations.
Adding(add, s) ==
  /\ \A q \in Seq(Steps) : add[0][q] = q
  /\ \A n \in 1..Len(Sorted), q \in Seq(Steps) :
       add[n][q] = add[n - 1][EnqueueExit(q, s, Sorted[Len(Sorted) - n + 1])]

LEMMA EnqueueAdds ==
  ASSUME SessionOK, NEW s \in Steps
  PROVE  \E add : Adding(add, s) /\ \A q : Enqueue(q, s) = add[Len(Sorted)][q]
<1> DEFINE N == Len(Sorted)
           Q == Seq(Steps)
           one(q, n) == EnqueueExit(q, s, Sorted[N - n + 1])
           add[n \in 0..N] ==
             [q \in Seq(Steps) |->
                IF n = 0 THEN q ELSE add[n - 1][EnqueueExit(q, s, Sorted[Len(Sorted) - n + 1])]]
           Holds(f) ==
             f = [n \in 0..N |->
                    [q \in Seq(Steps) |->
                       IF n = 0 THEN q
                       ELSE f[n - 1][EnqueueExit(q, s, Sorted[Len(Sorted) - n + 1])]]]
           T == [Q -> Q]
           a == [q \in Q |-> q]
           g == [n \in 1..N |-> [h \in T |-> [q \in Q |-> h[one(q, n)]]]]
<1>1. N \in Nat
  BY SortedList
<1>2. \A n \in 1..N, q \in Q : one(q, n) \in Q
  <2> TAKE n \in 1..N, q \in Q
  <2>1. N - n + 1 \in DOMAIN Sorted
    BY SortedList
  <2>2. Sorted[N - n + 1] \in ToSet(Sorted)
    BY <2>1 DEF ToSet
  <2> QED
    BY <2>2, EnqueueExitType
<1>3. a \in T /\ g \in Steppers(N, T)
  <2> HIDE DEF N, Q, one
  <2> QED BY <1>2 DEF Steppers
<1>4. PICK f : Recursive(f, N, T, a, g)
  <2> HIDE DEF N, T, a, g
  <2> QED BY <1>1, <1>3, IntervalRecursion
<1>5. /\ f \in [0..N -> T] /\ f[0] = a
      /\ \A n \in 1..N : f[n] = [q \in Q |-> f[n - 1][one(q, n)]]
  <2> HIDE DEF N, Q, one
  <2>1. f \in [0..N -> T] /\ f[0] = a /\ \A n \in 1..N : f[n] = g[n][f[n - 1]]
    BY <1>4 DEF Recursive
  <2>2. \A n \in 1..N : f[n - 1] \in T
    BY <1>1, <2>1
  <2> QED BY <2>1, <2>2
<1>6. Holds(f)
  <2>1. \A n \in 0..N : n # 0 => n \in 1..N
    BY <1>1
  <2> HIDE DEF N
  <2>2. \A n \in 0..N :
          f[n] = [q \in Q |-> IF n = 0 THEN q ELSE f[n - 1][one(q, n)]]
    <3>1. f[0] = [q \in Q |-> IF 0 = 0 THEN q ELSE f[0 - 1][one(q, 0)]]
      BY <1>5
    <3> SUFFICES ASSUME NEW n \in 0..N, n # 0
                 PROVE  f[n] = [q \in Q |-> IF n = 0 THEN q ELSE f[n - 1][one(q, n)]]
      BY <3>1
    <3> HIDE DEF one
    <3>2. f[n] = [q \in Q |-> f[n - 1][one(q, n)]]
      BY <1>5, <2>1
    <3> QED BY <3>2
  <2> QED BY <1>5, <2>2 DEF N
<1>7. Holds(add)
  BY <1>6
<1>8. Adding(add, s)
  <2>1. 0 \in 0..N /\ \A n \in 1..N : n \in 0..N /\ n # 0
    BY <1>1
  <2> HIDE DEF add
  <2>2. ASSUME NEW n \in 0..N, NEW q \in Seq(Steps)
        PROVE  add[n][q] = IF n = 0 THEN q ELSE add[n - 1][one(q, n)]
    <3>1. add[n] = [p \in Q |-> IF n = 0 THEN p ELSE add[n - 1][one(p, n)]]
      <4> HIDE DEF N
      <4> QED BY <1>7 DEF N
    <3> HIDE DEF one
    <3> QED BY <3>1
  <2> QED BY <2>1, <2>2 DEF Adding
<1>9. \A q : Enqueue(q, s) = add[N][q]
  BY DEF Enqueue
<1> QED
  <2> HIDE DEF add
  <2> QED BY <1>8, <1>9

\* All exits of a step of the queue keep it in order, and are followed.
LEMMA EnqueueOK ==
  ASSUME SessionOK, NEW q, QueueOK(q), NEW i \in DOMAIN q
  PROVE  LET p == Enqueue(q, q[i])
         IN  QueueOK(p) /\ Extends(p, q) /\ \A d : Followed(p, q[i].room, d)
<1> DEFINE N == Len(Sorted)
           s == q[i]
           Half(p, n) == /\ QueueOK(p) /\ Extends(p, q)
                         /\ \A m \in 1..N : m <= N - n => Followed(p, s.room, Sorted[m])
<1>1. N \in Nat /\ s \in Steps
  BY SortedList DEF QueueOK
<1>2. PICK add : Adding(add, s) /\ \A p : Enqueue(p, s) = add[N][p]
  <2> HIDE DEF s
  <2> QED BY <1>1, EnqueueAdds
<1>3. ASSUME NEW p, NEW n \in 1..N, Half(p, n)
      PROVE  Half(EnqueueExit(p, s, Sorted[N - n + 1]), n - 1)
  <2> DEFINE d == Sorted[N - n + 1]
             e == EnqueueExit(p, s, d)
  <2>1. i \in DOMAIN p /\ p[i] = s
    BY <1>3 DEF Extends
  <2>2. QueueOK(e) /\ Extends(e, p) /\ Followed(e, s.room, d)
    BY <1>3, <2>1, EnqueueExitOK
  <2> HIDE DEF e
  <2>3. Extends(e, q)
    BY <1>3, <2>2 DEF Extends
  <2>4. ASSUME NEW m \in 1..N, m <= N - (n - 1) PROVE Followed(e, s.room, Sorted[m])
    <3>1. CASE m = N - n + 1
      BY <2>2, <3>1
    <3>2. CASE m # N - n + 1
      <4>1. Followed(p, s.room, Sorted[m])
        BY <1>1, <1>3, <2>4, <3>2
      <4> QED
        BY <2>2, <4>1 DEF Followed, Known, Extends
    <3> QED
      BY <3>1, <3>2
  <2> QED
    BY <2>2, <2>3, <2>4 DEF e
<1> DEFINE D == {n \in 0..N : \A p : Half(p, n) => Half(add[n][p], 0)}
<1>4. 0 \in D
  <2> SUFFICES ASSUME NEW p, Half(p, 0) PROVE Half(add[0][p], 0)
    BY <1>1
  <2>1. add[0][p] = p
    BY <1>2 DEF Adding, QueueOK
  <2> HIDE DEF Half
  <2> QED BY <2>1
<1>5. ASSUME NEW n \in D, n < N PROVE n + 1 \in D
  <2> SUFFICES ASSUME NEW p, Half(p, n + 1) PROVE Half(add[n + 1][p], 0)
    BY <1>1, <1>5
  <2>1. n \in Nat /\ n + 1 \in 1..N /\ (n + 1) - 1 = n
    BY <1>1, <1>5
  <2> DEFINE e == EnqueueExit(p, s, Sorted[N - (n + 1) + 1])
  <2>2. Half(e, n)
    <3> HIDE DEF Half, N
    <3> QED BY <1>3, <2>1
  <2>3. p \in Seq(Steps)
    BY DEF QueueOK
  <2>4. add[n + 1][p] = add[n][e]
    BY <1>2, <2>1, <2>3 DEF Adding
  <2> HIDE DEF Half, e
  <2> QED BY <2>2, <2>4
<1>6. D = 0..N
  <2>1. D \in SUBSET (0..N)
    OBVIOUS
  <2> HIDE DEF D
  <2> QED BY <1>1, <1>4, <1>5, <2>1, IntervalInduction
<1>7. Half(q, N)
  BY <1>1 DEF Extends
<1>8. Half(add[N][q], 0)
  <2>1. N \in D
    BY <1>1, <1>6
  <2> HIDE DEF Half
  <2> QED BY <1>7, <2>1
<1>9. Enqueue(q, s) = add[N][q]
  BY <1>2
<1>10. ASSUME NEW d PROVE Followed(add[N][q], s.room, d)
  <2>1. CASE d \in ToSet(Sorted)
    <3>1. PICK m \in 1..N : d = Sorted[m]
      BY <2>1, SortedList DEF ToSet
    <3> QED
      BY <1>1, <1>8, <3>1
  <2>2. CASE d \notin ToSet(Sorted)
    <3>1. s.room \in RoomIds(world)
      BY <1>1 DEF Steps
    <3>2. d \notin DOMAIN RoomOf(s.room).exits
      BY <2>2, <3>1, ExitLeads
    <3> QED
      BY <3>2 DEF Followed
  <2> QED
    BY <2>1, <2>2
<1> QED
  BY <1>8, <1>9, <1>10

LEMMA EnqueueType ==
  ASSUME SessionOK, NEW q \in Seq(Steps), NEW s \in Steps
  PROVE  Enqueue(q, s) \in Seq(Steps)
<1> DEFINE N == Len(Sorted)
<1>1. N \in Nat
  BY SortedList
<1>2. PICK add : Adding(add, s) /\ \A p : Enqueue(p, s) = add[N][p]
  BY EnqueueAdds
<1> DEFINE D == {n \in 0..N : \A p \in Seq(Steps) : add[n][p] \in Seq(Steps)}
<1>3. 0 \in D
  BY <1>1, <1>2 DEF Adding
<1>4. ASSUME NEW n \in D, n < N PROVE n + 1 \in D
  <2> SUFFICES ASSUME NEW p \in Seq(Steps) PROVE add[n + 1][p] \in Seq(Steps)
    BY <1>1, <1>4
  <2>1. n + 1 \in 1..N /\ (n + 1) - 1 = n /\ N - (n + 1) + 1 \in DOMAIN Sorted
    BY <1>1, <1>4, SortedList
  <2> DEFINE e == EnqueueExit(p, s, Sorted[N - (n + 1) + 1])
  <2>2. e \in Seq(Steps)
    BY <2>1, EnqueueExitType DEF ToSet
  <2>3. add[n + 1][p] = add[n][e]
    BY <1>2, <2>1 DEF Adding
  <2> HIDE DEF e
  <2> QED BY <2>2, <2>3
<1>5. D = 0..N
  <2>1. D \in SUBSET (0..N)
    OBVIOUS
  <2> HIDE DEF D
  <2> QED BY <1>1, <1>3, <1>4, <2>1, IntervalInduction
<1> QED
  <2>1. N \in D
    BY <1>1, <1>5
  <2> QED BY <1>2, <2>1

\* The queue has no more steps than the world has rooms.
LEMMA QueueBounded ==
  ASSUME SessionOK, NEW q, QueueOK(q)
  PROVE  Cardinality(RoomIds(world)) \in Nat /\ Len(q) <= Cardinality(RoomIds(world))
<1> DEFINE R == RoomIds(world)
           f == [i \in 1..Len(q) |-> q[i].room]
<1>1. IsFiniteSet(R) /\ Cardinality(R) \in Nat
  BY AdventureAssumption, FS_CardinalityType DEF SessionOK
<1>2. q \in Seq(Steps) /\ Len(q) \in Nat /\ DOMAIN q = 1..Len(q)
  BY DEF QueueOK
<1>3. IsFiniteSet(1..Len(q)) /\ Cardinality(1..Len(q)) = Len(q)
  BY SMTT(30), <1>2, FS_Interval
<1>4. f \in [1..Len(q) -> R]
  <2>1. \A i \in 1..Len(q) : q[i] \in Steps
    BY <1>2
  <2> QED
    BY <2>1 DEF Steps
<1>5. \A x, y \in 1..Len(q) : f[x] = f[y] => x = y
  BY <1>2 DEF QueueOK
<1>6. ~ (Cardinality(R) < Cardinality(1..Len(q)))
  <2> HIDE DEF f, R
  <2> QED BY <1>1, <1>3, <1>4, <1>5, FS_PigeonHole
<1> QED
  BY <1>1, <1>2, <1>3, <1>6

\* The recursion of NextCommand, as an equation.
Searching(search, N) ==
  \A n \in 0..N, q \in Seq(Steps) :
    search[n][q] = LET i == N - n + 1
                   IN  IF i > N \/ i > Len(q) THEN LookAround
                       ELSE IF Action(q[i].room) # {} THEN Suggestion(q[i])
                       ELSE search[n - 1][Enqueue(q, q[i])]

LEMMA NextCommandSearches ==
  ASSUME SessionOK
  PROVE  \E search : /\ Searching(search, Cardinality(RoomIds(world)))
                     /\ NextCommand = search[Cardinality(RoomIds(world))][<<Step(room, NoDir)>>]
<1> DEFINE N == Cardinality(RoomIds(world))
           Q == Seq(Steps)
           C == {LookAround} \cup {Suggestion(s) : s \in Steps}
           T == [Q -> C]
           search[n \in 0..N] ==
             [q \in Seq(Steps) |->
                LET i == N - n + 1
                IN  IF i > N \/ i > Len(q) THEN LookAround
                    ELSE IF Action(q[i].room) # {} THEN Suggestion(q[i])
                    ELSE search[n - 1][Enqueue(q, q[i])]]
           Holds(f) ==
             f = [n \in 0..N |->
                   [q \in Seq(Steps) |->
                      LET i == N - n + 1
                      IN  IF i > N \/ i > Len(q) THEN LookAround
                          ELSE IF Action(q[i].room) # {} THEN Suggestion(q[i])
                          ELSE f[n - 1][Enqueue(q, q[i])]]]
           Stops(n, q) == N - n + 1 > N \/ N - n + 1 > Len(q)
           at(n, q) == q[N - n + 1]
           Found(n, q) == Action(at(n, q).room) # {}
           on(n, q) == Enqueue(q, at(n, q))
           a == [q \in Q |-> LookAround]
           one(n, h, q) == IF Stops(n, q) THEN LookAround
                           ELSE IF Found(n, q) THEN Suggestion(at(n, q))
                           ELSE h[on(n, q)]
           g == [n \in 1..N |-> [h \in T |-> [q \in Q |-> one(n, h, q)]]]
<1>1. N \in Nat
  BY AdventureAssumption, FS_CardinalityType DEF SessionOK
<1>2. ASSUME NEW n \in 1..N, NEW q \in Q, ~ Stops(n, q)
      PROVE  at(n, q) \in Steps /\ on(n, q) \in Q
  <2>1. N - n + 1 \in 1..Len(q)
    BY <1>1, <1>2
  <2>2. at(n, q) \in Steps
    BY <2>1
  <2> QED
    BY <2>2, EnqueueType
<1>3. a \in T /\ g \in Steppers(N, T)
  <2>1. ASSUME NEW n \in 1..N, NEW h \in T, NEW q \in Q PROVE one(n, h, q) \in C
    <3> HIDE DEF N, Q, at, on, Stops, Found
    <3> QED BY <1>2
  <2> HIDE DEF N, Q, C, one
  <2>2. LookAround \in C
    BY DEF C
  <2> QED BY <2>1, <2>2 DEF Steppers
<1>4. PICK f : Recursive(f, N, T, a, g)
  <2> HIDE DEF N, T, a, g
  <2> QED BY <1>1, <1>3, IntervalRecursion
<1>5. ASSUME NEW n \in 0..N, NEW q \in Q PROVE f[n][q] = one(n, f[n - 1], q)
  <2>1. CASE n = 0
    <3>1. f[0][q] = LookAround
      <4> HIDE DEF Q
      <4> QED BY <1>4 DEF Recursive
    <3>2. Stops(n, q)
      BY <1>1, <2>1
    <3> HIDE DEF Stops, at, Found, on
    <3> QED BY <2>1, <3>1, <3>2
  <2>2. CASE n # 0
    <3> HIDE DEF one, Q, C
    <3>1. n \in 1..N /\ n - 1 \in 0..N
      BY <1>1, <2>2
    <3>2. f[n] = g[n][f[n - 1]] /\ f[n - 1] \in T
      BY <1>4, <3>1 DEF Recursive
    <3>3. g[n][f[n - 1]] = [p \in Q |-> one(n, f[n - 1], p)]
      BY <3>1, <3>2
    <3> QED BY <3>2, <3>3
  <2> QED
    BY <2>1, <2>2
<1>6. Holds(f)
  <2>1. ASSUME NEW n \in 0..N PROVE f[n] = [q \in Q |-> one(n, f[n - 1], q)]
    <3>1. f[n] \in [Q -> C]
      <4> HIDE DEF N, Q, C, a, g
      <4> QED BY <1>4 DEF Recursive
    <3> HIDE DEF one, Q, C, N
    <3> QED BY <1>5, <3>1
  <2>2. f = [n \in 0..N |-> [q \in Q |-> one(n, f[n - 1], q)]]
    <3>1. f \in [0..N -> T]
      BY SMTT(30), <1>4 DEF Recursive
    <3> HIDE DEF one, Q, C, N, T
    <3> QED BY <2>1, <3>1
  <2> QED BY <2>2
<1>7. Holds(search)
  <2>1. \E h : Holds(h)
    <3> HIDE DEF Holds
    <3> QED BY <1>6
  <2> QED BY <2>1
<1>8. Searching(search, N)
  <2> HIDE DEF search, N
  <2>1. ASSUME NEW n \in 0..N, NEW q \in Seq(Steps)
        PROVE  search[n][q] = one(n, search[n - 1], q)
    <3>1. search[n] = [p \in Q |-> one(n, search[n - 1], p)]
      BY <1>7
    <3> HIDE DEF one
    <3> QED BY <3>1
  <2> QED BY <2>1 DEF Searching
<1>9. NextCommand = search[N][<<Step(room, NoDir)>>]
  BY DEF NextCommand
<1> QED
  <2> HIDE DEF search
  <2> QED BY <1>8, <1>9

\* The rooms that he can walk to have nothing left.
LEMMA NothingLeftDone ==
  NothingLeft <=>
    \E S \in SUBSET RoomIds(world) :
      room \in S /\ ClosedUnder(S, CanPass) /\ \A r \in S : Done(r)
<1>1. ASSUME NEW S \in SUBSET RoomIds(world)
      PROVE  (\A g \in Gates : g[1] \in S /\ Held(ExitAt(g[1], g[2])) => CanPass(g))
             <=> (\A r \in S : \A d \in DOMAIN RoomOf(r).exits : ~ Ready(r, d))
  <2>1. ASSUME NEW r \in S, NEW d \in DOMAIN RoomOf(r).exits
        PROVE  ~ Ready(r, d) <=> (Held(ExitAt(r, d)) => CanPass(<<r, d>>))
    BY DEF Ready, KeyFits, Held, CanPass
  <2>2. \A r \in S : \A d \in DOMAIN RoomOf(r).exits :
          <<r, d>> \in Gates /\ <<r, d>>[1] = r /\ <<r, d>>[2] = d
    BY GateOf
  <2>3. \A g \in Gates : g[2] \in DOMAIN RoomOf(g[1]).exits /\ g = <<g[1], g[2]>>
    BY DEF Gates
  <2> QED
    BY ZenonT(60), <2>1, <2>2, <2>3
<1> QED
  BY <1>1 DEF NothingLeft, Done

\* A step of the queue with something left is suggested, and shows that it is.
LEMMA SuggestionRight ==
  ASSUME SessionOK, NEW q, QueueOK(q), NEW i \in DOMAIN q, Action(q[i].room) # {}
  PROVE  Local(Suggestion(q[i])) /\ Suggestion(q[i]) # LookAround /\ ~ NothingLeft
<1>1. q[i].room \in RoomIds(world)
  <2>1. q[i] \in Steps
    BY DEF QueueOK
  <2> QED
    BY <2>1 DEF Steps
<1>2. ~ NothingLeft
  BY <1>1, ActionDone, NothingLeftDone DEF QueueOK, Walkable
<1>3. CASE i = 1
  <2>1. q[i] = Step(room, NoDir)
    BY <1>3 DEF QueueOK
  <2>2. q[i].first = NoDir /\ q[i].room = room
    BY <2>1 DEF Step
  <2>3. Suggestion(q[i]) \in Action(room)
    BY <2>2 DEF Suggestion
  <2> QED
    BY <1>2, <2>3, ActionLocal
<1>4. CASE i # 1
  <2>1. q[i].first \in DOMAIN RoomOf(room).exits /\ Passable(room, q[i].first)
    BY <1>4 DEF QueueOK
  <2>2. q[i].first # NoDir
    BY <2>1, ExitLeads DEF SessionOK
  <2>3. Suggestion(q[i]) = Cmd("go", q[i].first)
    BY <2>2 DEF Suggestion
  <2>4. Local(Suggestion(q[i]))
    BY <2>1, <2>3 DEF Local
  <2>5. \A d : Cmd("go", d) # LookAround
    BY DEF Cmd, LookAround
  <2> QED
    BY <1>2, <2>3, <2>4, <2>5
<1> QED
  BY <1>3, <1>4

\* What the search comes to.
Right(c) == Local(c) /\ (c = LookAround <=> NothingLeft)

\* The search comes to a command for the visitor's room, and to "look" only when
\* nothing is left: the steps that are behind it are done, and followed.
LEMMA NextCommandRight == SessionOK => Right(NextCommand)
<1> SUFFICES ASSUME SessionOK PROVE Right(NextCommand)
  OBVIOUS
<1> DEFINE N == Cardinality(RoomIds(world))
           start == <<Step(room, NoDir)>>
           Behind(q, n) ==
             /\ QueueOK(q)
             /\ \A j \in DOMAIN q :
                  j <= N - n => Done(q[j].room) /\ \A d : Followed(q, q[j].room, d)
<1>1. QueueOK(start)
  BY FirstQueue
<1>2. N \in Nat
  BY <1>1, QueueBounded
<1>3. PICK search : Searching(search, N) /\ NextCommand = search[N][start]
  BY NextCommandSearches
<1>4. ASSUME NEW q, NEW n \in 0..N, Behind(q, n), N - n + 1 > N \/ N - n + 1 > Len(q)
      PROVE  NothingLeft
  <2>1. q \in Seq(Steps) /\ Len(q) \in Nat /\ DOMAIN q = 1..Len(q) /\ Len(q) <= N
    BY <1>4, QueueBounded DEF QueueOK
  <2>2. \A j \in DOMAIN q : j <= N - n
    BY <1>2, <1>4, <2>1
  <2> DEFINE S == {q[j].room : j \in DOMAIN q}
  <2>3. S \in SUBSET RoomIds(world)
    <3>1. \A j \in DOMAIN q : q[j] \in Steps
      BY <2>1
    <3> QED
      BY <3>1 DEF Steps
  <2>4. room \in S
    BY <1>4 DEF QueueOK, Step
  <2>5. ClosedUnder(S, CanPass)
    <3> SUFFICES ASSUME NEW g \in Gates, g[1] \in S, CanPass(g)
                 PROVE  ExitAt(g[1], g[2]).to \in S
      BY DEF ClosedUnder
    <3>1. PICK j \in DOMAIN q : q[j].room = g[1]
      OBVIOUS
    <3>2. g[2] \in DOMAIN RoomOf(g[1]).exits /\ g = <<g[1], g[2]>>
      BY DEF Gates
    <3>3. Passable(g[1], g[2])
      BY <3>2 DEF CanPass, Passable, Held, KeyFits
    <3>4. Followed(q, g[1], g[2])
      BY <1>4, <2>2, <3>1
    <3> QED
      BY <3>2, <3>3, <3>4 DEF Followed, Known
  <2>6. \A r \in S : Done(r)
    BY <1>4, <2>2
  <2> QED
    <3> HIDE DEF S
    <3> QED BY <2>3, <2>4, <2>5, <2>6, NothingLeftDone
<1>5. ASSUME NEW q, NEW n \in 0..N, Behind(q, n), N - n + 1 <= N, N - n + 1 <= Len(q),
             Action(q[N - n + 1].room) = {}
      PROVE  n - 1 \in 0..N /\ Behind(Enqueue(q, q[N - n + 1]), n - 1)
  <2> DEFINE i == N - n + 1
             p == Enqueue(q, q[i])
  <2>1. q \in Seq(Steps) /\ Len(q) \in Nat /\ DOMAIN q = 1..Len(q)
    BY <1>5 DEF QueueOK
  <2>2. i \in DOMAIN q /\ n - 1 \in 0..N /\ i = N - (n - 1)
    BY <1>2, <1>5, <2>1
  <2>3. QueueOK(p) /\ Extends(p, q) /\ \A d : Followed(p, q[i].room, d)
    BY <1>5, <2>2, EnqueueOK
  <2>4. Done(q[i].room)
    <3>1. q[i] \in Steps
      BY <2>1, <2>2
    <3> QED
      BY <1>5, <3>1, ActionDone DEF Steps
  <2> HIDE DEF p
  <2>5. ASSUME NEW j \in DOMAIN p, j <= i
        PROVE  Done(p[j].room) /\ \A d : Followed(p, p[j].room, d)
    <3>1. p \in Seq(Steps) /\ DOMAIN p = 1..Len(p)
      BY <2>3 DEF QueueOK
    <3>2. j \in DOMAIN q
      BY <2>1, <2>2, <2>5, <3>1
    <3>3. p[j] = q[j]
      BY <2>3, <3>2 DEF Extends
    <3>4. CASE j = i
      BY <2>3, <2>4, <3>3, <3>4
    <3>5. CASE j # i
      <4>1. j <= N - n
        BY <1>2, <2>1, <2>5, <3>2, <3>5
      <4>2. Done(q[j].room) /\ \A d : Followed(q, q[j].room, d)
        BY <1>5, <3>2, <4>1
      <4> QED
        BY <2>3, <3>3, <4>2 DEF Followed, Known, Extends
    <3> QED
      BY <3>4, <3>5
  <2> QED
    BY <2>2, <2>3, <2>5 DEF p
<1> DEFINE D == {n \in 0..N : \A q : Behind(q, n) => Right(search[n][q])}
<1>6. ASSUME NEW n \in 0..N, NEW q, Behind(q, n), n # 0 => n - 1 \in D
      PROVE  Right(search[n][q])
  <2> DEFINE i == N - n + 1
  <2>0. q \in Seq(Steps) /\ Len(q) \in Nat /\ DOMAIN q = 1..Len(q)
    BY <1>6 DEF QueueOK
  <2>1. search[n][q] = IF i > N \/ i > Len(q) THEN LookAround
                       ELSE IF Action(q[i].room) # {} THEN Suggestion(q[i])
                       ELSE search[n - 1][Enqueue(q, q[i])]
    BY <1>3, <2>0 DEF Searching
  <2>2. CASE i > N \/ i > Len(q)
    <3>1. NothingLeft
      BY <1>4, <1>6, <2>2
    <3> QED
      BY <2>1, <2>2, <3>1 DEF Right, Local
  <2>3. CASE ~ (i > N \/ i > Len(q)) /\ Action(q[i].room) # {}
    <3>1. i \in DOMAIN q
      BY <1>2, <2>0, <2>3
    <3> QED
      BY <1>6, <2>1, <2>3, <3>1, SuggestionRight DEF Right
  <2>4. CASE ~ (i > N \/ i > Len(q)) /\ Action(q[i].room) = {}
    <3>1. n - 1 \in 0..N /\ Behind(Enqueue(q, q[i]), n - 1) /\ n # 0
      <4>1. i <= N /\ i <= Len(q)
        BY <1>2, <2>0, <2>4
      <4>2. n - 1 \in 0..N /\ Behind(Enqueue(q, q[i]), n - 1)
        BY <1>5, <1>6, <2>4, <4>1
      <4> QED
        BY <1>2, <4>1, <4>2
    <3> HIDE DEF Behind
    <3> QED BY <1>6, <2>1, <2>4, <3>1
  <2> QED
    BY <2>2, <2>3, <2>4
<1>7. 0 \in D
  BY <1>2, <1>6
<1>8. ASSUME NEW n \in D, n < N PROVE n + 1 \in D
  <2>1. n + 1 \in 0..N /\ (n + 1) - 1 \in D
    BY <1>2, <1>8
  <2> HIDE DEF Behind
  <2> QED BY <1>6, <2>1
<1>9. D = 0..N
  <2>1. D \in SUBSET (0..N)
    OBVIOUS
  <2> HIDE DEF D
  <2> QED BY <1>2, <1>7, <1>8, <2>1, IntervalInduction
<1>10. Behind(start, N)
  BY <1>1, <1>2
<1> QED
  <2>1. N \in D
    <3> HIDE DEF D
    <3> QED BY <1>2, <1>9
  <2> HIDE DEF Behind
  <2> QED BY <1>3, <1>10, <2>1
-----------------------------------------------------------------------------
(* The suggestion, run *)

\* What the visitor can be told: a command for his room, while no challenge is on.
HintOK == hint # NoHint => puzzleDir = NoDir /\ Local(hint)

\* A suggestion is a line that the visitor can send, and is read as it is meant.
LEMMA HintLine ==
  ASSUME SessionOK, NEW c, Local(c)
  PROVE  /\ LineOf(c) \in Lines /\ LineOf(c).cmd = c.cmd /\ LineOf(c).arg = c.arg
         /\ LineOf(c).item = c.arg
         /\ c # LookAround => c.arg # ""
         /\ c \in Commands(world)
<1>1. c \in Commands(world)
  <2>1. CASE \E d \in DOMAIN RoomOf(room).exits : c = Cmd("go", d)
    BY <2>1 DEF Commands, SessionOK, RoomOf
  <2>2. CASE \E item \in ToSet(RoomOf(room).pickup) : c = Cmd("take", item)
    BY <2>2 DEF Commands, SessionOK, RoomOf, Pickups
  <2>3. CASE \E id \in ToSet(RoomOf(room).rewards), cmd \in {"read", "use"} : c = Cmd(cmd, id)
    <3>1. ToSet(RoomOf(room).rewards) \subseteq DOMAIN world.rewards
      BY DEF SessionOK, Validate, RoomOK, RoomOf
    <3> QED
      BY <2>3, <3>1 DEF Commands
  <2> QED
    BY <2>1, <2>2, <2>3 DEF Local, Commands
<1>2. /\ \E l \in Lines : l.cmd = c.cmd /\ l.arg = c.arg
      /\ \A l \in Lines : l.arg = c.arg => l.item = c.arg
      /\ c # LookAround => c.arg # ""
  BY <1>1, AdventureAssumption DEF SessionOK
<1>3. LineOf(c) \in Lines /\ LineOf(c).cmd = c.cmd /\ LineOf(c).arg = c.arg
  BY <1>2 DEF LineOf
<1> QED
  BY <1>1, <1>2, <1>3

\* A reward of the room is found by its name.
LEMMA NamedExists ==
  ASSUME SessionOK, NEW id \in ToSet(RoomOf(room).rewards)
  PROVE  Named(id) # {}
<1>1. IsList(RoomOf(room).rewards) /\ id \in DOMAIN world.rewards
  BY AdventureAssumption DEF SessionOK, Validate, RoomOK, RoomOf
<1> QED
  BY <1>1, FirstExists DEF Named

\* What the line of a suggestion does.
LEMMA HintRun ==
  ASSUME SessionOK, puzzleDir = NoDir, NEW c, Local(c), Run(LineOf(c))
  PROVE  /\ reply' # "guided"
         /\ c.cmd = "go" => room' = ExitAt(room, c.arg).to \/ puzzleDir' = c.arg
<1> DEFINE l == LineOf(c)
<1>0. /\ l.cmd = c.cmd /\ l.arg = c.arg /\ l.item = c.arg
      /\ c # LookAround => c.arg # ""
      /\ l.cmd # "" => Command(l)
  BY HintLine DEF Run
<1>1. CASE c = LookAround
  <2>1. l.cmd = "look" /\ c.cmd = "look"
    BY <1>0, <1>1 DEF LookAround, Cmd
  <2> HIDE DEF l
  <2>2. Command(l)
    BY <1>0, <2>1
  <2>3. Tell
    BY <2>1, <2>2 DEF Command, Compass, Shortcut
  <2> QED
    BY <2>1, <2>3 DEF Tell, Say
<1>2. ASSUME NEW d \in DOMAIN RoomOf(room).exits, c = Cmd("go", d),
             Passable(room, d) \/ Ready(room, d)
      PROVE  reply' # "guided" /\ (room' = ExitAt(room, d).to \/ puzzleDir' = d)
  <2>1. l.cmd = "go" /\ l.arg = d
    BY <1>0, <1>2 DEF Cmd
  <2> HIDE DEF l
  <2>2. Command(l)
    BY <1>0, <2>1
  <2>3. Move(d)
    BY <2>1, <2>2 DEF Command, Compass, Shortcut
  <2>4. Resolve(d) = d
    BY DEF Resolve
  <2>5. <<room, d>> \in unlocked \/ KeyFits(ExitAt(room, d))
    BY <1>2 DEF Passable, Ready
  <2>6. /\ reply' = "text"
        /\ IF <<room, d>> \notin unlocked /\ Gated(ExitAt(room, d))
           THEN Unlock(d) ELSE UNCHANGED <<unlocked, puzzleDir>>
        /\ room' = IF puzzleDir' # NoDir THEN room ELSE ExitAt(room, d).to
    BY <2>3, <2>4, <2>5 DEF Move, Say
  <2>7. puzzleDir' = d \/ puzzleDir' = NoDir
    BY <2>6 DEF Unlock
  <2> QED
    BY <2>6, <2>7
<1>3. ASSUME NEW item \in ToSet(RoomOf(room).pickup), c = Cmd("take", item)
      PROVE  reply' # "guided"
  <2>1. l.cmd = "take" /\ l.arg = item /\ l.item = item /\ c # LookAround
    BY <1>0, <1>3 DEF Cmd, LookAround
  <2>2. l.arg # ""
    BY <1>0, <2>1
  <2> HIDE DEF l
  <2>3. Command(l)
    BY <1>0, <2>1
  <2>4. Take(l)
    BY <2>1, <2>3 DEF Command, Compass, Shortcut
  <2> QED
    BY <2>1, <2>2, <2>4 DEF Take, Tell, Say
<1>4. ASSUME NEW id \in ToSet(RoomOf(room).rewards), NEW cmd \in {"read", "use"}, c = Cmd(cmd, id)
      PROVE  reply' # "guided"
  <2>1. l.cmd = cmd /\ l.arg = id /\ c # LookAround
    BY <1>0, <1>4 DEF Cmd, LookAround
  <2>2. l.arg # ""
    BY <1>0, <2>1
  <2>3. Named(l.arg) # {}
    BY <2>1, NamedExists
  <2> HIDE DEF l
  <2>4. Command(l)
    BY <1>0, <2>1
  <2>5. Read(l) \/ Use(l)
    BY <2>1, <2>4 DEF Command, Compass, Shortcut
  <2>6. \E x \in Named(l.arg) : Reward(x)
    BY <2>2, <2>3, <2>5 DEF Read, Use
  <2> QED
    BY <2>6 DEF Reward, Tell, Say
<1> QED
  <2>1. \A x : Cmd("go", x).cmd = "go" /\ Cmd("go", x).arg = x /\ Cmd("take", x).cmd = "take"
    BY DEF Cmd
  <2>2. \A x : \A cmd \in {"read", "use"} : Cmd(cmd, x).cmd # "go"
    BY DEF Cmd
  <2> HIDE DEF l
  <2> QED BY <1>1, <1>2, <1>3, <1>4, <2>1, <2>2 DEF Local
-----------------------------------------------------------------------------
(* The invariant, with the types and the suggestion *)

Typed ==
  /\ connected \in BOOLEAN /\ reply \in {"none", "text", "guided", "victory", "quit"}
  /\ taken \subseteq Pickups(world) /\ unlocked \subseteq Gates /\ solved \subseteq Gates

GuideInv == IInv /\ Typed /\ HintOK

\* What a line comes to: a reply without a suggestion, or the next command.
LEMMA RunSays ==
  ASSUME NEW l, Run(l)
  PROVE  /\ reply' \in {"text", "guided", "victory", "quit"}
         /\ \/ hint' = NoHint
            \/ UNCHANGED <<world, progress>> /\ puzzleDir = NoDir /\ hint' = NextCommand
<1> DEFINE Kinds == {"text", "guided", "victory", "quit"}
           Told == \/ \E kind \in Kinds : Say(kind)
                   \/ /\ UNCHANGED progress /\ puzzleDir = NoDir
                      /\ reply' = "guided" /\ hint' = NextCommand
<1>0. \A kind \in Kinds : Say(kind) => Told
  OBVIOUS
<1>1. (Guide => Told) /\ (Tell => Told) /\ (Quit => Told)
  BY DEF Guide, Tell, Quit
<1>2. ASSUME NEW id, Reward(id) PROVE Told
  <2>1. CASE Tell
    BY <1>1, <2>1
  <2>2. CASE ~ Tell
    <3>1. Say(IF completed THEN "text" ELSE "victory")
      BY <1>2, <2>2 DEF Reward
    <3>2. (IF completed THEN "text" ELSE "victory") \in Kinds
      OBVIOUS
    <3> HIDE DEF Told, Kinds
    <3> QED BY <1>0, <3>1, <3>2
  <2> QED
    BY <2>1, <2>2
<1> HIDE DEF Told
<1>3. Say("text") => Told
  BY <1>0
<1>4. ASSUME NEW word, Move(word) PROVE Told
  BY <1>1, <1>3, <1>4 DEF Move
<1>5. (Read(l) => Told) /\ (Take(l) => Told) /\ (Use(l) => Told)
  BY <1>1, <1>2, <1>3 DEF Read, Take, Use
<1>6. AtPanel(l) => Told
  BY <1>1, <1>3 DEF AtPanel
<1>7. Command(l) => Told
  BY <1>1, <1>4, <1>5 DEF Command
<1>8. Told
  BY <1>1, <1>6, <1>7 DEF Run
<1> QED
  BY <1>8 DEF Told, Say, Run

\* The gates that are opened are gates, and what is taken lay in the room.
LEMMA RunChanges ==
  ASSUME SessionOK, PanelConsistent, NEW l, Run(l)
  PROVE  /\ connected' \in {connected, FALSE}
         /\ \/ unlocked' = unlocked /\ solved' = solved
            \/ \E g \in Gates : /\ unlocked' \subseteq unlocked \cup {g}
                                /\ solved' \subseteq solved \cup {g}
         /\ taken' \subseteq taken \cup ToSet(RoomOf(room).pickup)
<1> DEFINE Opened == \/ unlocked' = unlocked /\ solved' = solved
                     \/ \E g \in Gates : /\ unlocked' \subseteq unlocked \cup {g}
                                         /\ solved' \subseteq solved \cup {g}
           Taken == taken' \subseteq taken \cup ToSet(RoomOf(room).pickup)
<1>1. connected' \in {connected, FALSE}
  <2>1. UNCHANGED connected \/ Quit
    BY DEF Run, Command, AtPanel
  <2> QED
    BY <2>1 DEF Quit
<1>2. UNCHANGED progress => Opened /\ Taken
  BY DEF progress
<1>3. (Guide => Opened /\ Taken) /\ (Tell => Opened /\ Taken) /\ (Quit => Opened /\ Taken)
  BY <1>2 DEF Guide, Tell, Quit
<1>4. ASSUME NEW d \in DOMAIN RoomOf(room).exits, Unlock(d), solved' = solved PROVE Opened
  <2>1. <<room, d>> \in Gates
    BY GateOf DEF SessionOK
  <2> QED
    BY <1>4, <2>1 DEF Unlock
<1>5. ASSUME NEW word, Move(word) PROVE Opened /\ Taken
  <2>1. CASE Guide
    BY <1>3, <2>1
  <2>2. CASE ~ Guide
    <3> DEFINE d == Resolve(word)
    <3>1. /\ d \in DOMAIN RoomOf(room).exits
          /\ Unlock(d) \/ UNCHANGED <<unlocked, puzzleDir>>
          /\ taken' = taken /\ solved' = solved
      BY <1>5, <2>2 DEF Move
    <3> HIDE DEF d
    <3>2. Opened
      BY <1>4, <3>1
    <3> QED
      BY <3>1, <3>2
  <2> QED
    BY <2>1, <2>2
<1>6. ASSUME NEW id, Reward(id) PROVE Opened /\ Taken
  BY <1>3, <1>6 DEF Reward
<1>7. Take(l) => Opened /\ Taken
  <2>1. CASE Guide \/ Tell
    BY <1>3, <2>1
  <2>2. CASE ~ (Guide \/ Tell)
    BY <2>2 DEF Take
  <2> QED
    BY <2>1, <2>2
<1>8. (Read(l) => Opened /\ Taken) /\ (Use(l) => Opened /\ Taken)
  <2>1. ASSUME NEW d \in KeyedBy(l.item), Unlock(d), UNCHANGED <<taken, solved>>
        PROVE  Opened /\ Taken
    <3>1. d \in DOMAIN RoomOf(room).exits
      BY DEF KeyedBy, FirstIn
    <3> QED
      BY <1>4, <2>1, <3>1
  <2> HIDE DEF Opened, Taken
  <2> QED BY <1>3, <1>6, <2>1 DEF Read, Use
<1>9. puzzleDir # NoDir /\ AtPanel(l) => Opened /\ Taken
  <2>1. puzzleDir # NoDir => <<room, puzzleDir>> \in Gates
    BY DEF PanelConsistent
  <2>2. CASE Guide \/ Quit
    BY <1>3, <2>2
  <2>3. CASE ~ (Guide \/ Quit)
    BY <2>1, <2>3 DEF AtPanel
  <2> QED
    BY <2>2, <2>3
<1>10. Command(l) => Opened /\ Taken
  <2> HIDE DEF Opened, Taken
  <2> QED BY <1>3, <1>5, <1>7, <1>8 DEF Command
<1>11. Opened /\ Taken
  <2> HIDE DEF Opened, Taken
  <2> QED BY <1>3, <1>9, <1>10 DEF Run
<1> QED
  BY <1>1, <1>11

LEMMA GuideInit == Init => GuideInv
<1> SUFFICES ASSUME Init PROVE GuideInv
  OBVIOUS
<1> QED
  BY InitInv DEF Init, GuideInv, Typed, HintOK

\* Every line keeps the invariant.
LEMMA GuideNext == GuideInv /\ [Next]_vars => GuideInv'
<1> SUFFICES ASSUME GuideInv, [Next]_vars PROVE GuideInv'
  OBVIOUS
<1>1. IInv' /\ SessionOK
  BY NextInv DEF GuideInv, IInv
<1>2. CASE UNCHANGED vars
  <2>1. Typed'
    BY SMTT(30), <1>2 DEF GuideInv, Typed, vars, progress, Gates, RoomIds, RoomOf
  <2>2. HintOK'
    BY <1>2 DEF GuideInv, HintOK, Local, vars, progress, Passable, Ready, KeyFits, ExitAt, RoomOf
  <2> QED
    BY <1>1, <2>1, <2>2 DEF GuideInv
<1>3. ASSUME NEW l \in Lines, Run(l)
      PROVE  GuideInv'
  <2>0. world' = world
    BY <1>3 DEF Run
  <2>1. Typed'
    <3>1. /\ connected' \in BOOLEAN /\ reply' \in {"none", "text", "guided", "victory", "quit"}
      BY <1>1, <1>3, RunChanges, RunSays DEF GuideInv, IInv, Typed
    <3>2. unlocked' \subseteq Gates /\ solved' \subseteq Gates
      BY <1>1, <1>3, RunChanges DEF GuideInv, IInv, Typed
    <3>3. taken' \subseteq Pickups(world)
      BY <1>1, <1>3, RunChanges DEF GuideInv, IInv, Typed, SessionOK, Pickups, RoomOf
    <3>4. Gates' = Gates /\ Pickups(world)' = Pickups(world)
      BY <2>0 DEF Gates, RoomIds, RoomOf, Pickups
    <3> QED
      BY <3>1, <3>2, <3>3, <3>4 DEF Typed
  <2>2. HintOK'
    <3>1. CASE hint' = NoHint
      BY SMTT(30), <3>1 DEF HintOK
    <3>2. CASE UNCHANGED <<world, progress>> /\ puzzleDir = NoDir /\ hint' = NextCommand
      <4>1. Local(NextCommand)
        BY <1>1, NextCommandRight DEF Right
      <4> DEFINE c == NextCommand
      <4> HIDE DEF c
      <4>2. Local(c) /\ hint' = c
        BY <3>2, <4>1 DEF c
      <4> QED
        BY <3>2, <4>2
           DEF HintOK, Local, progress, Passable, Ready, KeyFits, ExitAt, RoomOf
    <3> QED
      BY <1>3, <3>1, <3>2, RunSays
  <2> QED
    BY <1>1, <2>1, <2>2 DEF GuideInv
<1> QED
  BY <1>2, <1>3 DEF Next

LEMMA GuideInvHolds == Spec => []GuideInv
BY GuideInit, GuideNext, PTL DEF Spec
-----------------------------------------------------------------------------
(* The theorems *)

\* Run never lets a visitor enter, read or take what the exits, the keys and
\* the answers of the world did not allow, whatever lines he sends.
THEOREM EarnedCorrect == Spec => []Earned
<1>1. IInv => Earned
  BY DEF IInv
<1> QED
  BY <1>1, InvHolds, PTL

\* The prompt and the answers of Run are always those of a locked exit of the
\* room, with its key in hand.
THEOREM PanelCorrect == Spec => []PanelConsistent
<1>1. IInv => PanelConsistent
  BY DEF IInv
<1> QED
  BY <1>1, InvHolds, PTL

\* reward announces one victory, and what it leaves in the session is what the
\* rewards that were read account for.
THEOREM RewardsCorrect == Spec => []RewardsConsistent
<1>1. IInv => RewardsConsistent
  BY DEF IInv
<1> QED
  BY <1>1, InvHolds, PTL

\* Whatever the visitor sends, the session holds only rooms, gates, items and
\* artifacts of its world, and the guide suggests only what he can send.
THEOREM TypeCorrect == Spec => []TypeOK
<1>1. GuideInv => TypeOK
  <2> SUFFICES ASSUME GuideInv PROVE TypeOK
    OBVIOUS
  <2> USE DEF GuideInv, IInv
  <2>1. inventory \subseteq Pickups(world) /\ readRewards \subseteq DOMAIN world.rewards
    <3>1. inventory \subseteq Pickups(world)
      BY DEF Earned, EarnedRooms, Pickups, RoomOf
    <3>2. readRewards \subseteq DOMAIN world.rewards
      BY DEF Earned, EarnedRooms, SessionOK, Validate, RoomOK, RoomOf
    <3> QED
      BY <3>1, <3>2
  <2>2. puzzleDir \in DOMAIN RoomOf(room).exits \cup {NoDir}
    BY DEF PanelConsistent, Gates
  <2>3. hint \in [cmd : {"", "look", "go", "take", "use", "read"}, arg : {l.arg : l \in Lines}]
    <3>1. CASE hint = NoHint
      <4>1. Local(LookAround) /\ LookAround.arg = ""
        BY DEF Local, LookAround, Cmd
      <4>2. \E l \in Lines : l.arg = ""
        BY <4>1, HintLine
      <4> QED
        BY <3>1, <4>2 DEF NoHint, Cmd
    <3>2. CASE hint # NoHint
      <4>1. Local(hint)
        BY <3>2 DEF HintOK
      <4>2. \E l \in Lines : l.arg = hint.arg
        BY <4>1, HintLine
      <4>3. \E arg : \E cmd \in {"look", "go", "take", "use", "read"} : hint = Cmd(cmd, arg)
        BY <4>1 DEF Local, LookAround
      <4>4. PICK arg : \E cmd \in {"look", "go", "take", "use", "read"} : hint = Cmd(cmd, arg)
        BY <4>3
      <4>5. PICK cmd \in {"look", "go", "take", "use", "read"} : hint = [cmd |-> cmd, arg |-> arg]
        BY <4>4 DEF Cmd
      <4>6. arg \in {l.arg : l \in Lines}
        BY <4>2, <4>5
      <4> QED
        BY <4>5, <4>6
    <3> QED
      BY <3>1, <3>2
  <2>4. victories \in Nat
    BY DEF RewardsConsistent
  <2> QED
    BY <2>1, <2>2, <2>3, <2>4 DEF TypeOK, Typed, SessionOK
<1> QED
  BY <1>1, GuideInvHolds, PTL

\* nextCommand says "look" exactly when nothing is left to read, to take or to
\* answer in the rooms that the visitor can walk to.
THEOREM LookCorrect == Spec => []LookMeansDone
<1>1. IInv => LookMeansDone
  BY NextCommandRight DEF IInv, Right, LookMeansDone
<1> QED
  BY <1>1, InvHolds, PTL

\* What guide suggests is never refused by Run in the next line, and a direction
\* leads through the exit of that name, or to its challenge.
THEOREM HintCorrect == Spec => HintPlayable
<1>1. GuideInv => [hint # NoHint /\ Run(LineOf(hint)) =>
                     /\ reply' # "guided"
                     /\ hint.cmd = "go" => room' = ExitAt(room, hint.arg).to
                                           \/ puzzleDir' = hint.arg]_vars
  BY HintRun DEF GuideInv, IInv, HintOK
<1> QED
  BY <1>1, GuideInvHolds, PTL DEF HintPlayable
=============================================================================
