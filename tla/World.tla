-------------------------------- MODULE World --------------------------------
(***************************************************************************)
(* The world of an adventure and its validation                            *)
(* (internal/adventure/config.go).  A world is a record:                   *)
(*   start    the first room                                               *)
(*   rooms    per room: exits per direction ([to, key, puzzle]), the set   *)
(*            of its items, and the lists pickup and rewards               *)
(*   puzzles  per puzzle: the set of its answers, each an input line       *)
(*   rewards  per reward: its kind, its aliases, and whether its content   *)
(*            holds the placeholder of the decoy key                       *)
(* Texts, and the rules about their length and their characters, are left  *)
(* out.                                                                    *)
(***************************************************************************)
EXTENDS Integers, Sequences, FiniteSets, SequencesExt

CONSTANT None    \* an exit has no key, or no puzzle

RoomIds(w) == DOMAIN w.rooms

IsList(s) == s \in Seq(ToSet(s))

\* Every pickup is an item of the room, every reward is one of the world.
RoomOK(w, r) ==
  /\ ToSet(w.rooms[r].pickup) \subseteq w.rooms[r].items
  /\ ToSet(w.rooms[r].rewards) \subseteq DOMAIN w.rewards

Pickups(w) == UNION {ToSet(w.rooms[r].pickup) : r \in RoomIds(w)}

\* An exit leads to a room; its key can be picked up somewhere.
ExitOK(w, e) ==
  /\ e.to \in RoomIds(w)
  /\ e.key = None \/ e.key \in Pickups(w)
  /\ e.puzzle = None \/ e.puzzle \in DOMAIN w.puzzles

ExitsOf(w, r) == {w.rooms[r].exits[d] : d \in DOMAIN w.rooms[r].exits}

\* No alias is the name of a reward or an alias of another one.
AliasesOK(w) ==
  \A id \in DOMAIN w.rewards, other \in DOMAIN w.rewards :
    /\ other \notin w.rewards[id].aliases
    /\ id # other => w.rewards[id].aliases \cap w.rewards[other].aliases = {}

\* Mutant: locked exits are passed without their key.
GrowAnyKey(w, s) ==
  [rooms |-> s.rooms \cup {e.to : e \in UNION {ExitsOf(w, r) : r \in s.rooms}}, keys |-> {}]

\* One pass of the search: the keys of the rooms reached, and the rooms behind
\* exits for which there is a key by now.  Puzzles are taken as solvable.
Grow(w, s) ==
  LET keys == s.keys \cup UNION {ToSet(w.rooms[r].pickup) : r \in s.rooms}
      exits == UNION {ExitsOf(w, r) : r \in s.rooms}
  IN  [rooms |-> s.rooms \cup {e.to : e \in {x \in exits : x.key = None \/ x.key \in keys}},
       keys |-> keys]

\* The passes end when nothing changes, at the latest after one per room.
Explored(w) ==
  LET pass[n \in 0..Cardinality(RoomIds(w))] ==
        IF n = 0 THEN [rooms |-> {w.start}, keys |-> {}] ELSE Grow(w, pass[n - 1])
  IN  pass[Cardinality(RoomIds(w))]

Placed(w) == UNION {ToSet(w.rooms[r].rewards) : r \in RoomIds(w)}

Validate(w) ==
  /\ DOMAIN w.rewards # {}
  /\ w.start \in RoomIds(w)
  /\ \A r \in RoomIds(w) : RoomOK(w, r)
  /\ \A r \in RoomIds(w) : \A e \in ExitsOf(w, r) : ExitOK(w, e)
  /\ \A p \in DOMAIN w.puzzles : w.puzzles[p] # {}
  /\ AliasesOK(w)
  /\ Explored(w).rooms = RoomIds(w)
  /\ DOMAIN w.rewards \subseteq Placed(w)
=============================================================================
