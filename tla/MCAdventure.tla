----------------------------- MODULE MCAdventure -----------------------------
(* The embedded world, the worlds of the tests, and a family of small worlds. *)
EXTENDS Adventure, TLC

Exit(to, key, puzzle) == [to |-> to, key |-> key, puzzle |-> puzzle]
Open(to) == Exit(to, None, None)
NoExits == [d \in {} |-> Open("")]
Room(exits, items, pickup, rewards) ==
  [exits |-> exits, items |-> items, pickup |-> pickup, rewards |-> rewards]
File(aliases) == [kind |-> "file", aliases |-> aliases, decoy |-> FALSE]
Shell(aliases) == [kind |-> "shell", aliases |-> aliases, decoy |-> FALSE]
KeyFile == [kind |-> "file", aliases |-> {}, decoy |-> TRUE]
Puzzle(answer) == [p |-> {answer}]

\* adventures/default
GreySector ==
  [start |-> "lobby",
   rooms |->
     "lobby" :> Room("north" :> Open("corridor") @@ "east" :> Open("storage"),
                     {"posted_notice"}, <<>>, <<>>)
     @@ "storage" :> Room("west" :> Open("lobby"),
                          {"access_crystal", "cargo_manifest"}, <<"access_crystal">>, <<>>)
     @@ "corridor" :> Room("south" :> Open("lobby") @@ "west" :> Open("archive"), {}, <<>>, <<>>)
     @@ "archive" :> Room("east" :> Open("corridor") @@ "north" :> Exit("lab", "access_crystal", None),
                          {"security_seal"}, <<"security_seal">>, <<>>)
     @@ "lab" :> Room("south" :> Open("archive") @@ "east" :> Open("vault_door"), {}, <<>>, <<>>)
     @@ "vault_door" :> Room("west" :> Open("lab") @@ "north" :> Exit("vault", "security_seal", "p"),
                             {}, <<>>, <<>>)
     @@ "vault" :> Room("south" :> Open("vault_door"), {}, <<>>,
                        <<"root_console", "id_ed25519", "credentials.env">>),
   puzzles |-> Puzzle("theone"),
   rewards |-> "root_console" :> Shell({"console"}) @@ "id_ed25519" :> KeyFile
               @@ "credentials.env" :> File({".env"})]

\* An exit that bears the name of a shortcut (guidance_test.go:46-62).
LiteralExit ==
  [start |-> "lobby",
   rooms |->
     "lobby" :> Room("north" :> Open("vault") @@ "n" :> Open("storage"), {}, <<>>, <<>>)
     @@ "storage" :> Room("west" :> Open("lobby"), {"badge"}, <<"badge">>, <<>>)
     @@ "vault" :> Room("south" :> Open("lobby"), {}, <<>>, <<"root_console">>),
   puzzles |-> Puzzle("theone"),
   rewards |-> "root_console" :> Shell({})]

\* A hub whose two other rooms lie behind every kind of exit, with and without a
\* way back, and one key in any of the three.
Gate(to) == {Exit(to, key, puzzle) : key \in {None, "badge"}, puzzle \in {None, "p"}}
Back == {NoExits, "south" :> Open("lobby")}

HubRoom(id, exits, keyRooms, shellRoom) ==
  Room(exits,
       IF id \in keyRooms THEN {"badge"} ELSE {},
       IF id \in keyRooms THEN <<"badge">> ELSE <<>>,
       IF id = "lobby" THEN <<>>
       ELSE IF id = shellRoom THEN <<"root_console">>
       ELSE <<"id_ed25519">>)

Hub(east, north, back1, back2, keyRooms, shellRoom) ==
  [start |-> "lobby",
   rooms |->
     "lobby" :> HubRoom("lobby", "east" :> east @@ "north" :> north, keyRooms, shellRoom)
     @@ "storage" :> HubRoom("storage", back1, keyRooms, shellRoom)
     @@ "vault" :> HubRoom("vault", back2, keyRooms, shellRoom),
   puzzles |-> Puzzle("theone"),
   rewards |-> "root_console" :> Shell({}) @@ "id_ed25519" :> KeyFile]

Hubs ==
  {Hub(east, north, back1, back2, keyRooms, shellRoom) :
     east \in Gate("storage"), north \in Gate("vault"), back1 \in Back, back2 \in Back,
     keyRooms \in {{"lobby"}, {"storage"}, {"vault"}}, shellRoom \in {"storage", "vault"}}

MCWorlds == {GreySector, LiteralExit} \cup Hubs

\* The key lies in a dead end, and its gate is outside.
MCForks == {w \in Hubs : w.rooms["lobby"].exits["north"].key = "badge"}

\* A challenge whose answer is a word that leaves it.
MCReserved == {[GreySector EXCEPT !.puzzles = Puzzle("cancel")]}

MCSorted == <<"east", "n", "north", "south", "west">>

Line(cmd, arg) == [cmd |-> cmd, arg |-> arg, item |-> arg, answer |-> IF arg = "" THEN cmd ELSE "-"]

MCLines ==
  {Line(cmd, "") : cmd \in {"", "look", "sudo", "whoami", "read", "take", "cancel", "exit", "q", "n", "north", "east", "theone"}}
    \cup {Line("go", d) : d \in ToSet(MCSorted)}
    \cup {Line(cmd, item) : cmd \in {"take", "use"}, item \in {"access_crystal", "security_seal", "badge"}}
    \cup {Line(cmd, id) : cmd \in {"use", "read"}, id \in {"root_console", "id_ed25519", "credentials.env"}}
    \cup {Line("read", "console"), Line("read", "badge"),
          [cmd |-> "the", arg |-> "one", item |-> "one", answer |-> "theone"],
          [cmd |-> "take", arg |-> "access crystal", item |-> "access_crystal", answer |-> "-"]}
=============================================================================
