---------------------------- MODULE ServerProofs ----------------------------
(***************************************************************************)
(* Proofs about Server, for any listeners, connections, addresses and      *)
(* limits.  The inductive invariant has four parts beside the types: who   *)
(* owns a connection (Ownership), how far starting and closing have come   *)
(* (Stages), the counts of the admission table, and the wait group.        *)
(***************************************************************************)
EXTENDS Server, FiniteSetTheorems, TLAPS

LEMMA InitType == Init => TypeOK
<1> SUFFICES ASSUME Init PROVE TypeOK
  OBVIOUS
<1>1. loop \in [Endpoints -> {"unstarted", "accepting", "accepted", "admitting",
                              "spawning", "sending", "sent", "returned"}]
  BY DEF Init
<1>2. held \in [Endpoints -> Conns \cup {NoConn}]
  BY DEF Init
<1>3. \A ep \in Endpoints : held[ep] # NoConn <=> loop[ep] \in Holding
  BY DEF Init, Holding
<1>4. sock \in [Conns -> {"fresh", "open", "closed"}]
  BY DEF Init
<1>5. handler \in [Conns -> {"none", "spawned", "running", "closing",
                             "releasing", "released", "done"}]
  BY DEF Init
<1>6. DOMAIN ips \subseteq {IpOf[c] : c \in Conns} /\ ips \in [DOMAIN ips -> Nat \ {0}]
  BY DEF Init
<1>7. /\ serve \in {"binding", "aborting", "aborted", "starting", "selecting",
                    "closing", "waiting", "returned"}
      /\ once \in {"new", "listeners", "done"}
      /\ listening \subseteq Endpoints /\ active \subseteq Conns
      /\ wg \in Int /\ ret \in Results \cup {"none"}
  BY DEF Init
<1>8. result \in [Endpoints -> Results] /\ errCh \in [Results -> Nat]
  BY DEF Init, Results
<1>9. admClosed \in BOOLEAN /\ cancelled \in BOOLEAN /\ logFailed \in BOOLEAN
  BY DEF Init
<1> QED BY <1>1, <1>2, <1>3, <1>4, <1>5, <1>6, <1>7, <1>8, <1>9 DEF TypeOK

\* Release keeps the table a function to positive counts.
LEMMA ReleaseType ==
  ASSUME TypeOK, NEW c \in Conns, ReleaseConn(c)
  PROVE  TypeOK'
<1> USE ServerAssumption DEF TypeOK, netVars, loopVars, envVars, ReleaseConn
<1>1. CASE c \notin active
  BY <1>1 DEF Release
<1>2. CASE c \in active
  <2> DEFINE left == Count(IpOf[c]) - 1
             keys == IF left = 0 THEN DOMAIN ips \ {IpOf[c]} ELSE DOMAIN ips
  <2>1. ips' = [ip \in keys |-> IF ip = IpOf[c] THEN left ELSE ips[ip]]
    BY <1>2 DEF Release
  <2>2. keys \subseteq DOMAIN ips
    OBVIOUS
  <2>3. \A ip \in keys : ips'[ip] \in Nat \ {0}
    BY <2>1 DEF Count
  <2>4. DOMAIN ips' = keys
    BY <2>1
  <2>5. DOMAIN ips' \subseteq {IpOf[d] : d \in Conns} /\ ips' \in [DOMAIN ips' -> Nat \ {0}]
    <3> HIDE DEF keys
    <3> QED BY <2>1, <2>2, <2>3, <2>4
  <2> QED BY <1>2, <2>5 DEF Release
<1> QED BY <1>1, <1>2

\* Every action keeps the types.
LEMMA NextType ==
  ASSUME TypeOK, [Next]_vars
  PROVE  TypeOK'
<1> USE ServerAssumption DEF TypeOK, Holding, netVars, loopVars, admVars, envVars
<1>1. ASSUME NEW ep \in Endpoints, Bind(ep) PROVE TypeOK'
  BY <1>1 DEF Bind
<1>2. CASE BindFails
  BY <1>2 DEF BindFails
<1>3. CASE Abort
  BY <1>3 DEF Abort
<1>4. ASSUME NEW ep \in Endpoints, StartLoop(ep) PROVE TypeOK'
  BY <1>4 DEF StartLoop
<1>5. CASE Select
  <2>1. serve' \in {"closing"} /\ ret' \in Results \cup {"none"} /\ errCh' \in [Results -> Nat]
    BY <1>5 DEF Select, Results
  <2>2. logFailed' \in BOOLEAN
    BY <1>5 DEF Select
  <2> QED BY <1>5, <2>1, <2>2 DEF Select
<1>6. CASE ServeCloses
  BY <1>6 DEF ServeCloses
<1>7. CASE ServeClosed
  BY <1>7 DEF ServeClosed
<1>8. CASE Wait
  BY <1>8 DEF Wait
<1>9. CASE UserCloses
  BY <1>9 DEF UserCloses
<1>10. ASSUME NEW ep \in Endpoints, CloseListener(ep) PROVE TypeOK'
  BY <1>10 DEF CloseListener
<1>11. CASE CloseAll
  BY <1>11 DEF CloseAll
<1>12. ASSUME NEW ep \in Endpoints, NEW c \in Conns, AcceptConn(ep, c) PROVE TypeOK'
  BY <1>12 DEF AcceptConn
<1>13. ASSUME NEW ep \in Endpoints, AcceptFails(ep) PROVE TypeOK'
  BY <1>13 DEF AcceptFails, Results
<1>14. ASSUME NEW ep \in Endpoints, CheckClosing(ep) PROVE TypeOK'
  BY <1>14 DEF CheckClosing, Results
<1>15. ASSUME NEW ep \in Endpoints, Admit(ep) PROVE TypeOK'
  BY <1>15 DEF Admit, Acquire, Count
<1>16. ASSUME NEW ep \in Endpoints, Spawn(ep) PROVE TypeOK'
  BY <1>16 DEF Spawn
<1>17. ASSUME NEW ep \in Endpoints, SendResult(ep) PROVE TypeOK'
  BY <1>17 DEF SendResult, Results
<1>18. ASSUME NEW ep \in Endpoints, LoopDone(ep) PROVE TypeOK'
  BY <1>18 DEF LoopDone
<1>19. ASSUME NEW c \in Conns, Arm(c) PROVE TypeOK'
  BY <1>19 DEF Arm
<1>20. ASSUME NEW c \in Conns, Expire(c) PROVE TypeOK'
  BY <1>20 DEF Expire
<1>21. ASSUME NEW c \in Conns, Return(c) PROVE TypeOK'
  BY <1>21 DEF Return
<1>22. ASSUME NEW c \in Conns, CloseConn(c) PROVE TypeOK'
  BY <1>22 DEF CloseConn
<1>23. ASSUME NEW c \in Conns, ReleaseConn(c) PROVE TypeOK'
  BY <1>23, ReleaseType
<1>24. ASSUME NEW c \in Conns, HandlerDone(c) PROVE TypeOK'
  BY <1>24 DEF HandlerDone
<1>25. CASE Cancel
  BY <1>25 DEF Cancel
<1>26. CASE LogFails
  BY <1>26 DEF LogFails
<1>27. CASE UNCHANGED vars
  BY <1>27 DEF vars
<1> QED
  BY <1>1, <1>2, <1>3, <1>4, <1>5, <1>6, <1>7, <1>8, <1>9,
     <1>10, <1>11, <1>12, <1>13, <1>14, <1>15, <1>16, <1>17, <1>18,
     <1>19, <1>20, <1>21, <1>22, <1>23, <1>24, <1>25, <1>26, <1>27
  DEF Next, ServeStep, CloseStep, LoopStep, HandlerStep, Stopped

\* The type of every variable is preserved by every action.
THEOREM TypeCorrect == Spec => []TypeOK
BY InitType, NextType, PTL DEF Spec

(***************************************************************************)
(* A connection is owned by the loop that accepted it until Spawn, then by *)
(* its handler; it has a slot from acquire to release, and its socket is   *)
(* closed before the slot is given back.                                   *)
(***************************************************************************)
HasSlot(c) ==
  \/ handler[c] \in {"spawned", "running", "closing", "releasing"}
  \/ held[PortOf[c]] = c /\ loop[PortOf[c]] = "spawning"

Ownership ==
  /\ \A ep \in Endpoints : held[ep] # NoConn =>
       /\ PortOf[held[ep]] = ep
       /\ handler[held[ep]] = "none"
       /\ sock[held[ep]] # "fresh"
  /\ \A c \in Conns : handler[c] # "none" => sock[c] # "fresh"
  /\ \A c \in Conns : handler[c] \in {"releasing", "released", "done"} => sock[c] = "closed"
  /\ \A c \in Conns : c \in active <=> HasSlot(c)
  /\ \A c \in Conns : sock[c] = "open" => HasSlot(c) \/ held[PortOf[c]] = c

\* Every action keeps the owners.
LEMMA NextOwnership ==
  ASSUME TypeOK, Ownership, [Next]_vars
  PROVE  Ownership'
<1> USE ServerAssumption DEF TypeOK, Holding, Ownership, HasSlot, netVars, loopVars, admVars, envVars
<1>1. ASSUME NEW ep \in Endpoints, Bind(ep) PROVE Ownership'
  BY <1>1 DEF Bind
<1>2. CASE BindFails
  BY <1>2 DEF BindFails
<1>3. CASE Abort
  BY <1>3 DEF Abort
<1>4. ASSUME NEW ep \in Endpoints, StartLoop(ep) PROVE Ownership'
  BY <1>4 DEF StartLoop
<1>5. CASE Select
  BY <1>5 DEF Select
<1>6. CASE ServeCloses
  BY <1>6 DEF ServeCloses
<1>7. CASE ServeClosed
  BY <1>7 DEF ServeClosed
<1>8. CASE Wait
  BY <1>8 DEF Wait
<1>9. CASE UserCloses
  BY <1>9 DEF UserCloses
<1>10. ASSUME NEW ep \in Endpoints, CloseListener(ep) PROVE Ownership'
  BY <1>10 DEF CloseListener
<1>11. CASE CloseAll
  BY <1>11 DEF CloseAll
<1>12. ASSUME NEW ep \in Endpoints, NEW c \in Conns, AcceptConn(ep, c) PROVE Ownership'
  BY <1>12 DEF AcceptConn
<1>13. ASSUME NEW ep \in Endpoints, AcceptFails(ep) PROVE Ownership'
  BY <1>13 DEF AcceptFails
<1>14. ASSUME NEW ep \in Endpoints, CheckClosing(ep) PROVE Ownership'
  BY <1>14 DEF CheckClosing
<1>15. ASSUME NEW ep \in Endpoints, Admit(ep) PROVE Ownership'
  BY <1>15 DEF Admit, Acquire
<1>16. ASSUME NEW ep \in Endpoints, Spawn(ep) PROVE Ownership'
  BY <1>16 DEF Spawn
<1>17. ASSUME NEW ep \in Endpoints, SendResult(ep) PROVE Ownership'
  BY <1>17 DEF SendResult
<1>18. ASSUME NEW ep \in Endpoints, LoopDone(ep) PROVE Ownership'
  BY <1>18 DEF LoopDone
<1>19. ASSUME NEW c \in Conns, Arm(c) PROVE Ownership'
  BY <1>19 DEF Arm
<1>20. ASSUME NEW c \in Conns, Expire(c) PROVE Ownership'
  BY <1>20 DEF Expire
<1>21. ASSUME NEW c \in Conns, Return(c) PROVE Ownership'
  BY <1>21 DEF Return
<1>22. ASSUME NEW c \in Conns, CloseConn(c) PROVE Ownership'
  BY <1>22 DEF CloseConn
<1>23. ASSUME NEW c \in Conns, ReleaseConn(c) PROVE Ownership'
  BY <1>23 DEF ReleaseConn, Release
<1>24. ASSUME NEW c \in Conns, HandlerDone(c) PROVE Ownership'
  BY <1>24 DEF HandlerDone
<1>25. CASE Cancel
  BY <1>25 DEF Cancel
<1>26. CASE LogFails
  BY <1>26 DEF LogFails
<1>27. CASE UNCHANGED vars
  BY <1>27 DEF vars
<1> QED
  BY <1>1, <1>2, <1>3, <1>4, <1>5, <1>6, <1>7, <1>8, <1>9,
     <1>10, <1>11, <1>12, <1>13, <1>14, <1>15, <1>16, <1>17, <1>18,
     <1>19, <1>20, <1>21, <1>22, <1>23, <1>24, <1>25, <1>26, <1>27
  DEF Next, ServeStep, CloseStep, LoopStep, HandlerStep, Stopped

(***************************************************************************)
(* How far starting and closing have come.  admission.closed is set by the *)
(* last step of Close, when no listener is left; a loop starts once, in    *)
(* Serve; and what Serve waited for stays finished.                        *)
(***************************************************************************)
Stages ==
  /\ admClosed <=> once = "done"
  /\ once = "done" => listening = {} /\ \A c \in active : sock[c] = "closed"
  /\ serve = "binding" => once = "new"
  /\ serve \in {"starting", "selecting"} /\ once = "new" => listening = Endpoints
  /\ serve \in {"binding", "starting", "selecting"} /\ once = "new" =>
       /\ errCh["nil"] = 0
       /\ \A ep \in Endpoints : loop[ep] \in {"sending", "sent"} => result[ep] = "error"
  /\ serve \in {"binding", "aborting", "aborted"} =>
       \A ep \in Endpoints : loop[ep] = "unstarted"
  /\ serve \in {"selecting", "closing", "waiting", "returned"} =>
       \A ep \in Endpoints : loop[ep] # "unstarted"
  /\ serve \in {"waiting", "returned", "aborted"} => once = "done"
  /\ serve = "returned" => Running = {} /\ Handling = {}

\* The counter of the wait group is zero when nothing runs.
LEMMA WaitGroupZero ==
  ASSUME WaitGroupExact, wg = 0
  PROVE  Running = {} /\ Handling = {}
<1>1. IsFiniteSet(Running) /\ IsFiniteSet(Handling)
  BY ServerAssumption, FS_Subset DEF Running, Handling
<1>2. Cardinality(Running) \in Nat /\ Cardinality(Handling) \in Nat
  BY <1>1, FS_CardinalityType
<1>3. Cardinality(Running) = 0 /\ Cardinality(Handling) = 0
  BY <1>2 DEF WaitGroupExact
<1> QED BY <1>1, <1>3, FS_EmptySet

\* Every action keeps the stages.
LEMMA NextStages ==
  ASSUME TypeOK, Ownership, WaitGroupExact, Stages, [Next]_vars
  PROVE  Stages'
<1> USE ServerAssumption DEF TypeOK, Holding, Stages, Running, Handling, netVars, loopVars, admVars, envVars
<1>1. ASSUME NEW ep \in Endpoints, Bind(ep) PROVE Stages'
  BY <1>1 DEF Bind
<1>2. CASE BindFails
  BY <1>2 DEF BindFails
<1>3. CASE Abort
  BY <1>3 DEF Abort
<1>4. ASSUME NEW ep \in Endpoints, StartLoop(ep) PROVE Stages'
  BY <1>4 DEF StartLoop
<1>5. CASE Select
  BY <1>5 DEF Select
<1>6. CASE ServeCloses
  BY <1>6 DEF ServeCloses
<1>7. CASE ServeClosed
  BY <1>7 DEF ServeClosed
<1>8. CASE Wait
  BY <1>8, WaitGroupZero DEF Wait
<1>9. CASE UserCloses
  BY <1>9 DEF UserCloses
<1>10. ASSUME NEW ep \in Endpoints, CloseListener(ep) PROVE Stages'
  BY <1>10 DEF CloseListener
<1>11. CASE CloseAll
  BY <1>11 DEF CloseAll
<1>12. ASSUME NEW ep \in Endpoints, NEW c \in Conns, AcceptConn(ep, c) PROVE Stages'
  BY <1>12 DEF AcceptConn
<1>13. ASSUME NEW ep \in Endpoints, AcceptFails(ep) PROVE Stages'
  BY <1>13 DEF AcceptFails, Results
<1>14. ASSUME NEW ep \in Endpoints, CheckClosing(ep) PROVE Stages'
  BY <1>14 DEF CheckClosing, Closing, Results
<1>15. ASSUME NEW ep \in Endpoints, Admit(ep) PROVE Stages'
  BY <1>15 DEF Admit, Acquire, MayAcquire, Ownership, HasSlot
<1>16. ASSUME NEW ep \in Endpoints, Spawn(ep) PROVE Stages'
  BY <1>16 DEF Spawn
<1>17. ASSUME NEW ep \in Endpoints, SendResult(ep) PROVE Stages'
  BY <1>17 DEF SendResult, Results
<1>18. ASSUME NEW ep \in Endpoints, LoopDone(ep) PROVE Stages'
  BY <1>18 DEF LoopDone
<1>19. ASSUME NEW c \in Conns, Arm(c) PROVE Stages'
  BY <1>19 DEF Arm
<1>20. ASSUME NEW c \in Conns, Expire(c) PROVE Stages'
  BY <1>20 DEF Expire
<1>21. ASSUME NEW c \in Conns, Return(c) PROVE Stages'
  BY <1>21 DEF Return
<1>22. ASSUME NEW c \in Conns, CloseConn(c) PROVE Stages'
  BY <1>22 DEF CloseConn
<1>23. ASSUME NEW c \in Conns, ReleaseConn(c) PROVE Stages'
  BY <1>23 DEF ReleaseConn, Release
<1>24. ASSUME NEW c \in Conns, HandlerDone(c) PROVE Stages'
  BY <1>24 DEF HandlerDone
<1>25. CASE Cancel
  BY <1>25 DEF Cancel
<1>26. CASE LogFails
  BY <1>26 DEF LogFails
<1>27. CASE UNCHANGED vars
  BY <1>27 DEF vars
<1> QED
  BY <1>1, <1>2, <1>3, <1>4, <1>5, <1>6, <1>7, <1>8, <1>9,
     <1>10, <1>11, <1>12, <1>13, <1>14, <1>15, <1>16, <1>17, <1>18,
     <1>19, <1>20, <1>21, <1>22, <1>23, <1>24, <1>25, <1>26, <1>27
  DEF Next, ServeStep, CloseStep, LoopStep, HandlerStep, Stopped

\* One goroutine more, or one fewer, changes the sum of the two cardinalities
\* by one.
LEMMA CountOneMore ==
  ASSUME NEW S, IsFiniteSet(S), NEW x, x \notin S
  PROVE  Cardinality(S \cup {x}) = Cardinality(S) + 1
BY FS_AddElement

LEMMA CountOneLess ==
  ASSUME NEW S, IsFiniteSet(S), NEW x \in S
  PROVE  Cardinality(S \ {x}) = Cardinality(S) - 1
BY FS_RemoveElement

LEMMA FiniteGoroutines ==
  /\ IsFiniteSet(Running) /\ Cardinality(Running) \in Nat
  /\ IsFiniteSet(Handling) /\ Cardinality(Handling) \in Nat
<1>1. IsFiniteSet(Running) /\ IsFiniteSet(Handling)
  BY ServerAssumption, FS_Subset DEF Running, Handling
<1> QED BY <1>1, FS_CardinalityType

\* Every action keeps the wait group's count.
LEMMA NextWaitGroup ==
  ASSUME TypeOK, Ownership, WaitGroupExact, [Next]_vars
  PROVE  WaitGroupExact'
<1> USE ServerAssumption
<1>1. ASSUME NEW ep \in Endpoints, Bind(ep) PROVE WaitGroupExact'
  <2>1. Running' = Running /\ Handling' = Handling /\ wg' = wg
    BY <1>1 DEF Bind, TypeOK, Holding, Ownership, Running, Handling, netVars, loopVars, admVars, envVars
  <2> QED BY <2>1 DEF WaitGroupExact
<1>2. CASE BindFails
  <2>1. Running' = Running /\ Handling' = Handling /\ wg' = wg
    BY <1>2 DEF BindFails, TypeOK, Holding, Ownership, Running, Handling, netVars, loopVars, admVars, envVars
  <2> QED BY <2>1 DEF WaitGroupExact
<1>3. CASE Abort
  <2>1. Running' = Running /\ Handling' = Handling /\ wg' = wg
    BY <1>3 DEF Abort, TypeOK, Holding, Ownership, Running, Handling, netVars, loopVars, admVars, envVars
  <2> QED BY <2>1 DEF WaitGroupExact
<1>4. ASSUME NEW ep \in Endpoints, StartLoop(ep) PROVE WaitGroupExact'
  <2>1. Running' = Running \cup {ep} /\ Handling' = Handling /\ wg' = wg + 1
    BY <1>4 DEF StartLoop, TypeOK, Holding, Ownership, Running, Handling, netVars, loopVars, admVars, envVars
  <2>2. ep \notin Running
    BY <1>4 DEF StartLoop, TypeOK, Holding, Ownership, Running, Handling
  <2> QED BY <2>1, <2>2, FiniteGoroutines, CountOneMore DEF WaitGroupExact
<1>5. CASE Select
  <2>1. Running' = Running /\ Handling' = Handling /\ wg' = wg
    BY <1>5 DEF Select, TypeOK, Holding, Ownership, Running, Handling, netVars, loopVars, admVars, envVars
  <2> QED BY <2>1 DEF WaitGroupExact
<1>6. CASE ServeCloses
  <2>1. Running' = Running /\ Handling' = Handling /\ wg' = wg
    BY <1>6 DEF ServeCloses, TypeOK, Holding, Ownership, Running, Handling, netVars, loopVars, admVars, envVars
  <2> QED BY <2>1 DEF WaitGroupExact
<1>7. CASE ServeClosed
  <2>1. Running' = Running /\ Handling' = Handling /\ wg' = wg
    BY <1>7 DEF ServeClosed, TypeOK, Holding, Ownership, Running, Handling, netVars, loopVars, admVars, envVars
  <2> QED BY <2>1 DEF WaitGroupExact
<1>8. CASE Wait
  <2>1. Running' = Running /\ Handling' = Handling /\ wg' = wg
    BY <1>8 DEF Wait, TypeOK, Holding, Ownership, Running, Handling, netVars, loopVars, admVars, envVars
  <2> QED BY <2>1 DEF WaitGroupExact
<1>9. CASE UserCloses
  <2>1. Running' = Running /\ Handling' = Handling /\ wg' = wg
    BY <1>9 DEF UserCloses, TypeOK, Holding, Ownership, Running, Handling, netVars, loopVars, admVars, envVars
  <2> QED BY <2>1 DEF WaitGroupExact
<1>10. ASSUME NEW ep \in Endpoints, CloseListener(ep) PROVE WaitGroupExact'
  <2>1. Running' = Running /\ Handling' = Handling /\ wg' = wg
    BY <1>10 DEF CloseListener, TypeOK, Holding, Ownership, Running, Handling, netVars, loopVars, admVars, envVars
  <2> QED BY <2>1 DEF WaitGroupExact
<1>11. CASE CloseAll
  <2>1. Running' = Running /\ Handling' = Handling /\ wg' = wg
    BY <1>11 DEF CloseAll, TypeOK, Holding, Ownership, Running, Handling, netVars, loopVars, admVars, envVars
  <2> QED BY <2>1 DEF WaitGroupExact
<1>12. ASSUME NEW ep \in Endpoints, NEW c \in Conns, AcceptConn(ep, c) PROVE WaitGroupExact'
  <2>1. Running' = Running /\ Handling' = Handling /\ wg' = wg
    BY <1>12 DEF AcceptConn, TypeOK, Holding, Ownership, Running, Handling, netVars, loopVars, admVars, envVars
  <2> QED BY <2>1 DEF WaitGroupExact
<1>13. ASSUME NEW ep \in Endpoints, AcceptFails(ep) PROVE WaitGroupExact'
  <2>1. Running' = Running /\ Handling' = Handling /\ wg' = wg
    BY <1>13 DEF AcceptFails, TypeOK, Holding, Ownership, Running, Handling, netVars, loopVars, admVars, envVars
  <2> QED BY <2>1 DEF WaitGroupExact
<1>14. ASSUME NEW ep \in Endpoints, CheckClosing(ep) PROVE WaitGroupExact'
  <2>1. Running' = Running /\ Handling' = Handling /\ wg' = wg
    BY <1>14 DEF CheckClosing, TypeOK, Holding, Ownership, Running, Handling, netVars, loopVars, admVars, envVars
  <2> QED BY <2>1 DEF WaitGroupExact
<1>15. ASSUME NEW ep \in Endpoints, Admit(ep) PROVE WaitGroupExact'
  <2>1. Running' = Running /\ Handling' = Handling /\ wg' = wg
    BY <1>15 DEF Admit, TypeOK, Holding, Ownership, Running, Handling, netVars, loopVars, admVars, envVars
  <2> QED BY <2>1 DEF WaitGroupExact
<1>16. ASSUME NEW ep \in Endpoints, Spawn(ep) PROVE WaitGroupExact'
  <2>1. Running' = Running /\ Handling' = Handling \cup {held[ep]} /\ wg' = wg + 1
    BY <1>16 DEF Spawn, TypeOK, Holding, Ownership, Running, Handling, netVars, loopVars, admVars, envVars
  <2>2. held[ep] \notin Handling
    BY <1>16 DEF Spawn, TypeOK, Holding, Ownership, Running, Handling
  <2> QED BY <2>1, <2>2, FiniteGoroutines, CountOneMore DEF WaitGroupExact
<1>17. ASSUME NEW ep \in Endpoints, SendResult(ep) PROVE WaitGroupExact'
  <2>1. Running' = Running /\ Handling' = Handling /\ wg' = wg
    BY <1>17 DEF SendResult, TypeOK, Holding, Ownership, Running, Handling, netVars, loopVars, admVars, envVars
  <2> QED BY <2>1 DEF WaitGroupExact
<1>18. ASSUME NEW ep \in Endpoints, LoopDone(ep) PROVE WaitGroupExact'
  <2>1. Running' = Running \ {ep} /\ Handling' = Handling /\ wg' = wg - 1
    BY <1>18 DEF LoopDone, TypeOK, Holding, Ownership, Running, Handling, netVars, loopVars, admVars, envVars
  <2>2. ep \in Running
    BY <1>18 DEF LoopDone, TypeOK, Holding, Ownership, Running, Handling
  <2> QED BY <2>1, <2>2, FiniteGoroutines, CountOneLess DEF WaitGroupExact
<1>19. ASSUME NEW c \in Conns, Arm(c) PROVE WaitGroupExact'
  <2>1. Running' = Running /\ Handling' = Handling /\ wg' = wg
    BY <1>19 DEF Arm, TypeOK, Holding, Ownership, Running, Handling, netVars, loopVars, admVars, envVars
  <2> QED BY <2>1 DEF WaitGroupExact
<1>20. ASSUME NEW c \in Conns, Expire(c) PROVE WaitGroupExact'
  <2>1. Running' = Running /\ Handling' = Handling /\ wg' = wg
    BY <1>20 DEF Expire, TypeOK, Holding, Ownership, Running, Handling, netVars, loopVars, admVars, envVars
  <2> QED BY <2>1 DEF WaitGroupExact
<1>21. ASSUME NEW c \in Conns, Return(c) PROVE WaitGroupExact'
  <2>1. Running' = Running /\ Handling' = Handling /\ wg' = wg
    BY <1>21 DEF Return, TypeOK, Holding, Ownership, Running, Handling, netVars, loopVars, admVars, envVars
  <2> QED BY <2>1 DEF WaitGroupExact
<1>22. ASSUME NEW c \in Conns, CloseConn(c) PROVE WaitGroupExact'
  <2>1. Running' = Running /\ Handling' = Handling /\ wg' = wg
    BY <1>22 DEF CloseConn, TypeOK, Holding, Ownership, Running, Handling, netVars, loopVars, admVars, envVars
  <2> QED BY <2>1 DEF WaitGroupExact
<1>23. ASSUME NEW c \in Conns, ReleaseConn(c) PROVE WaitGroupExact'
  <2>1. Running' = Running /\ Handling' = Handling /\ wg' = wg
    BY <1>23 DEF ReleaseConn, TypeOK, Holding, Ownership, Running, Handling, netVars, loopVars, admVars, envVars
  <2> QED BY <2>1 DEF WaitGroupExact
<1>24. ASSUME NEW c \in Conns, HandlerDone(c) PROVE WaitGroupExact'
  <2>1. Running' = Running /\ Handling' = Handling \ {c} /\ wg' = wg - 1
    BY <1>24 DEF HandlerDone, TypeOK, Holding, Ownership, Running, Handling, netVars, loopVars, admVars, envVars
  <2>2. c \in Handling
    BY <1>24 DEF HandlerDone, TypeOK, Holding, Ownership, Running, Handling
  <2> QED BY <2>1, <2>2, FiniteGoroutines, CountOneLess DEF WaitGroupExact
<1>25. CASE Cancel
  <2>1. Running' = Running /\ Handling' = Handling /\ wg' = wg
    BY <1>25 DEF Cancel, TypeOK, Holding, Ownership, Running, Handling, netVars, loopVars, admVars, envVars
  <2> QED BY <2>1 DEF WaitGroupExact
<1>26. CASE LogFails
  <2>1. Running' = Running /\ Handling' = Handling /\ wg' = wg
    BY <1>26 DEF LogFails, TypeOK, Holding, Ownership, Running, Handling, netVars, loopVars, admVars, envVars
  <2> QED BY <2>1 DEF WaitGroupExact
<1>27. CASE UNCHANGED vars
  <2>1. Running' = Running /\ Handling' = Handling /\ wg' = wg
    BY <1>27 DEF vars, TypeOK, Holding, Ownership, Running, Handling, netVars, loopVars, admVars, envVars
  <2> QED BY <2>1 DEF WaitGroupExact
<1> QED
  BY <1>1, <1>2, <1>3, <1>4, <1>5, <1>6, <1>7, <1>8, <1>9,
     <1>10, <1>11, <1>12, <1>13, <1>14, <1>15, <1>16, <1>17, <1>18,
     <1>19, <1>20, <1>21, <1>22, <1>23, <1>24, <1>25, <1>26, <1>27
  DEF Next, ServeStep, CloseStep, LoopStep, HandlerStep, Stopped

\* The table after an acquire that the guard admits.
LEMMA AcquireExact ==
  ASSUME TypeOK, AdmissionExact, NEW c \in Conns, c \notin active, MayAcquire(c), Acquire(c)
  PROVE  AdmissionExact'
<1> USE ServerAssumption
<1>1. IsFiniteSet(active) /\ \A ip : IsFiniteSet(From(ip))
  BY FS_Subset DEF TypeOK, From
<1>2. active' = active \cup {c} /\ Cardinality(active') <= MaxConnections
  <2>1. Cardinality(active \cup {c}) = Cardinality(active) + 1 /\ Cardinality(active) \in Nat
    BY <1>1, CountOneMore, FS_CardinalityType
  <2> QED BY <2>1 DEF Acquire, MayAcquire
<1>3. DOMAIN ips' = {IpOf[d] : d \in active'}
  BY <1>2 DEF Acquire, AdmissionExact
<1>4. ASSUME NEW ip \in DOMAIN ips'
      PROVE  ips'[ip] = Cardinality(From(ip)') /\ ips'[ip] <= PerIP
  <2>1. CASE ip = IpOf[c]
    <3>1. From(ip)' = From(ip) \cup {c} /\ c \notin From(ip)
      BY <1>2, <2>1 DEF From
    <3>2. Cardinality(From(ip)') = Cardinality(From(ip)) + 1
      BY <1>1, <3>1, CountOneMore
    <3>3. Count(ip) = Cardinality(From(ip))
      <4>1. CASE ip \in DOMAIN ips
        BY <4>1 DEF AdmissionExact, Count
      <4>2. CASE ip \notin DOMAIN ips
        <5>1. From(ip) = {}
          BY <4>2 DEF AdmissionExact, From
        <5> QED BY <4>2, <5>1, FS_EmptySet DEF Count
      <4> QED BY <4>1, <4>2
    <3>4. ips'[ip] = Count(ip) + 1
      BY <2>1 DEF Acquire
    <3>5. Count(ip) \in Nat /\ Count(ip) < PerIP
      BY <2>1 DEF MayAcquire, Count, TypeOK
    <3> QED BY <3>2, <3>3, <3>4, <3>5
  <2>2. CASE ip # IpOf[c]
    <3>1. From(ip)' = From(ip)
      BY <1>2, <2>2 DEF From
    <3>2. ip \in DOMAIN ips /\ ips'[ip] = ips[ip]
      BY <2>2 DEF Acquire
    <3> QED BY <3>1, <3>2 DEF AdmissionExact
  <2> QED BY <2>1, <2>2
<1> QED BY <1>2, <1>3, <1>4 DEF AdmissionExact

\* The table after a release.
LEMMA ReleaseExact ==
  ASSUME TypeOK, AdmissionExact, NEW c \in active, Release(c)
  PROVE  AdmissionExact'
<1> USE ServerAssumption
<1>1. IsFiniteSet(active) /\ \A ip : IsFiniteSet(From(ip))
  BY FS_Subset DEF TypeOK, From
<1>2. active' = active \ {c} /\ Cardinality(active') <= MaxConnections
  <2>1. Cardinality(active \ {c}) = Cardinality(active) - 1 /\ Cardinality(active) \in Nat
    BY <1>1, CountOneLess, FS_CardinalityType
  <2> QED BY <2>1 DEF Release, AdmissionExact
<1> DEFINE here == IpOf[c]
           left == Count(here) - 1
           keys == IF left = 0 THEN DOMAIN ips \ {here} ELSE DOMAIN ips
<1>3. ips' = [ip \in keys |-> IF ip = here THEN left ELSE ips[ip]]
  BY DEF Release
<1>4. here \in DOMAIN ips /\ Count(here) = Cardinality(From(here)) /\ c \in From(here)
  BY DEF AdmissionExact, Count, From
<1>5. \A ip : From(ip)' = From(ip) \ {c}
  BY <1>2 DEF From
<1>6. Cardinality(From(here)') = left /\ left \in Nat
  <2>1. Cardinality(From(here) \ {c}) = Cardinality(From(here)) - 1
    BY <1>1, <1>4, CountOneLess
  <2>2. Cardinality(From(here) \ {c}) \in Nat
    BY <1>1, FS_CardinalityType, FS_RemoveElement
  <2> QED BY <1>4, <1>5, <2>1, <2>2
<1>7. left = 0 <=> From(here)' = {}
  <2>1. IsFiniteSet(From(here) \ {c})
    BY <1>1, FS_RemoveElement
  <2> QED BY <1>5, <1>6, <2>1, FS_EmptySet
<1>8. DOMAIN ips' = {IpOf[d] : d \in active'}
  <2>1. DOMAIN ips' = keys
    BY <1>3
  <2>2. \A ip : ip \in {IpOf[d] : d \in active'} <=> From(ip)' # {}
    BY DEF From
  <2>3. \A ip : ip \in DOMAIN ips <=> From(ip) # {}
    BY DEF From, AdmissionExact
  <2>4. \A ip : ip # here => From(ip)' = From(ip)
    BY <1>5 DEF From
  <2>5. \A ip : ip \in keys <=> From(ip)' # {}
    BY <1>4, <1>7, <2>3, <2>4
  <2> HIDE DEF keys
  <2> QED BY <2>1, <2>2, <2>5
<1>9. ASSUME NEW ip \in DOMAIN ips'
      PROVE  ips'[ip] = Cardinality(From(ip)') /\ ips'[ip] <= PerIP
  <2>1. CASE ip = here
    <3>1. ips'[ip] = left
      BY <1>3, <2>1
    <3>2. left <= PerIP
      BY <1>4, <1>6 DEF AdmissionExact, Count, TypeOK
    <3> QED BY <1>6, <2>1, <3>1, <3>2
  <2>2. CASE ip # here
    <3>1. From(ip)' = From(ip)
      BY <1>5, <2>2 DEF From
    <3>2. ip \in DOMAIN ips /\ ips'[ip] = ips[ip]
      BY <1>3, <2>2
    <3> QED BY <3>1, <3>2 DEF AdmissionExact
  <2> QED BY <2>1, <2>2
<1> QED BY <1>2, <1>8, <1>9 DEF AdmissionExact

\* Every action keeps the table exact.
LEMMA NextAdmission ==
  ASSUME TypeOK, Ownership, AdmissionExact, [Next]_vars
  PROVE  AdmissionExact'
<1> USE ServerAssumption
<1>1. ASSUME NEW ep \in Endpoints, Bind(ep) PROVE AdmissionExact'
  <2>1. active' = active /\ ips' = ips
    BY <1>1 DEF Bind, netVars, loopVars, admVars, envVars
  <2> QED BY <2>1 DEF AdmissionExact, From
<1>2. CASE BindFails
  <2>1. active' = active /\ ips' = ips
    BY <1>2 DEF BindFails, netVars, loopVars, admVars, envVars
  <2> QED BY <2>1 DEF AdmissionExact, From
<1>3. CASE Abort
  <2>1. active' = active /\ ips' = ips
    BY <1>3 DEF Abort, netVars, loopVars, admVars, envVars
  <2> QED BY <2>1 DEF AdmissionExact, From
<1>4. ASSUME NEW ep \in Endpoints, StartLoop(ep) PROVE AdmissionExact'
  <2>1. active' = active /\ ips' = ips
    BY <1>4 DEF StartLoop, netVars, loopVars, admVars, envVars
  <2> QED BY <2>1 DEF AdmissionExact, From
<1>5. CASE Select
  <2>1. active' = active /\ ips' = ips
    BY <1>5 DEF Select, netVars, loopVars, admVars, envVars
  <2> QED BY <2>1 DEF AdmissionExact, From
<1>6. CASE ServeCloses
  <2>1. active' = active /\ ips' = ips
    BY <1>6 DEF ServeCloses, netVars, loopVars, admVars, envVars
  <2> QED BY <2>1 DEF AdmissionExact, From
<1>7. CASE ServeClosed
  <2>1. active' = active /\ ips' = ips
    BY <1>7 DEF ServeClosed, netVars, loopVars, admVars, envVars
  <2> QED BY <2>1 DEF AdmissionExact, From
<1>8. CASE Wait
  <2>1. active' = active /\ ips' = ips
    BY <1>8 DEF Wait, netVars, loopVars, admVars, envVars
  <2> QED BY <2>1 DEF AdmissionExact, From
<1>9. CASE UserCloses
  <2>1. active' = active /\ ips' = ips
    BY <1>9 DEF UserCloses, netVars, loopVars, admVars, envVars
  <2> QED BY <2>1 DEF AdmissionExact, From
<1>10. ASSUME NEW ep \in Endpoints, CloseListener(ep) PROVE AdmissionExact'
  <2>1. active' = active /\ ips' = ips
    BY <1>10 DEF CloseListener, netVars, loopVars, admVars, envVars
  <2> QED BY <2>1 DEF AdmissionExact, From
<1>11. CASE CloseAll
  <2>1. active' = active /\ ips' = ips
    BY <1>11 DEF CloseAll, netVars, loopVars, admVars, envVars
  <2> QED BY <2>1 DEF AdmissionExact, From
<1>12. ASSUME NEW ep \in Endpoints, NEW c \in Conns, AcceptConn(ep, c) PROVE AdmissionExact'
  <2>1. active' = active /\ ips' = ips
    BY <1>12 DEF AcceptConn, netVars, loopVars, admVars, envVars
  <2> QED BY <2>1 DEF AdmissionExact, From
<1>13. ASSUME NEW ep \in Endpoints, AcceptFails(ep) PROVE AdmissionExact'
  <2>1. active' = active /\ ips' = ips
    BY <1>13 DEF AcceptFails, netVars, loopVars, admVars, envVars
  <2> QED BY <2>1 DEF AdmissionExact, From
<1>14. ASSUME NEW ep \in Endpoints, CheckClosing(ep) PROVE AdmissionExact'
  <2>1. active' = active /\ ips' = ips
    BY <1>14 DEF CheckClosing, netVars, loopVars, admVars, envVars
  <2> QED BY <2>1 DEF AdmissionExact, From
<1>15. ASSUME NEW ep \in Endpoints, Admit(ep) PROVE AdmissionExact'
  <2>1. CASE MayAcquire(held[ep])
    <3>1. held[ep] \in Conns /\ held[ep] \notin active /\ Acquire(held[ep])
      BY <1>15, <2>1 DEF Admit, TypeOK, Holding, Ownership, HasSlot
    <3> QED BY <2>1, <3>1, AcquireExact
  <2>2. CASE ~ MayAcquire(held[ep])
    <3>1. active' = active /\ ips' = ips
      BY <1>15, <2>2 DEF Admit, admVars
    <3> QED BY <3>1 DEF AdmissionExact, From
  <2> QED BY <2>1, <2>2
<1>16. ASSUME NEW ep \in Endpoints, Spawn(ep) PROVE AdmissionExact'
  <2>1. active' = active /\ ips' = ips
    BY <1>16 DEF Spawn, netVars, loopVars, admVars, envVars
  <2> QED BY <2>1 DEF AdmissionExact, From
<1>17. ASSUME NEW ep \in Endpoints, SendResult(ep) PROVE AdmissionExact'
  <2>1. active' = active /\ ips' = ips
    BY <1>17 DEF SendResult, netVars, loopVars, admVars, envVars
  <2> QED BY <2>1 DEF AdmissionExact, From
<1>18. ASSUME NEW ep \in Endpoints, LoopDone(ep) PROVE AdmissionExact'
  <2>1. active' = active /\ ips' = ips
    BY <1>18 DEF LoopDone, netVars, loopVars, admVars, envVars
  <2> QED BY <2>1 DEF AdmissionExact, From
<1>19. ASSUME NEW c \in Conns, Arm(c) PROVE AdmissionExact'
  <2>1. active' = active /\ ips' = ips
    BY <1>19 DEF Arm, netVars, loopVars, admVars, envVars
  <2> QED BY <2>1 DEF AdmissionExact, From
<1>20. ASSUME NEW c \in Conns, Expire(c) PROVE AdmissionExact'
  <2>1. active' = active /\ ips' = ips
    BY <1>20 DEF Expire, netVars, loopVars, admVars, envVars
  <2> QED BY <2>1 DEF AdmissionExact, From
<1>21. ASSUME NEW c \in Conns, Return(c) PROVE AdmissionExact'
  <2>1. active' = active /\ ips' = ips
    BY <1>21 DEF Return, netVars, loopVars, admVars, envVars
  <2> QED BY <2>1 DEF AdmissionExact, From
<1>22. ASSUME NEW c \in Conns, CloseConn(c) PROVE AdmissionExact'
  <2>1. active' = active /\ ips' = ips
    BY <1>22 DEF CloseConn, netVars, loopVars, admVars, envVars
  <2> QED BY <2>1 DEF AdmissionExact, From
<1>23. ASSUME NEW c \in Conns, ReleaseConn(c) PROVE AdmissionExact'
  <2>1. c \in active /\ Release(c)
    BY <1>23 DEF ReleaseConn, Ownership, HasSlot
  <2> QED BY <2>1, ReleaseExact
<1>24. ASSUME NEW c \in Conns, HandlerDone(c) PROVE AdmissionExact'
  <2>1. active' = active /\ ips' = ips
    BY <1>24 DEF HandlerDone, netVars, loopVars, admVars, envVars
  <2> QED BY <2>1 DEF AdmissionExact, From
<1>25. CASE Cancel
  <2>1. active' = active /\ ips' = ips
    BY <1>25 DEF Cancel, netVars, loopVars, admVars, envVars
  <2> QED BY <2>1 DEF AdmissionExact, From
<1>26. CASE LogFails
  <2>1. active' = active /\ ips' = ips
    BY <1>26 DEF LogFails, netVars, loopVars, admVars, envVars
  <2> QED BY <2>1 DEF AdmissionExact, From
<1>27. CASE UNCHANGED vars
  <2>1. active' = active /\ ips' = ips
    BY <1>27 DEF vars, netVars, loopVars, admVars, envVars
  <2> QED BY <2>1 DEF AdmissionExact, From
<1> QED
  BY <1>1, <1>2, <1>3, <1>4, <1>5, <1>6, <1>7, <1>8, <1>9,
     <1>10, <1>11, <1>12, <1>13, <1>14, <1>15, <1>16, <1>17, <1>18,
     <1>19, <1>20, <1>21, <1>22, <1>23, <1>24, <1>25, <1>26, <1>27
  DEF Next, ServeStep, CloseStep, LoopStep, HandlerStep, Stopped

(***************************************************************************)
(* The inductive invariant and what follows from it.                       *)
(***************************************************************************)
Inv == TypeOK /\ Ownership /\ WaitGroupExact /\ Stages /\ AdmissionExact

LEMMA InitInv == Init => Inv
<1> SUFFICES ASSUME Init PROVE Inv
  OBVIOUS
<1>1. TypeOK
  BY InitType
<1>2. Ownership
  BY ServerAssumption DEF Init, Ownership, HasSlot
<1>3. Running = {} /\ Handling = {}
  BY DEF Init, Running, Handling
<1>4. WaitGroupExact
  BY <1>3, FS_EmptySet DEF Init, WaitGroupExact
<1>5. Stages
  BY <1>3 DEF Init, Stages, Results
<1>6. AdmissionExact
  <2>1. active = {} /\ DOMAIN ips = {}
    BY DEF Init
  <2>2. Cardinality(active) = 0
    BY <2>1, FS_EmptySet
  <2> QED BY <2>1, <2>2, ServerAssumption DEF AdmissionExact
<1> QED BY <1>1, <1>2, <1>4, <1>5, <1>6 DEF Inv

LEMMA InvInductive == Spec => []Inv
<1>1. Inv /\ [Next]_vars => Inv'
  BY NextType, NextOwnership, NextWaitGroup, NextStages, NextAdmission DEF Inv
<1> QED BY InitInv, <1>1, PTL DEF Spec

\* The admission table counts exactly the connections it holds and never
\* exceeds either limit.
THEOREM AdmissionCorrect == Spec => []AdmissionExact
<1>1. Inv => AdmissionExact
  BY DEF Inv
<1> QED BY <1>1, InvInductive, PTL

\* No open socket is without an owner.
THEOREM SocketsCorrect == Spec => []SocketsAccounted
<1>1. Inv => SocketsAccounted
  BY ServerAssumption DEF Inv, Ownership, SocketsAccounted, Opened
<1> QED BY <1>1, InvInductive, PTL

\* Close leaves no admitted connection with an open socket, then or later.
THEOREM CloseCorrect == Spec => []ClosedAdmitsNone
<1>1. Inv => ClosedAdmitsNone
  BY DEF Inv, Stages, ClosedAdmitsNone
<1> QED BY <1>1, InvInductive, PTL

\* The wait group counts the goroutines that run.
THEOREM WaitGroupCorrect == Spec => []WaitGroupExact
<1>1. Inv => WaitGroupExact
  BY DEF Inv
<1> QED BY <1>1, InvInductive, PTL

\* Serve returns nil only when it was told to stop.
THEOREM NilCorrect == Spec => NilWhenAsked
<1>1. Inv /\ [Next]_vars => [ret' = "nil" /\ ret # "nil" => cancelled \/ Closing]_vars
  <2> SUFFICES ASSUME Inv, [Next]_vars, ret' # ret, ret' = "nil"
               PROVE  cancelled \/ Closing
    BY DEF vars
  <2>1. CASE Select
    <3>1. CASE cancelled \/ Closing
      BY <3>1
    <3>2. ASSUME NEW r \in Results, errCh[r] > 0, ret' = r, serve = "selecting"
          PROVE  Closing
      BY <3>2 DEF Inv, Stages, Closing, TypeOK, Results
    <3>3. ret' # "error"
      OBVIOUS
    <3>4. serve = "selecting"
      BY <2>1 DEF Select
    <3>5. \/ cancelled \/ Closing
          \/ \E r \in Results : errCh[r] > 0 /\ ret' = r
          \/ ret' = "error"
      BY <2>1, Zenon DEF Select
    <3> QED BY <3>1, <3>2, <3>3, <3>4, <3>5, Zenon
  <2>2. CASE ~ Select
    BY <2>2 DEF Next, ServeStep, CloseStep, LoopStep, HandlerStep, Stopped, vars, Bind,
       BindFails, Abort, StartLoop, ServeCloses, ServeClosed, Wait, UserCloses, CloseListener,
       CloseAll, AcceptConn, AcceptFails, CheckClosing, Admit, Spawn, SendResult, LoopDone, Arm,
       Expire, Return, CloseConn, ReleaseConn, HandlerDone, Cancel, LogFails
  <2> QED BY <2>1, <2>2
<1> QED BY <1>1, InvInductive, PTL DEF NilWhenAsked, Spec

\* A Serve that has returned leaves no listener, socket, slot or goroutine, and
\* a New that has failed leaves no listener.
THEOREM DrainCorrect == Spec => []ReturnedDrained
<1>1. Inv => ReturnedDrained
  <2> SUFFICES ASSUME Inv PROVE ReturnedDrained
    OBVIOUS
  <2> USE ServerAssumption DEF Inv, TypeOK
  <2>1. ASSUME serve = "returned"
        PROVE  /\ \A ep \in Endpoints : loop[ep] = "returned" /\ held[ep] = NoConn
               /\ \A c \in Conns : handler[c] \in {"none", "done"}
    BY <2>1 DEF Stages, Running, Handling, Holding
  <2>2. ASSUME serve = "returned" PROVE active = {} /\ Opened = {}
    BY <2>1, <2>2 DEF Ownership, HasSlot, Opened
  <2>3. ASSUME serve = "returned" PROVE DOMAIN ips = {}
    BY <2>2, <2>3 DEF AdmissionExact
  <2>4. serve \in {"returned", "aborted"} => listening = {}
    BY DEF Stages
  <2> QED BY <2>1, <2>2, <2>3, <2>4 DEF ReturnedDrained
<1> QED BY <1>1, InvInductive, PTL
=============================================================================
