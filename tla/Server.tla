------------------------------- MODULE Server -------------------------------
(***************************************************************************)
(* The lifecycle of the honeypot server (internal/honeypot/server.go) and  *)
(* of its admission table (internal/honeypot/limits.go).                   *)
(*                                                                         *)
(* The actors are New and then Serve on one goroutine, one accept loop per *)
(* listener, one handler goroutine and one lifetime timer per admitted     *)
(* connection, and any caller of Close.  What a handler says on its        *)
(* connection is left to the modules of the protocols: here it runs and    *)
(* returns.                                                                *)
(***************************************************************************)
EXTENDS Integers, FiniteSets

CONSTANTS
  Endpoints,       \* the configured listeners
  SSH,             \* the endpoints whose protocol is "ssh"
  Conns,           \* the connections that peers may open
  IpOf,            \* the peer address of each connection
  PortOf,          \* the endpoint that each connection reaches
  MaxConnections,  \* Config.MaxConnections
  PerIP,           \* Config.PerIP
  NoConn           \* the loop holds no accepted connection

\* Config.Validate: at least one listener, 1 <= PerIP <= MaxConnections.
ASSUME ServerAssumption ==
  /\ IsFiniteSet(Endpoints) /\ Endpoints # {} /\ SSH \subseteq Endpoints
  /\ IsFiniteSet(Conns) /\ NoConn \notin Conns
  /\ DOMAIN IpOf = Conns /\ PortOf \in [Conns -> Endpoints]
  /\ MaxConnections \in Nat \ {0}
  /\ PerIP \in 1..MaxConnections

VARIABLES
  serve,      \* where New, and then Serve, stands
  once,       \* how far the function of closeOnce has come
  listening,  \* the listeners that are bound and not closed
  loop,       \* the accept loop of each endpoint
  held,       \* the connection that Accept returned to the loop
  result,     \* the result of a loop that has ended: an error or nil
  errCh,      \* how many results of each kind the channel of Serve holds
  ret,        \* the error that Serve will return, once it is known
  sock,       \* each connection's socket on the server's side
  handler,    \* the handler goroutine of each connection
  active,     \* admission.active
  ips,        \* admission.ips
  admClosed,  \* admission.closed
  wg,         \* the counter of the wait group
  cancelled,  \* ctx is done
  logFailed   \* the logger's error channel holds an error

netVars == <<listening, held, sock>>
loopVars == <<loop, result, errCh>>
admVars == <<active, ips, admClosed>>
envVars == <<cancelled, logFailed>>
vars == <<serve, ret, once, listening, loop, held, result, errCh, sock,
          handler, active, ips, admClosed, wg, cancelled, logFailed>>

\* The channel s.closing is closed: the first thing closeOnce's function does.
Closing == once # "new"

Results == {"nil", "error"}

Opened == {c \in Conns : sock[c] = "open"}
-----------------------------------------------------------------------------
(* The admission table.  The map holds no key whose count is zero.         *)

Count(ip) == IF ip \in DOMAIN ips THEN ips[ip] ELSE 0

\* Mutants: closed, or the limit of the table, is not tested.
MayAcquireClosed(c) ==
  Cardinality(active) < MaxConnections /\ Count(IpOf[c]) < PerIP

MayAcquireAnyTotal(c) == ~ admClosed /\ Count(IpOf[c]) < PerIP

MayAcquire(c) ==
  /\ ~ admClosed
  /\ Cardinality(active) < MaxConnections
  /\ Count(IpOf[c]) < PerIP

\* Mutant: the count of the address is not incremented.
AcquireUncounted(c) ==
  /\ active' = active \cup {c}
  /\ ips' = [ip \in DOMAIN ips \cup {IpOf[c]} |-> Count(ip)]
  /\ UNCHANGED admClosed

Acquire(c) ==
  /\ active' = active \cup {c}
  /\ ips' = [ip \in DOMAIN ips \cup {IpOf[c]} |->
               IF ip = IpOf[c] THEN Count(ip) + 1 ELSE ips[ip]]
  /\ UNCHANGED admClosed

\* Mutant: a key whose count is zero stays.
ReleaseKeepsKey(c) ==
  /\ UNCHANGED admClosed
  /\ active' = active \ {c}
  /\ ips' = IF c \in active THEN [ips EXCEPT ![IpOf[c]] = @ - 1] ELSE ips

Release(c) ==
  /\ UNCHANGED admClosed
  /\ IF c \in active
     THEN /\ active' = active \ {c}
          /\ LET left == Count(IpOf[c]) - 1
                 keys == IF left = 0 THEN DOMAIN ips \ {IpOf[c]} ELSE DOMAIN ips
             IN  ips' = [ip \in keys |-> IF ip = IpOf[c] THEN left ELSE ips[ip]]
     ELSE UNCHANGED <<active, ips>>
-----------------------------------------------------------------------------
Init ==
  /\ serve = "binding"
  /\ once = "new"
  /\ listening = {}
  /\ loop = [ep \in Endpoints |-> "unstarted"]
  /\ held = [ep \in Endpoints |-> NoConn]
  /\ result = [ep \in Endpoints |-> "nil"]
  /\ errCh = [r \in Results |-> 0]
  /\ ret = "none"
  /\ sock = [c \in Conns |-> "fresh"]
  /\ handler = [c \in Conns |-> "none"]
  /\ active = {}
  /\ ips = [ip \in {} |-> 0]
  /\ admClosed = FALSE
  /\ wg = 0
  /\ cancelled = FALSE
  /\ logFailed = FALSE

(* New: every listener is bound before New returns; a key, a certificate   *)
(* or a bind that fails makes its deferred function close what is bound.   *)

Bind(ep) ==
  /\ serve = "binding" /\ ep \notin listening
  /\ listening' = listening \cup {ep}
  /\ serve' = IF listening' = Endpoints THEN "starting" ELSE "binding"
  /\ UNCHANGED <<ret, once, held, sock, loopVars, handler, admVars, wg, envVars>>

BindFails ==
  /\ serve = "binding"
  /\ serve' = "aborting"
  /\ once' = "listeners"
  /\ UNCHANGED <<ret, netVars, loopVars, handler, admVars, wg, envVars>>

Abort ==
  /\ serve = "aborting" /\ once = "done"
  /\ serve' = "aborted"
  /\ UNCHANGED <<ret, once, netVars, loopVars, handler, admVars, wg, envVars>>

(* Serve *)

StartLoop(ep) ==
  /\ serve = "starting" /\ loop[ep] = "unstarted"
  /\ wg' = wg + 1
  /\ loop' = [loop EXCEPT ![ep] = "accepting"]
  /\ serve' = IF \A e \in Endpoints : loop'[e] # "unstarted" THEN "selecting" ELSE serve
  /\ UNCHANGED <<ret, once, netVars, result, errCh, handler, admVars, envVars>>

\* The select of Serve: one ready case, whichever; a received value is gone.
Select ==
  /\ serve = "selecting"
  /\ \/ (cancelled \/ Closing) /\ ret' = "nil" /\ UNCHANGED <<errCh, logFailed>>
     \/ \E r \in Results :
          /\ errCh[r] > 0 /\ errCh' = [errCh EXCEPT ![r] = @ - 1]
          /\ ret' = r /\ UNCHANGED logFailed
     \/ logFailed /\ logFailed' = FALSE /\ ret' = "error" /\ UNCHANGED errCh
  /\ serve' = "closing"
  /\ UNCHANGED <<once, netVars, loop, result, handler, admVars, wg, cancelled>>

ServeCloses ==
  /\ serve = "closing" /\ once = "new"
  /\ once' = "listeners"
  /\ UNCHANGED <<serve, ret, netVars, loopVars, handler, admVars, wg, envVars>>

\* closeOnce.Do returns to Serve when the function has run, whoever ran it.
ServeClosed ==
  /\ serve = "closing" /\ once = "done"
  /\ serve' = "waiting"
  /\ UNCHANGED <<ret, once, netVars, loopVars, handler, admVars, wg, envVars>>

Wait ==
  /\ serve = "waiting" /\ wg = 0
  /\ serve' = "returned"
  /\ UNCHANGED <<ret, once, netVars, loopVars, handler, admVars, wg, envVars>>

(* Close, from any goroutine that holds the server *)

UserCloses ==
  /\ serve \notin {"binding", "aborting", "aborted"} /\ once = "new"
  /\ once' = "listeners"
  /\ UNCHANGED <<serve, ret, netVars, loopVars, handler, admVars, wg, envVars>>

CloseListener(ep) ==
  /\ once = "listeners" /\ ep \in listening
  /\ listening' = listening \ {ep}
  /\ UNCHANGED <<serve, ret, once, held, sock, loopVars, handler, admVars, wg, envVars>>

\* admission.closeAll, under the table's mutex.
CloseAll ==
  /\ once = "listeners" /\ listening = {}
  /\ admClosed' = TRUE
  /\ sock' = [c \in Conns |-> IF c \in active THEN "closed" ELSE sock[c]]
  /\ once' = "done"
  /\ UNCHANGED <<serve, ret, listening, held, loopVars, handler, active, ips, wg, envVars>>
-----------------------------------------------------------------------------
(* accept *)

AcceptConn(ep, c) ==
  /\ loop[ep] = "accepting" /\ ep \in listening
  /\ sock[c] = "fresh" /\ PortOf[c] = ep
  /\ sock' = [sock EXCEPT ![c] = "open"]
  /\ held' = [held EXCEPT ![ep] = c]
  /\ loop' = [loop EXCEPT ![ep] = "accepted"]
  /\ UNCHANGED <<serve, ret, once, listening, result, errCh, handler, admVars, wg, envVars>>

\* Mutant: every error of Accept ends the loop without an error.
AcceptFailsSilently(ep) ==
  /\ loop[ep] = "accepting"
  /\ result' = [result EXCEPT ![ep] = "nil"]
  /\ loop' = [loop EXCEPT ![ep] = "sending"]
  /\ UNCHANGED <<serve, ret, once, netVars, errCh, handler, admVars, wg, envVars>>

\* Accept fails: with net.ErrClosed, for which accept returns nil, or with an
\* error of its own, which may come at any time.
AcceptFails(ep) ==
  /\ loop[ep] = "accepting"
  /\ \E r \in Results :
       /\ r = "nil" => ep \notin listening
       /\ result' = [result EXCEPT ![ep] = r]
  /\ loop' = [loop EXCEPT ![ep] = "sending"]
  /\ UNCHANGED <<serve, ret, once, netVars, errCh, handler, admVars, wg, envVars>>

\* Mutant: the connection accepted during Close is forgotten, not closed.
CheckClosingForgets(ep) ==
  /\ loop[ep] = "accepted"
  /\ held' = IF Closing THEN [held EXCEPT ![ep] = NoConn] ELSE held
  /\ loop' = [loop EXCEPT ![ep] = IF Closing THEN "sending" ELSE "admitting"]
  /\ result' = IF Closing THEN [result EXCEPT ![ep] = "nil"] ELSE result
  /\ UNCHANGED <<serve, ret, once, listening, sock, errCh, handler, admVars, wg, envVars>>

\* The select on s.closing after Accept.
CheckClosing(ep) ==
  /\ loop[ep] = "accepted"
  /\ IF Closing
     THEN /\ sock' = [sock EXCEPT ![held[ep]] = "closed"]
          /\ held' = [held EXCEPT ![ep] = NoConn]
          /\ result' = [result EXCEPT ![ep] = "nil"]
          /\ loop' = [loop EXCEPT ![ep] = "sending"]
     ELSE /\ loop' = [loop EXCEPT ![ep] = "admitting"]
          /\ UNCHANGED <<sock, held, result>>
  /\ UNCHANGED <<serve, ret, once, listening, errCh, handler, admVars, wg, envVars>>

\* admission.acquire, and the close of a connection it refuses.
Admit(ep) ==
  /\ loop[ep] = "admitting"
  /\ IF MayAcquire(held[ep])
     THEN /\ Acquire(held[ep])
          /\ loop' = [loop EXCEPT ![ep] = "spawning"]
          /\ UNCHANGED <<sock, held>>
     ELSE /\ sock' = [sock EXCEPT ![held[ep]] = "closed"]
          /\ held' = [held EXCEPT ![ep] = NoConn]
          /\ loop' = [loop EXCEPT ![ep] = "accepting"]
          /\ UNCHANGED admVars
  /\ UNCHANGED <<serve, ret, once, listening, result, errCh, handler, wg, envVars>>

\* Mutant: the wait group is not told of the handler.
SpawnUnadded(ep) ==
  /\ loop[ep] = "spawning"
  /\ handler' = [handler EXCEPT ![held[ep]] = "spawned"]
  /\ held' = [held EXCEPT ![ep] = NoConn]
  /\ loop' = [loop EXCEPT ![ep] = "accepting"]
  /\ UNCHANGED <<serve, ret, once, listening, sock, result, errCh, admVars, wg, envVars>>

Spawn(ep) ==
  /\ loop[ep] = "spawning"
  /\ wg' = wg + 1
  /\ handler' = [handler EXCEPT ![held[ep]] = "spawned"]
  /\ held' = [held EXCEPT ![ep] = NoConn]
  /\ loop' = [loop EXCEPT ![ep] = "accepting"]
  /\ UNCHANGED <<serve, ret, once, listening, sock, result, errCh, admVars, envVars>>

\* Mutant: the channel has one place.
ErrChCapOne == 1

\* The channel that Serve makes has a place for the result of every loop.
ErrChCap == Cardinality(Endpoints)

SendResult(ep) ==
  /\ loop[ep] = "sending"
  /\ errCh["nil"] + errCh["error"] < ErrChCap
  /\ errCh' = [errCh EXCEPT ![result[ep]] = @ + 1]
  /\ loop' = [loop EXCEPT ![ep] = "sent"]
  /\ UNCHANGED <<serve, ret, once, netVars, result, handler, admVars, wg, envVars>>

LoopDone(ep) ==
  /\ loop[ep] = "sent"
  /\ wg' = wg - 1
  /\ loop' = [loop EXCEPT ![ep] = "returned"]
  /\ UNCHANGED <<serve, ret, once, netVars, result, errCh, handler, admVars, envVars>>
-----------------------------------------------------------------------------
(* handle, and the deferred calls of its goroutine in their order          *)

\* handle arms the lifetime timer first.
Arm(c) ==
  /\ handler[c] = "spawned"
  /\ handler' = [handler EXCEPT ![c] = "running"]
  /\ UNCHANGED <<serve, ret, once, netVars, loopVars, admVars, wg, envVars>>

\* Mutant: only SSH connections have a lifetime timer.
ExpireSSH(c) ==
  /\ handler[c] = "running" /\ sock[c] = "open" /\ PortOf[c] \in SSH
  /\ sock' = [sock EXCEPT ![c] = "closed"]
  /\ UNCHANGED <<serve, ret, once, listening, held, loopVars, handler, admVars, wg, envVars>>

\* The timer closes the socket under the handler.
Expire(c) ==
  /\ handler[c] = "running" /\ sock[c] = "open"
  /\ sock' = [sock EXCEPT ![c] = "closed"]
  /\ UNCHANGED <<serve, ret, once, listening, held, loopVars, handler, admVars, wg, envVars>>

\* handle returns: the dialogue ended, a limit was met, or a read or a write
\* failed.  Its deferred function stops the timer.
Return(c) ==
  /\ handler[c] = "running"
  /\ handler' = [handler EXCEPT ![c] = "closing"]
  /\ UNCHANGED <<serve, ret, once, netVars, loopVars, admVars, wg, envVars>>

\* Mutant: the goroutine does not close the socket before it gives the slot back.
CloseConnForgets(c) ==
  /\ handler[c] = "closing"
  /\ handler' = [handler EXCEPT ![c] = "releasing"]
  /\ UNCHANGED <<serve, ret, once, netVars, loopVars, admVars, wg, envVars>>

CloseConn(c) ==
  /\ handler[c] = "closing"
  /\ sock' = [sock EXCEPT ![c] = "closed"]
  /\ handler' = [handler EXCEPT ![c] = "releasing"]
  /\ UNCHANGED <<serve, ret, once, listening, held, loopVars, admVars, wg, envVars>>

ReleaseConn(c) ==
  /\ handler[c] = "releasing"
  /\ Release(c)
  /\ handler' = [handler EXCEPT ![c] = "released"]
  /\ UNCHANGED <<serve, ret, once, netVars, loopVars, wg, envVars>>

HandlerDone(c) ==
  /\ handler[c] = "released"
  /\ wg' = wg - 1
  /\ handler' = [handler EXCEPT ![c] = "done"]
  /\ UNCHANGED <<serve, ret, once, netVars, loopVars, admVars, envVars>>
-----------------------------------------------------------------------------
(* What the server does not control: a signal, and the log's writer.       *)

Cancel ==
  /\ ~ cancelled
  /\ cancelled' = TRUE
  /\ UNCHANGED <<serve, ret, once, netVars, loopVars, handler, admVars, wg, logFailed>>

\* The logger reports at most one error; it may come at any time.
LogFails ==
  /\ serve \in {"starting", "selecting"} /\ ~ logFailed
  /\ logFailed' = TRUE
  /\ UNCHANGED <<serve, ret, once, netVars, loopVars, handler, admVars, wg, cancelled>>

\* Serve or New has returned, and nothing of the server is left to move.
Stopped ==
  /\ serve \in {"returned", "aborted"}
  /\ UNCHANGED vars

LoopStep(ep) ==
  \/ \E c \in Conns : AcceptConn(ep, c)
  \/ AcceptFails(ep)
  \/ CheckClosing(ep)
  \/ Admit(ep)
  \/ Spawn(ep)
  \/ SendResult(ep)
  \/ LoopDone(ep)

HandlerStep(c) ==
  \/ Arm(c)
  \/ Expire(c)
  \/ Return(c)
  \/ CloseConn(c)
  \/ ReleaseConn(c)
  \/ HandlerDone(c)

ServeStep ==
  \/ \E ep \in Endpoints : StartLoop(ep)
  \/ Select
  \/ ServeCloses
  \/ ServeClosed
  \/ Wait

CloseStep ==
  \/ \E ep \in Endpoints : CloseListener(ep)
  \/ CloseAll

Next ==
  \/ \E ep \in Endpoints : Bind(ep)
  \/ BindFails
  \/ Abort
  \/ ServeStep
  \/ UserCloses
  \/ CloseStep
  \/ \E ep \in Endpoints : LoopStep(ep)
  \/ \E c \in Conns : HandlerStep(c)
  \/ Cancel
  \/ LogFails
  \/ Stopped

Spec == Init /\ [][Next]_vars

\* The steps of an accept loop that do not wait for a peer.
LoopProgress(ep) ==
  \/ AcceptFails(ep) /\ ep \notin listening
  \/ CheckClosing(ep)
  \/ Admit(ep)
  \/ Spawn(ep)
  \/ SendResult(ep)
  \/ LoopDone(ep)

\* A read or a write on a closed socket fails, and a handler of a plain or a
\* TLS connection then returns.  An SSH handler also waits for the channels of
\* its multiplexer, so nothing here obliges it to return.
Unblocked(c) == Return(c) /\ sock[c] = "closed" /\ PortOf[c] \notin SSH

Cleanup(c) == Arm(c) \/ Expire(c) \/ CloseConn(c) \/ ReleaseConn(c) \/ HandlerDone(c)

(***************************************************************************)
(* Goroutines that can run are run, the lifetime timer fires, and New      *)
(* returns.  Nothing obliges a peer to connect, a dialogue to end by       *)
(* itself, a signal to come, or the log to fail.                           *)
(***************************************************************************)
Fairness ==
  /\ WF_vars(ServeStep) /\ WF_vars(CloseStep) /\ WF_vars(Abort)
  /\ \A ep \in Endpoints : WF_vars(LoopProgress(ep))
  /\ \A c \in Conns : WF_vars(Unblocked(c)) /\ WF_vars(Cleanup(c))

FairSpec == Spec /\ Fairness
-----------------------------------------------------------------------------
(* Properties *)

\* A loop holds a connection from Accept until it is closed or handed over.
Holding == {"accepted", "admitting", "spawning"}

\* The type invariant.
TypeOK ==
  /\ serve \in {"binding", "aborting", "aborted", "starting", "selecting",
                "closing", "waiting", "returned"}
  /\ once \in {"new", "listeners", "done"}
  /\ listening \subseteq Endpoints
  /\ loop \in [Endpoints -> {"unstarted", "accepting", "accepted", "admitting",
                             "spawning", "sending", "sent", "returned"}]
  /\ held \in [Endpoints -> Conns \cup {NoConn}]
  /\ \A ep \in Endpoints : held[ep] # NoConn <=> loop[ep] \in Holding
  /\ result \in [Endpoints -> Results]
  /\ errCh \in [Results -> Nat]
  /\ ret \in Results \cup {"none"}
  /\ sock \in [Conns -> {"fresh", "open", "closed"}]
  /\ handler \in [Conns -> {"none", "spawned", "running", "closing",
                            "releasing", "released", "done"}]
  /\ active \subseteq Conns
  /\ DOMAIN ips \subseteq {IpOf[c] : c \in Conns} /\ ips \in [DOMAIN ips -> Nat \ {0}]
  /\ admClosed \in BOOLEAN
  /\ wg \in Int
  /\ cancelled \in BOOLEAN
  /\ logFailed \in BOOLEAN

\* The table never holds more than the configured number of connections, and
\* its counter per address is exactly the number of connections it holds from
\* that address: no key outlives its connections, none is counted twice, and
\* no address exceeds PerIP, however acquires, releases and closeAll interleave.
From(ip) == {c \in active : IpOf[c] = ip}

AdmissionExact ==
  /\ Cardinality(active) <= MaxConnections
  /\ DOMAIN ips = {IpOf[c] : c \in active}
  /\ \A ip \in DOMAIN ips : ips[ip] = Cardinality(From(ip)) /\ ips[ip] <= PerIP

\* Every socket the server keeps open is counted by the admission table, or is
\* the one connection a loop is about to admit, refuse or close: a slot is
\* never given away while its socket still lives.
SocketsAccounted ==
  \A c \in Opened : c \in active \/ \E ep \in Endpoints : held[ep] = c

\* Once Close has run, no admitted connection has an open socket, although a
\* loop may have passed its check of s.closing before Close began.
ClosedAdmitsNone == once = "done" => \A c \in active : sock[c] = "closed"

\* When Serve has returned, nothing is left behind: no listener, no socket, no
\* slot, no goroutine.  When New has failed, no listener is left bound.
ReturnedDrained ==
  /\ serve = "returned" =>
       /\ listening = {} /\ Opened = {} /\ active = {} /\ DOMAIN ips = {}
       /\ \A ep \in Endpoints : loop[ep] = "returned" /\ held[ep] = NoConn
       /\ \A c \in Conns : handler[c] \in {"none", "done"}
  /\ serve = "aborted" => listening = {}

\* The wait group counts the goroutines that have been added and not done, so
\* its counter is never negative, and an accept loop that adds a handler is
\* itself still counted: Add never races a Wait that has seen zero.
Running == {ep \in Endpoints : loop[ep] \notin {"unstarted", "returned"}}
Handling == {c \in Conns : handler[c] \notin {"none", "done"}}

WaitGroupExact == wg = Cardinality(Running) + Cardinality(Handling)

\* Serve returns nil only when it was told to stop: a listener that fails on its
\* own never looks like a clean stop, so that the supervisor, which restarts the
\* program on failure, does restart it.
NilWhenAsked == [][ret' = "nil" /\ ret # "nil" => cancelled \/ Closing]_vars

\* A cancelled context, a failed log, a failed listener or a call of Close
\* makes Serve return, or else an SSH handler has not returned.
StopReturns ==
  (serve = "selecting" /\ (cancelled \/ logFailed \/ Closing \/ \E r \in Results : errCh[r] > 0))
    ~> (serve = "returned" \/ \E c \in Conns : PortOf[c] \in SSH /\ handler[c] = "running")

\* An admitted connection gives its slot back, at the latest after its
\* lifetime, when it is not an SSH connection.
SlotReturned ==
  \A c \in Conns : (c \in active /\ PortOf[c] \notin SSH) ~> c \notin active

=============================================================================
