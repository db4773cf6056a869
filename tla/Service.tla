------------------------------ MODULE Service ------------------------------
(***************************************************************************)
(* The life of "mudpot serve" (cmd/mudpot/main.go, run; New in             *)
(* internal/honeypot/server.go): load, open the log, find the keys, bind,  *)
(* serve, drain, exit, under a service manager that starts it again when   *)
(* it fails (deploy/mudpot.service), beside servers that an operator may   *)
(* start by hand on the same directory and ports.                          *)
(*                                                                         *)
(* What a server does between bind and exit is in Server and EventLog.     *)
(***************************************************************************)
EXTENDS KeyStore

CONSTANT Managed   \* the process of the service manager

ASSUME ServiceAssumption == Managed \in Procs /\ IsFiniteSet(Procs) /\ MaxFaults \in Nat

VARIABLES
  phase,      \* how far each process has come in run
  asked,      \* its context is done
  failing,    \* run returns an error
  wanted,     \* the service has not been stopped by its operator
  restart,    \* the service manager owes it a start
  presented   \* history: the keys under which a server ever served

runVars == <<phase, asked, failing, wanted, restart, presented>>
vars == <<keyVars, runVars>>

Init ==
  /\ KeyInit
  /\ phase = [p \in Procs |-> "down"]
  /\ asked = [p \in Procs |-> FALSE] /\ failing = [p \in Procs |-> FALSE]
  /\ wanted = TRUE /\ restart = TRUE /\ presented = {}

Enters(p, ph) == phase' = [phase EXCEPT ![p] = ph]

\* The service manager starts what has failed; an operator starts what he likes.
Start(p) ==
  /\ phase[p] = "down" /\ (p = Managed => wanted /\ restart)
  /\ Enters(p, "loading")
  /\ restart' = IF p = Managed THEN FALSE ELSE restart
  /\ UNCHANGED <<keyVars, asked, failing, wanted, presented>>

\* The world is loaded, the settings hold and the log is opened.
Load(p) ==
  /\ phase[p] = "loading"
  /\ Enters(p, "keys") /\ EnterKeys(p)
  /\ UNCHANGED <<asked, failing, wanted, restart, presented>>

Keys(p) ==
  /\ phase[p] = "keys" /\ KeyStep(p)
  /\ UNCHANGED runVars

\* No other process listens on the ports.
Free == \A q \in Procs : phase[q] # "serving"

Bind(p) ==
  /\ phase[p] = "keys" /\ at[p] = "none" /\ Free
  /\ Enters(p, "serving")
  /\ presented' = presented \cup {held[p]}
  /\ UNCHANGED <<keyVars, asked, failing, wanted, restart>>

\* run ends.  Its error is the exit status, and the service manager starts a
\* service again that failed, unless it was told to stop it.
Exits(p, failed) ==
  /\ Drop(p) /\ Enters(p, "down")
  /\ asked' = [asked EXCEPT ![p] = FALSE] /\ failing' = [failing EXCEPT ![p] = FALSE]
  /\ restart' = IF p = Managed THEN failed /\ wanted ELSE restart
  /\ UNCHANGED <<wanted, presented>>

\* A start that cannot go on.
StartFails(p) ==
  /\ \/ phase[p] = "keys" /\ at[p] # "none" /\ Refused(p)
     \/ phase[p] = "keys" /\ at[p] = "none" /\ ~ Free
  /\ Exits(p, TRUE)
  /\ UNCHANGED <<file, faults>>

\* An operation of the start fails, or the process is killed, at any point.
Dies(p) ==
  /\ phase[p] # "down" /\ Fault
  /\ Cut(p)
  /\ Exits(p, TRUE)

AskStop(p) ==
  /\ phase[p] # "down" /\ ~ asked[p]
  /\ asked' = [asked EXCEPT ![p] = TRUE]
  /\ wanted' = (wanted /\ p # Managed)
  /\ UNCHANGED <<keyVars, phase, failing, restart, presented>>

\* Serve leaves its select and closes the listeners.
Drain(p) ==
  /\ phase[p] = "serving"
  /\ \/ asked[p] /\ UNCHANGED <<faults, failing>>
     \/ Fault /\ failing' = [failing EXCEPT ![p] = TRUE]
  /\ Enters(p, "draining")
  /\ UNCHANGED <<file, at, step, made, held, generated, asked, wanted, restart, presented>>

\* Serve has returned, the log is closed, and run returns what Serve did.
Return(p) ==
  /\ phase[p] = "draining"
  /\ Exits(p, failing[p])
  /\ UNCHANGED <<file, faults>>

Run(p) == Load(p) \/ Keys(p) \/ Bind(p) \/ StartFails(p) \/ (asked[p] /\ Drain(p)) \/ Return(p)

Next == \E p \in Procs : Run(p) \/ Start(p) \/ Drain(p) \/ AskStop(p) \/ Dies(p)

\* Processes run, and the service manager starts what it owes a start.  Faults,
\* stops and starts by hand happen or not.
Spec == Init /\ [][Next]_vars /\ WF_vars(Start(Managed)) /\ \A p \in Procs : WF_vars(Run(p))
-----------------------------------------------------------------------------
(* Properties *)

\* Whatever is killed, fails or races with another start, every server that ever
\* serves presents one and the same host key, and a certificate for its TLS key.
OneIdentity ==
  /\ \A a, b \in presented : a = b
  /\ \A a \in presented : a["cert"] = a["tls"]

\* Until its operator stops it, the service always comes back to serve, whatever
\* ended it or its starts, as long as no key file is left short.
ComesBack == []<>(~ Free \/ ~ wanted \/ \E f \in Names : file[f] = Short)
=============================================================================
