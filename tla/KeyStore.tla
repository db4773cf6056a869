----------------------------- MODULE KeyStore -----------------------------
(***************************************************************************)
(* The private files of a server (internal/honeypot/keys.go): the SSH host *)
(* key, the TLS key and its certificate, each read when it exists and      *)
(* created in place when it does not, in the start of any process that     *)
(* uses the directory.  A write may be cut, by an error or by the end of   *)
(* the process, and another process may be in the same functions.          *)
(*                                                                         *)
(* A file is Absent, Short (created, not written to the end) or whole.  A  *)
(* key is a number, and a certificate the number of the key it is for.     *)
(***************************************************************************)
EXTENDS Integers, FiniteSets

CONSTANTS
  Procs,      \* the processes that use the directory
  MaxFaults,  \* bound: failed operations and kills
  Absent, Short, None  \* no file; a cut file; nothing held yet

ASSUME KeyAssumption ==
  /\ Absent \notin Nat /\ Short \notin Nat /\ None \notin Nat
  /\ Absent # Short /\ Absent # None /\ Short # None

VARIABLES
  file,       \* the directory
  at,         \* which file a process is at, or "none"
  step,       \* where it stands in privateFile
  made,       \* what it is about to write
  held,       \* the contents it has read or written
  generated,  \* how many keys were generated
  faults      \* how much of the bound is used

keyVars == <<file, at, step, made, held, generated, faults>>

Names == {"ssh", "tls", "cert"}
After == [ssh |-> "tls", tls |-> "cert", cert |-> "none"]

KeyInit ==
  /\ file = [f \in Names |-> Absent]
  /\ at = [p \in Procs |-> "none"] /\ step = [p \in Procs |-> "none"]
  /\ made = [p \in Procs |-> None]
  /\ held = [p \in Procs |-> [f \in Names |-> None]]
  /\ generated = 0 /\ faults = 0

Fault == faults < MaxFaults /\ faults' = faults + 1

\* New looks for the first file.
EnterKeys(p) ==
  /\ at' = [at EXCEPT ![p] = "ssh"] /\ step' = [step EXCEPT ![p] = "lstat"]
  /\ UNCHANGED <<file, made, held, generated, faults>>

\* What a process holds is gone with it.
Drop(p) ==
  /\ at' = [at EXCEPT ![p] = "none"] /\ step' = [step EXCEPT ![p] = "none"]
  /\ made' = [made EXCEPT ![p] = None]
  /\ held' = [held EXCEPT ![p] = [f \in Names |-> None]]
  /\ UNCHANGED generated

\* privateFile returns content for the file that p is at.
Holds(p, content) ==
  /\ held' = [held EXCEPT ![p][at[p]] = content]
  /\ step' = [step EXCEPT ![p] = "parse"]
  /\ made' = [made EXCEPT ![p] = None]
  /\ UNCHANGED at

\* What is held is a host key, or a certificate for the TLS key, which is looked
\* at only then.
Parses(p) ==
  /\ at[p] = "ssh" => held[p]["ssh"] # Short
  /\ at[p] = "cert" => held[p]["cert"] = held[p]["tls"] /\ held[p]["tls"] # Short

\* Mutant: the certificate is made with a key of its own.
ContentFresh(p, f) == generated + 1

\* What create returns: a new key, or a certificate for the TLS key just held.
Content(p, f) == IF f = "cert" THEN held[p]["tls"] ELSE generated + 1

FindAbsent(p) ==
  /\ step[p] = "lstat" /\ file[at[p]] = Absent
  /\ Content(p, at[p]) # Short
  /\ made' = [made EXCEPT ![p] = Content(p, at[p])]
  /\ generated' = IF made'[p] > generated THEN made'[p] ELSE generated
  /\ step' = [step EXCEPT ![p] = "open"]
  /\ UNCHANGED <<file, at, held, faults>>

FindPresent(p) ==
  /\ step[p] = "lstat" /\ file[at[p]] # Absent
  /\ step' = [step EXCEPT ![p] = "read"]
  /\ UNCHANGED <<file, at, made, held, generated, faults>>

ReadKey(p) ==
  /\ step[p] = "read"
  /\ Holds(p, file[at[p]])
  /\ UNCHANGED <<file, generated, faults>>

\* Mutant: a file that exists by now is truncated.
OpenTruncates(p) ==
  /\ step[p] = "open"
  /\ file' = [file EXCEPT ![at[p]] = Short]
  /\ step' = [step EXCEPT ![p] = "write"]
  /\ UNCHANGED <<at, made, held, generated, faults>>

\* The file is created, unless it exists by now.
OpenNew(p) ==
  /\ step[p] = "open" /\ file[at[p]] = Absent
  /\ file' = [file EXCEPT ![at[p]] = Short]
  /\ step' = [step EXCEPT ![p] = "write"]
  /\ UNCHANGED <<at, made, held, generated, faults>>

WriteKey(p) ==
  /\ step[p] = "write"
  /\ file' = [file EXCEPT ![at[p]] = made[p]]
  /\ Holds(p, made[p])
  /\ UNCHANGED <<generated, faults>>

ParseKey(p) ==
  /\ step[p] = "parse" /\ Parses(p)
  /\ at' = [at EXCEPT ![p] = After[@]]
  /\ step' = [step EXCEPT ![p] = IF at[p] = "cert" THEN "none" ELSE "lstat"]
  /\ UNCHANGED <<file, made, held, generated, faults>>

KeyStep(p) ==
  \/ FindAbsent(p) \/ FindPresent(p) \/ ReadKey(p) \/ OpenNew(p) \/ WriteKey(p) \/ ParseKey(p)

\* The start of p ends here without a fault of its own: what it holds is of no
\* use, or the file that it would create exists.
Refused(p) ==
  \/ step[p] = "parse" /\ ~ Parses(p)
  \/ step[p] = "lstat" /\ file[at[p]] = Absent /\ Content(p, at[p]) = Short
  \/ step[p] = "open" /\ file[at[p]] # Absent

\* The process fails or dies at its present step: a file that it was writing may
\* have been written to the end.
Cut(p) ==
  \/ UNCHANGED file
  \/ step[p] = "write" /\ file' = [file EXCEPT ![at[p]] = made[p]]
=============================================================================
