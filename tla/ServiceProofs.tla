--------------------------- MODULE ServiceProofs ---------------------------
(***************************************************************************)
(* Proofs about Service, for any number of processes and of faults.  The   *)
(* identity is safe because a file changes only until it is whole: the one *)
(* process that created a file (OneWriter) writes it once, and everybody   *)
(* else holds what is in it (Filed) or something that will not parse.      *)
(***************************************************************************)
EXTENDS Service, TLAPS

\* Where a process may stand, and what it may hold there.
Types ==
  /\ file \in [Names -> Nat \cup {Absent, Short}]
  /\ at \in [Procs -> Names \cup {"none"}]
  /\ step \in [Procs -> {"none", "lstat", "read", "open", "write", "parse"}]
  /\ made \in [Procs -> Nat \cup {None}]
  /\ held \in [Procs -> [Names -> Nat \cup {Short, None}]]
  /\ generated \in Nat
  /\ phase \in [Procs -> {"down", "loading", "keys", "serving", "draining"}]

\* The position in privateFile agrees with the file and with what is held.
Position(p) ==
  /\ at[p] = "none" <=> step[p] = "none"
  /\ at[p] # "none" => phase[p] = "keys"
  /\ step[p] = "read" => file[at[p]] # Absent
  /\ step[p] = "write" => file[at[p]] = Short
  /\ step[p] \in {"open", "write"} => made[p] \in Nat
  /\ step[p] = "parse" => held[p][at[p]] # None

\* A certificate is made for the TLS key on disk, which is held by then.
Order(p) ==
  /\ at[p] \in {"tls", "cert"} => held[p]["ssh"] \in Nat
  /\ at[p] = "cert" => held[p]["tls"] # None
  /\ at[p] = "cert" /\ step[p] \in {"open", "write"} => made[p] = held[p]["tls"]
  /\ phase[p] = "keys" /\ at[p] = "none" =>
       held[p]["ssh"] \in Nat /\ held[p]["tls"] \in Nat /\ held[p]["cert"] = held[p]["tls"]

\* What a process holds and could use is what is in the file.
Filed(p) == \A f \in Names : held[p][f] \in Nat => file[f] = held[p][f]

\* A file is written by the process that created it.
OneWriter ==
  \A p, q \in Procs : step[p] = "write" /\ step[q] = "write" /\ at[p] = at[q] => p = q

\* Whoever served has the directory's whole files, and they belong together.
Presented ==
  \A a \in presented :
    a = file /\ a \in [Names -> Nat] /\ a["cert"] = a["tls"]

IInv ==
  /\ Types
  /\ \A p \in Procs : Position(p) /\ Order(p) /\ Filed(p)
  /\ OneWriter
  /\ Presented

\* Before anything starts the directory is empty and nobody holds anything.
LEMMA InitIInv == Init => IInv
  BY KeyAssumption DEF Init, KeyInit, IInv, Types, Position, Order, Filed, OneWriter, Presented, Names

\* A key is generated, or the certificate of the TLS key that is held.
LEMMA FindAbsentStep ==
  ASSUME IInv, NEW p \in Procs, phase[p] = "keys", FindAbsent(p), UNCHANGED runVars
  PROVE  IInv'
<1> USE KeyAssumption DEF IInv, FindAbsent, Content, runVars
<1>1. Types'
  BY DEF Types, Position, Order, Names, After
<1>2. ASSUME NEW q \in Procs PROVE Position(q)'
  <2>1. CASE q = p
    BY <2>1 DEF Types, Position, Order, Names, After
  <2>2. CASE q # p
    BY <2>2 DEF Types, Position, OneWriter, Names
  <2> QED BY <2>1, <2>2
<1>3. ASSUME NEW q \in Procs PROVE Order(q)'
  <2>1. CASE q = p
    BY <2>1 DEF Types, Position, Order, Names, After
  <2>2. CASE q # p
    BY <2>2 DEF Types, Order, Names
  <2> QED BY <2>1, <2>2
<1>4. ASSUME NEW q \in Procs PROVE Filed(q)'
  BY DEF Types, Position, Filed, Names
<1>5. OneWriter'
  BY DEF Types, Position, OneWriter, Names
<1>6. Presented'
  BY DEF Types, Position, Presented, Names
<1> QED BY <1>1, <1>2, <1>3, <1>4, <1>5, <1>6

\* A file that exists is read.
LEMMA FindPresentStep ==
  ASSUME IInv, NEW p \in Procs, phase[p] = "keys", FindPresent(p), UNCHANGED runVars
  PROVE  IInv'
<1> USE KeyAssumption DEF IInv, FindPresent, runVars
<1>1. Types'
  BY DEF Types, Position, Order, Names, After
<1>2. ASSUME NEW q \in Procs PROVE Position(q)'
  <2>1. CASE q = p
    BY <2>1 DEF Types, Position, Order, Names, After
  <2>2. CASE q # p
    BY <2>2 DEF Types, Position, OneWriter, Names
  <2> QED BY <2>1, <2>2
<1>3. ASSUME NEW q \in Procs PROVE Order(q)'
  <2>1. CASE q = p
    BY <2>1 DEF Types, Position, Order, Names, After
  <2>2. CASE q # p
    BY <2>2 DEF Types, Order, Names
  <2> QED BY <2>1, <2>2
<1>4. ASSUME NEW q \in Procs PROVE Filed(q)'
  BY DEF Types, Position, Filed, Names
<1>5. OneWriter'
  BY DEF Types, Position, OneWriter, Names
<1>6. Presented'
  BY DEF Types, Position, Presented, Names
<1> QED BY <1>1, <1>2, <1>3, <1>4, <1>5, <1>6

\* What is read is what is in the file.
LEMMA ReadKeyStep ==
  ASSUME IInv, NEW p \in Procs, phase[p] = "keys", ReadKey(p), UNCHANGED runVars
  PROVE  IInv'
<1> USE KeyAssumption DEF IInv, ReadKey, Holds, runVars
<1>1. Types'
  BY DEF Types, Position, Order, Names, After
<1>2. ASSUME NEW q \in Procs PROVE Position(q)'
  <2>1. CASE q = p
    BY <2>1 DEF Types, Position, Order, Names, After
  <2>2. CASE q # p
    BY <2>2 DEF Types, Position, OneWriter, Names
  <2> QED BY <2>1, <2>2
<1>3. ASSUME NEW q \in Procs PROVE Order(q)'
  <2>1. CASE q = p
    BY <2>1 DEF Types, Position, Order, Names, After
  <2>2. CASE q # p
    BY <2>2 DEF Types, Order, Names
  <2> QED BY <2>1, <2>2
<1>4. ASSUME NEW q \in Procs PROVE Filed(q)'
  BY DEF Types, Position, Filed, Names
<1>5. OneWriter'
  BY DEF Types, Position, OneWriter, Names
<1>6. Presented'
  BY DEF Types, Position, Presented, Names
<1> QED BY <1>1, <1>2, <1>3, <1>4, <1>5, <1>6

\* A file is created by one process only.
LEMMA OpenNewStep ==
  ASSUME IInv, NEW p \in Procs, phase[p] = "keys", OpenNew(p), UNCHANGED runVars
  PROVE  IInv'
<1> USE KeyAssumption DEF IInv, OpenNew, runVars
<1>1. Types'
  BY DEF Types, Position, Order, Names, After
<1>2. ASSUME NEW q \in Procs PROVE Position(q)'
  <2>1. CASE q = p
    BY <2>1 DEF Types, Position, Order, Names, After
  <2>2. CASE q # p
    BY <2>2 DEF Types, Position, OneWriter, Names
  <2> QED BY <2>1, <2>2
<1>3. ASSUME NEW q \in Procs PROVE Order(q)'
  <2>1. CASE q = p
    BY <2>1 DEF Types, Position, Order, Names, After
  <2>2. CASE q # p
    BY <2>2 DEF Types, Order, Names
  <2> QED BY <2>1, <2>2
<1>4. ASSUME NEW q \in Procs PROVE Filed(q)'
  BY DEF Types, Position, Filed, Names
<1>5. OneWriter'
  BY DEF Types, Position, OneWriter, Names
<1>6. Presented'
  BY DEF Types, Position, Presented, Names
<1> QED BY <1>1, <1>2, <1>3, <1>4, <1>5, <1>6

\* A file becomes whole, and nobody can have held or served it before.
LEMMA WriteKeyStep ==
  ASSUME IInv, NEW p \in Procs, phase[p] = "keys", WriteKey(p), UNCHANGED runVars
  PROVE  IInv'
<1> USE KeyAssumption DEF IInv, WriteKey, Holds, runVars
<1>1. Types'
  BY DEF Types, Position, Order, Names, After
<1>2. ASSUME NEW q \in Procs PROVE Position(q)'
  <2>1. CASE q = p
    BY <2>1 DEF Types, Position, Order, Names, After
  <2>2. CASE q # p
    BY <2>2 DEF Types, Position, OneWriter, Names
  <2> QED BY <2>1, <2>2
<1>3. ASSUME NEW q \in Procs PROVE Order(q)'
  <2>1. CASE q = p
    BY <2>1 DEF Types, Position, Order, Names, After
  <2>2. CASE q # p
    BY <2>2 DEF Types, Order, Names
  <2> QED BY <2>1, <2>2
<1>4. ASSUME NEW q \in Procs PROVE Filed(q)'
  BY DEF Types, Position, Filed, Names
<1>5. OneWriter'
  BY DEF Types, Position, OneWriter, Names
<1>6. Presented'
  BY DEF Types, Position, Presented, Names
<1> QED BY <1>1, <1>2, <1>3, <1>4, <1>5, <1>6

\* After the last file, all three are held whole, and fit.
LEMMA ParseKeyStep ==
  ASSUME IInv, NEW p \in Procs, phase[p] = "keys", ParseKey(p), UNCHANGED runVars
  PROVE  IInv'
<1> USE KeyAssumption DEF IInv, ParseKey, Parses, runVars
<1>1. Types'
  BY DEF Types, Position, Order, Names, After
<1>2. ASSUME NEW q \in Procs PROVE Position(q)'
  <2>1. CASE q = p
    BY <2>1 DEF Types, Position, Order, Names, After
  <2>2. CASE q # p
    BY <2>2 DEF Types, Position, OneWriter, Names
  <2> QED BY <2>1, <2>2
<1>3. ASSUME NEW q \in Procs PROVE Order(q)'
  <2>1. CASE q = p
    BY <2>1 DEF Types, Position, Order, Names, After
  <2>2. CASE q # p
    BY <2>2 DEF Types, Order, Names
  <2> QED BY <2>1, <2>2
<1>4. ASSUME NEW q \in Procs PROVE Filed(q)'
  BY DEF Types, Position, Filed, Names
<1>5. OneWriter'
  BY DEF Types, Position, OneWriter, Names
<1>6. Presented'
  BY DEF Types, Position, Presented, Names
<1> QED BY <1>1, <1>2, <1>3, <1>4, <1>5, <1>6

\* The steps of the service outside privateFile that leave the files alone.
LEMMA OutsideStep ==
  ASSUME IInv, NEW p \in Procs, Start(p) \/ Load(p) \/ AskStop(p) \/ Drain(p)
  PROVE  IInv'
<1> USE KeyAssumption DEF IInv, keyVars, Enters, EnterKeys, Start, Load, AskStop, Drain
<1>1. Types'
  BY DEF Types, Names
<1>2. ASSUME NEW q \in Procs PROVE Position(q)' /\ Order(q)' /\ Filed(q)'
  <2>1. CASE Load(p)
    BY <2>1 DEF Types, Position, Order, Filed, Names
  <2>2. CASE Start(p) \/ AskStop(p) \/ Drain(p)
    <3>1. UNCHANGED <<file, at, step, made, held>>
      BY <2>2
    <3>2. phase'[q] = phase[q] \/ (phase[q] # "keys" /\ phase'[q] # "keys")
      BY <2>2 DEF Types
    <3> QED BY <3>1, <3>2 DEF Types, Position, Order, Filed
  <2> QED BY <2>1, <2>2
<1>3. OneWriter'
  BY ZenonT(60) DEF Types, OneWriter
<1>4. Presented'
  BY DEF Presented
<1> QED BY <1>1, <1>2, <1>3, <1>4

\* A server that binds holds the directory's whole files.
LEMMA BindStep ==
  ASSUME IInv, NEW p \in Procs, Bind(p)
  PROVE  IInv'
<1> USE DEF IInv, keyVars, Enters, Bind
<1>1. Types'
  BY DEF Types
<1>2. ASSUME NEW q \in Procs PROVE Position(q)' /\ Order(q)' /\ Filed(q)'
  BY DEF Types, Position, Order, Filed
<1>3. OneWriter'
  BY DEF OneWriter
<1>4. Presented'
  <2>1. \A f \in Names : held[p][f] \in Nat /\ file[f] = held[p][f]
    BY DEF Order, Filed, Names
  <2>2. held[p] = file /\ held[p] \in [Names -> Nat] /\ held[p]["cert"] = held[p]["tls"]
    BY <2>1 DEF Types, Order
  <2> QED BY <2>2 DEF Presented
<1> QED BY <1>1, <1>2, <1>3, <1>4

\* A process that ends holds nothing, and leaves its file cut or whole.
LEMMA ExitStep ==
  ASSUME IInv, NEW p \in Procs, Cut(p), NEW failed, Exits(p, failed)
  PROVE  IInv'
<1> USE KeyAssumption DEF IInv, Enters, Exits, Drop, Cut
<1>1. Types'
  BY DEF Types, Position, Names
<1>2. ASSUME NEW q \in Procs PROVE Position(q)'
  <2>1. CASE q = p
    BY <2>1 DEF Types, Position, Names
  <2>2. CASE q # p
    BY <2>2 DEF Types, Position, OneWriter, Names
  <2> QED BY <2>1, <2>2
<1>3. ASSUME NEW q \in Procs PROVE Order(q)'
  BY DEF Types, Order, Names
<1>4. ASSUME NEW q \in Procs PROVE Filed(q)'
  BY DEF Types, Position, Filed, Names
<1>5. OneWriter'
  BY DEF Types, OneWriter, Names
<1>6. Presented'
  BY DEF Types, Position, Presented, Names
<1> QED BY <1>1, <1>2, <1>3, <1>4, <1>5, <1>6

\* Every step of every process keeps the invariant.
LEMMA NextIInv == IInv /\ [Next]_vars => IInv'
<1> SUFFICES ASSUME IInv, [Next]_vars PROVE IInv'
  OBVIOUS
<1>1. CASE UNCHANGED vars
  BY <1>1 DEF vars, keyVars, runVars, IInv, Types, Position, Order, Filed, OneWriter, Presented
<1>2. ASSUME NEW p \in Procs, Keys(p) PROVE IInv'
  BY <1>2, FindAbsentStep, FindPresentStep, ReadKeyStep, OpenNewStep, WriteKeyStep, ParseKeyStep
  DEF Keys, KeyStep
<1>3. ASSUME NEW p \in Procs, Start(p) \/ Load(p) \/ AskStop(p) \/ Drain(p) PROVE IInv'
  BY <1>3, OutsideStep
<1>4. ASSUME NEW p \in Procs, StartFails(p) \/ Return(p) \/ Dies(p) PROVE IInv'
  BY <1>4, ExitStep DEF StartFails, Return, Dies, Cut
<1>5. ASSUME NEW p \in Procs, Bind(p) PROVE IInv'
  BY <1>5, BindStep
<1>6. CASE Next
  BY <1>2, <1>3, <1>4, <1>5, <1>6 DEF Next, Run
<1> QED BY <1>1, <1>6

\* Every server that ever serves presents the host key and the certificate of the
\* directory (hostKey and tlsCertificate), whatever failed, died or raced before:
\* they are one pair, for ever, and the certificate is for the TLS key.
THEOREM IdentityKept == Spec => []OneIdentity
<1>1. IInv => OneIdentity
  BY DEF IInv, Presented, OneIdentity
<1> QED BY <1>1, InitIInv, NextIInv, PTL DEF Spec
=============================================================================
