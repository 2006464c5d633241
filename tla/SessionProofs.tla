--------------------------- MODULE SessionProofs ----------------------------
(***************************************************************************)
(* Proofs about MigrationPause, MigrationSession and MigrationCredentials, *)
(* for any number of commands, writers, migrations and configurations:     *)
(* the invariant of the pause is inductive and the pause implements        *)
(* WriteAdmission, if tofu ends with the configsctl process that started   *)
(* it and a published pause settles before another command uses it; what   *)
(* an accepted configuration covers; that commands and sessions do with    *)
(* the pause only what MigrationPause allows; the invariant of the         *)
(* sessions.                                                               *)
(***************************************************************************)
EXTENDS MigrationSession, WellFoundedInduction, TLAPS

-----------------------------------------------------------------------------
(***************************************************************************)
(* The pause by itself.                                                    *)
(***************************************************************************)

(***************************************************************************)
(* A step of a writer preserves the invariant: it is admitted only after   *)
(* it looked at the pause with the shared lease in its hands.              *)
(***************************************************************************)
LEMMA WriterPreserves ==
  ASSUME PauseInv, ~ChildrenOutlive, NEW w \in Writer, WriterStep(w)
  PROVE  PauseInv'
<1> USE DEF PauseInv
<1>1. TypeOK'
  BY DEF TypeOK, WriterStep, Guard, AcquireWriter, GuardAgain, LeaveWriter,
         SetWriter, WriterStates
<1>2. UNCHANGED <<engine, pause, disk, moving>>
  BY DEF WriterStep, Guard, AcquireWriter, GuardAgain, LeaveWriter, SetWriter
<1>3. Exclusive' = Exclusive
  BY <1>2 DEF Exclusive
<1>4. OneCommand'
  <2>1. Exclusive = {} \/ Shared' = {}
    BY DEF OneCommand, TypeOK, WriterStep, Guard, AcquireWriter, GuardAgain,
           LeaveWriter, SetWriter, Shared
  <2>2. QED
    BY <1>3, <2>1 DEF OneCommand
<1>5. OwnPause' /\ Settled'
  BY <1>2 DEF OwnPause, Settled
<1>6. AdmittedUnpaused'
  BY DEF AdmittedUnpaused, TypeOK, WriterStep, Guard, AcquireWriter, GuardAgain,
         LeaveWriter, SetWriter
<1>7. QED
  BY <1>1, <1>4, <1>5, <1>6

(***************************************************************************)
(* A step of a migration command preserves the invariant: its exclusive    *)
(* lease keeps every other process from acting on the pause, and it never  *)
(* writes, seals or releases under the pause of another migration.         *)
(***************************************************************************)
LEMMA EnginePreserves ==
  ASSUME PauseAssumption, PauseInv, LinkSettles,
         NEW m \in Migration, EngineStep(m)
  PROVE  PauseInv'
<1> USE DEF PauseInv
<1>1. TypeOK'
  BY DEF TypeOK, EngineStep, AcquireExclusive, PublishPause, SyncPause,
         RequirePause, WriteBackend, SealPhase, ReleasePause, SyncRelease,
         EndOperation, StopEngine, LeaveEngine, EngineStates
<1>2. writer' = writer /\ Shared' = Shared
  BY DEF EngineStep, AcquireExclusive, PublishPause, SyncPause, RequirePause,
         WriteBackend, SealPhase, ReleasePause, SyncRelease, EndOperation, StopEngine, LeaveEngine, Shared
<1>3. \A n \in Migration \ {m} : engine'[n] = engine[n]
  BY DEF TypeOK, EngineStep, AcquireExclusive, PublishPause, SyncPause,
         RequirePause, WriteBackend, SealPhase, ReleasePause, SyncRelease,
         EndOperation, StopEngine, LeaveEngine
<1>4. OneCommand' /\ \A n \in Migration \ {m} : engine[n] = "out"
  <2>1. CASE AcquireExclusive(m)
    BY <1>2, <1>3, <2>1 DEF AcquireExclusive, OneCommand, Exclusive
  <2>2. CASE engine[m] # "out"
    BY <1>2, <1>3, <2>2 DEF OneCommand, Exclusive
  <2>3. QED
    BY <2>1, <2>2 DEF EngineStep, PublishPause, SyncPause, RequirePause,
          WriteBackend, SealPhase, ReleasePause, SyncRelease, EndOperation, StopEngine, LeaveEngine
<1>5. \A n \in moving : n = m \/ (pause = n /\ disk = n)
  BY DEF OwnPause, TypeOK
<1>6. OwnPause'
  BY <1>3, <1>4, <1>5 DEF PauseAssumption, OwnPause, Settled, TypeOK, EngineStep,
     AcquireExclusive, PublishPause, SyncPause, RequirePause, WriteBackend,
     SealPhase, ReleasePause, SyncRelease, EndOperation, StopEngine, LeaveEngine
<1>7. Settled'
  BY <1>3, <1>4 DEF OwnPause, Settled, TypeOK, EngineStep, AcquireExclusive,
     PublishPause, SyncPause, RequirePause, WriteBackend, SealPhase,
     ReleasePause, SyncRelease, EndOperation, StopEngine, LeaveEngine
<1>8. AdmittedUnpaused'
  <2>1. pause' # NoOne => pause' = pause \/ Shared = {}
    BY DEF OneCommand, Exclusive, EngineStep, AcquireExclusive, PublishPause,
           SyncPause, RequirePause, WriteBackend, SealPhase, ReleasePause,
           SyncRelease, EndOperation, StopEngine, LeaveEngine
  <2>2. QED
    BY <1>2, <2>1 DEF AdmittedUnpaused, Shared
<1>9. QED
  BY <1>1, <1>4, <1>6, <1>7, <1>8

(***************************************************************************)
(* A power loss preserves the invariant: a migration that moves states has *)
(* its pause on disk.                                                      *)
(***************************************************************************)
LEMMA PowerLossPreserves ==
  ASSUME PauseInv, PowerLoss
  PROVE  PauseInv'
BY DEF PauseInv, TypeOK, WriterStates, EngineStates, OneCommand, Exclusive,
       Shared, OwnPause, Settled, AdmittedUnpaused, PowerLoss

(***************************************************************************)
(* The pause of a migration that has touched a backend stays until that    *)
(* migration is proved, and no writer is admitted meanwhile.               *)
(***************************************************************************)
THEOREM PauseHolds ==
  ASSUME ~ChildrenOutlive, LinkSettles
  PROVE  Spec => []PauseInv
<1>1. Init => PauseInv
  BY DEF Init, PauseInv, TypeOK, WriterStates, EngineStates, OneCommand,
         Exclusive, Shared, OwnPause, Settled, AdmittedUnpaused
<1>2. PauseInv /\ [Next]_vars => PauseInv'
  <2> SUFFICES ASSUME PauseInv, [Next]_vars PROVE PauseInv'
    OBVIOUS
  <2>1. CASE Next
    BY <2>1, PauseAssumption, WriterPreserves, EnginePreserves,
       PowerLossPreserves DEF Next
  <2>2. CASE UNCHANGED vars
    BY <2>2 DEF vars, PauseInv, TypeOK, OneCommand, Exclusive, Shared, OwnPause,
       Settled, AdmittedUnpaused
  <2>3. QED
    BY <2>1, <2>2
<1>3. QED
  BY <1>1, <1>2, PTL DEF Spec

(***************************************************************************)
(* Writers and migrations exclude each other as WriteAdmission promises.   *)
(***************************************************************************)
THEOREM AdmissionImplemented ==
  ASSUME ~ChildrenOutlive, LinkSettles
  PROVE  Spec => ImplementsAdmission
<1>1. Init => Admission!Init
  BY DEF Init, Admission!Init, Admitted
<1>2. PauseInv /\ [Next]_vars => [Admission!Next]_Admission!vars
  <2> SUFFICES ASSUME PauseInv, [Next]_vars
               PROVE  [Admission!Next]_Admission!vars
    OBVIOUS
  <2> USE DEF PauseInv
  <2>1. ASSUME NEW w \in Writer, WriterStep(w)
        PROVE  [Admission!Next]_Admission!vars
    <3>1. moving' = moving
      BY <2>1 DEF WriterStep, Guard, AcquireWriter, GuardAgain, LeaveWriter,
         SetWriter
    <3>2. CASE Admitted' \subseteq Admitted
      BY <3>1, <3>2 DEF Admission!Next, Admission!Leave
    <3>3. CASE GuardAgain(w) /\ pause = NoOne
      <4>1. moving = {}
        BY <3>3, PauseAssumption DEF OwnPause, TypeOK
      <4>2. Admitted' = Admitted \cup {w}
        BY <3>3 DEF GuardAgain, SetWriter, Admitted, TypeOK
      <4>3. QED
        BY <3>1, <4>1, <4>2 DEF Admission!Next, Admission!Admit
    <3>4. QED
      BY <2>1, <3>2, <3>3 DEF WriterStep, Guard, AcquireWriter, GuardAgain,
         LeaveWriter, SetWriter, Admitted, TypeOK
  <2>2. ASSUME NEW m \in Migration, EngineStep(m)
        PROVE  [Admission!Next]_Admission!vars
    <3>1. Admitted' = Admitted
      BY <2>2 DEF EngineStep, AcquireExclusive, PublishPause, SyncPause,
         RequirePause, WriteBackend, SealPhase, ReleasePause, SyncRelease,
         EndOperation, StopEngine, LeaveEngine, Admitted
    <3>2. CASE moving' = moving
      BY <3>1, <3>2 DEF Admission!vars
    <3>3. CASE WriteBackend(m)
      <4>1. pause = m /\ pause # NoOne
        BY <3>3, PauseAssumption DEF WriteBackend, OwnPause
      <4>2. Admitted = {}
        BY <4>1 DEF AdmittedUnpaused, Admitted
      <4>3. moving \subseteq {m} /\ moving' = {m}
        BY <3>3, <4>1 DEF WriteBackend, OwnPause, TypeOK
      <4>4. QED
        BY <3>1, <4>2, <4>3 DEF Admission!Next, Admission!Begin
    <3>4. CASE SealPhase(m)
      BY <3>1, <3>4 DEF SealPhase, Admission!Next, Admission!Prove
    <3>5. QED
      BY <2>2, <3>2, <3>3, <3>4 DEF EngineStep, AcquireExclusive, PublishPause,
         SyncPause, RequirePause, ReleasePause, SyncRelease, EndOperation, StopEngine, LeaveEngine
  <2>3. CASE PowerLoss
    BY <2>3 DEF PowerLoss, Admitted, Admission!Next, Admission!Leave
  <2>4. CASE UNCHANGED vars
    BY <2>4 DEF vars, Admitted, Admission!vars
  <2>5. QED
    BY <2>1, <2>2, <2>3, <2>4 DEF Next
<1>3. QED
  BY <1>1, <1>2, PauseHolds, PTL DEF Spec, ImplementsAdmission, Admission!Spec

-----------------------------------------------------------------------------
(***************************************************************************)
(* The credentials.                                                        *)
(***************************************************************************)

\* A set of indices has a first one.
LEMMA FirstIndex ==
  ASSUME NEW n \in Nat, NEW T, T \subseteq 1..n, T # {}
  PROVE  \E i \in T : \A j \in T : ~(j < i)
<1> DEFINE Less == OpToRel(<, Nat)
<1>1. T \subseteq Nat
  OBVIOUS
<1>2. \E i \in T : \A j \in T : <<j, i>> \notin Less
  <2> HIDE DEF Less
  <2>1. IsWellFoundedOn(Less, Nat)
    BY NatLessThanWellFounded DEF Less
  <2> QED
    BY <1>1, <2>1, WFMin, Zenon
<1>3. \A i, j \in Nat : <<j, i>> \in Less <=> j < i
  BY DEF OpToRel
<1> QED
  <2> HIDE DEF Less
  <2> QED
    BY <1>1, <1>2, <1>3

LEMMA EnvironmentComplete ==
  ASSUME NEW bindings, NEW environment, NEW moves,
         Accepted(bindings, moves, environment)
  PROVE  EnvironmentReady(bindings, environment)
<1> SUFFICES ASSUME NEW b \in Bound(bindings)
             PROVE  LET given == Environment(bindings, environment, b)
                    IN  /\ {b.user, b.pass} \ b.supplied \subseteq DOMAIN given
                        /\ b.user \in DOMAIN given => given[b.user] = <<"user", b.account>>
                        /\ b.pass \in DOMAIN given => given[b.pass] = <<"password", b.account>>
                        /\ \A c \in Bound(bindings) : c.key \notin DOMAIN given
  BY DEF EnvironmentReady
<1> DEFINE full  == CredentialEnvironment(environment, b)
           keys  == {c.key : c \in Bound(bindings)}
           given == Environment(bindings, environment, b)
<1>1. given = [name \in DOMAIN full \ keys |-> full[name]]
  BY DEF Environment, StripRotators, Without
<1>2. {b.user, b.pass} \ b.supplied \subseteq DOMAIN given
  BY DEF Accepted, InputsComplete
<1>3. b.user # b.pass
  BY DEF Accepted, DistinctNames
<1>4. full[b.user] = <<"user", b.account>> /\ full[b.pass] = <<"password", b.account>>
  BY <1>3 DEF CredentialEnvironment
<1> HIDE DEF full, given
<1>5. \A name \in DOMAIN given : given[name] = full[name]
  BY <1>1
<1>6. \A c \in Bound(bindings) : c.key \notin DOMAIN given
  BY <1>1
<1> QED
  BY <1>2, <1>4, <1>5, <1>6 DEF given

\* Among the bindings of an account, or of an endpoint, one is the first.
LEMMA FirstBinding ==
  ASSUME NEW bindings, Len(bindings) \in Nat, DOMAIN bindings = 1..Len(bindings),
         NEW T, T \subseteq DOMAIN bindings, T # {}
  PROVE  \E i \in T : \A k \in 1..(i - 1) : k \notin T
<1>1. PICK i \in T : \A j \in T : ~(j < i)
  BY FirstIndex
<1>2. i \in Nat
  OBVIOUS
<1>3. \A k \in 1..(i - 1) : k < i
  BY <1>2
<1> QED
  BY <1>1, <1>3

LEMMA RotationComplete ==
  ASSUME NEW bindings, NEW environment, NEW moves,
         Len(bindings) \in Nat, DOMAIN bindings = 1..Len(bindings),
         Accepted(bindings, moves, environment)
  PROVE  RotationCovered(bindings)
<1> DEFINE D == DOMAIN bindings
<1>1. \A a, b \in Bound(bindings) : a.account = b.account => a.secret = b.secret
  BY DEF Accepted, SecretsAgree
<1>2. ASSUME NEW b \in Bound(bindings)
      PROVE  \E d \in Deployments(bindings) : d.account = b.account /\ d.secret = b.secret
  <2> DEFINE T == {i \in D : bindings[i].account = b.account}
  <2>1. T # {}
    BY DEF Bound
  <2>2. PICK i \in T : \A k \in 1..(i - 1) : k \notin T
    BY <2>1, FirstBinding
  <2>3. \A k \in 1..(i - 1) : k \in D
    OBVIOUS
  <2>4. bindings[i] \in Deployments(bindings)
    BY <2>2, <2>3 DEF Deployments
  <2>5. bindings[i] \in Bound(bindings)
    BY DEF Bound
  <2> QED
    BY <1>1, <2>4, <2>5
<1>3. ASSUME NEW d \in Deployments(bindings), NEW e \in Deployments(bindings),
             d.account = e.account
      PROVE  d = e
  <2>1. PICK i \in D : d = bindings[i]
                       /\ \A k \in 1..(i - 1) : bindings[k].account # bindings[i].account
    BY DEF Deployments
  <2>2. PICK j \in D : e = bindings[j]
                       /\ \A k \in 1..(j - 1) : bindings[k].account # bindings[j].account
    BY DEF Deployments
  <2>3. ~(i < j) /\ ~(j < i)
    BY <1>3, <2>1, <2>2
  <2> QED
    BY <2>1, <2>2, <2>3
<1>4. ASSUME NEW b \in Bound(bindings)
      PROVE  \E h \in Hosts(bindings) : h[2] = b.endpoint
  <2> DEFINE T == {i \in D : bindings[i].endpoint = b.endpoint}
  <2>1. T # {}
    BY DEF Bound
  <2>2. PICK i \in T : \A k \in 1..(i - 1) : k \notin T
    BY <2>1, FirstBinding
  <2>3. \A k \in 1..(i - 1) : k \in D
    OBVIOUS
  <2>4. <<bindings[i].host, bindings[i].endpoint>> \in Hosts(bindings)
    BY <2>2, <2>3 DEF Hosts
  <2> QED
    BY <2>4
<1>5. ASSUME NEW h \in Hosts(bindings), NEW l \in Hosts(bindings), h[2] = l[2]
      PROVE  h = l
  <2>1. PICK i \in D : h = <<bindings[i].host, bindings[i].endpoint>>
                       /\ \A k \in 1..(i - 1) : bindings[k].endpoint # bindings[i].endpoint
    BY DEF Hosts
  <2>2. PICK j \in D : l = <<bindings[j].host, bindings[j].endpoint>>
                       /\ \A k \in 1..(j - 1) : bindings[k].endpoint # bindings[j].endpoint
    BY DEF Hosts
  <2>3. ~(i < j) /\ ~(j < i)
    BY <1>5, <2>1, <2>2
  <2> QED
    BY <2>1, <2>2, <2>3
<1> QED
  BY <1>2, <1>3, <1>4, <1>5 DEF RotationCovered

\* Whatever the configurations declare: if prepareMigrationCredentials accepts
\* them, every workspace gets the credential of its account for each variable
\* that it gets at all, it gets those that have no default and no value in a
\* reviewed file, and no rotator; every account is rotated once under the lock of
\* its host (migrationcredentials.go, migrationinputs.go).
THEOREM CredentialsHold == CredentialsReady
BY EnvironmentComplete, RotationComplete, SessionAssumption
   DEF CredentialsReady, AcceptedConfigurations

-----------------------------------------------------------------------------
(***************************************************************************)
(* The invariant of the sessions.                                          *)
(***************************************************************************)

\* What SessionInv leaves open: a command that has started works on a
\* migration, its callback has begun only inside its session, and a session is
\* closed before it waits.
Served ==
  /\ mode \in [Command -> {"none", "alone", "session", "rotates"}]
  /\ \A c \in Command :
       /\ command[c] # "out" => serves[c] \in Migration
       /\ stage[c] # "start" => command[c] = "open"
       /\ command[c] = "closing" => closed[c]

Session ==
  /\ SessionTypes /\ LeaseOwned /\ OperationsCovered /\ QuietBetween
  /\ CredentialStands /\ Served

Ind == PauseInv /\ Session

\* The lease belongs to one process.
LEMMA OneLease ==
  ASSUME Ind, NEW c \in Command, NEW d \in Command, Leases(c), Leases(d)
  PROVE  c = d /\ engine[serves[c]] # "out" /\ serves[c] \in Migration
<1>1. serves[c] \in Migration /\ serves[d] \in Migration
  BY DEF Ind, Session, Served, Leases
<1>2. engine[serves[c]] # "out" /\ engine[serves[d]] # "out"
  BY <1>1 DEF Ind, Session, LeaseOwned
<1>3. serves[c] = serves[d]
  BY <1>1, <1>2 DEF Ind, PauseInv, OneCommand, Exclusive
<1> QED
  BY <1>1, <1>2, <1>3, PauseAssumption DEF Ind, Session, LeaseOwned

\* The operations of a migration change its own engine and nothing but its own pause.
LEMMA OperationEffects ==
  ASSUME TypeOK, NEW m \in Migration, OperationStep(m) \/ EndOperation(m)
  PROVE  /\ engine[m] # "out" /\ engine'[m] # "out"
         /\ EndOperation(m) => engine'[m] = "leased"
         /\ \A n \in Migration : n # m => engine'[n] = engine[n]
         /\ pause' \in {pause, m, NoOne}
BY DEF TypeOK, OperationStep, PublishPause, SyncPause, RequirePause, WriteBackend, SealPhase,
   ReleasePause, SyncRelease, EndOperation, LeaveEngine

LEMMA StopEffects ==
  ASSUME TypeOK, NEW m \in Migration, StopEngine(m)
  PROVE  /\ engine'[m] = "out" /\ pause' = pause
         /\ \A n \in Migration : n # m => engine'[n] = engine[n]
BY DEF TypeOK, StopEngine, LeaveEngine

\* A step of one command keeps the leases when its own are those of its migration.
LEMMA LeasesKept ==
  ASSUME Ind, NEW c \in Command,
         \A d \in Command : d # c => serves'[d] = serves[d] /\ command'[d] = command[d],
         \/ serves'[c] \in {NoOne, serves[c]}
         \/ \A d \in Command : serves[d] # serves'[c],
         \A n \in Migration : n # serves[c] => (engine'[n] = "out" <=> engine[n] = "out"),
         Leases(c)' => serves'[c] = serves[c],
         serves[c] \in Migration => (engine'[serves[c]] # "out" <=> Leases(c)')
  PROVE  LeaseOwned'
<1>1. \A d \in Command : d # c => (Leases(d)' <=> Leases(d))
  BY DEF Leases
<1>2. \A d, e \in Command : serves[d] = serves[e] /\ serves[d] # NoOne => d = e
  BY DEF Ind, Session, LeaseOwned
<1>3. \A d, e \in Command : serves'[d] = serves'[e] /\ serves'[d] # NoOne => d = e
  BY <1>2
<1>4. ASSUME NEW n \in Migration
      PROVE  engine'[n] # "out" <=> \E d \in Command : serves'[d] = n /\ Leases(d)'
  <2>1. engine[n] # "out" <=> \E d \in Command : serves[d] = n /\ Leases(d)
    BY DEF Ind, Session, LeaseOwned
  <2>2. n # NoOne
    BY PauseAssumption
  <2>3. CASE n = serves[c]
    BY <1>2, <2>2, <2>3
  <2>4. CASE n # serves[c]
    BY <1>1, <2>1, <2>4
  <2> QED
    BY <2>3, <2>4
<1> QED
  BY <1>3, <1>4 DEF LeaseOwned

LEMMA QuietKept ==
  ASSUME Ind, NEW c \in Command,
         \A d \in Command : d # c => /\ serves'[d] = serves[d] /\ command'[d] = command[d]
                                     /\ op'[d] = op[d],
         \A n \in Migration : n # serves[c] =>
           engine'[n] = engine[n] \/ engine'[n] \in {"out", "leased"},
         serves[c] \in Migration /\ engine'[serves[c]] \notin {"out", "leased"} =>
           /\ serves'[c] = serves[c]
           /\ command'[c] = "alone" \/ \E g \in Goroutine : op'[c][g] = "running"
  PROVE  QuietBetween'
<1> SUFFICES ASSUME NEW n \in Migration, engine'[n] \notin {"out", "leased"}
             PROVE  \E d \in Command : serves'[d] = n
                      /\ (command'[d] = "alone" \/ \E g \in Goroutine : op'[d][g] = "running")
  BY DEF QuietBetween
<1>1. CASE n = serves[c]
  BY <1>1
<1>2. CASE n # serves[c]
  <2>1. PICK d \in Command : serves[d] = n
          /\ (command[d] = "alone" \/ \E g \in Goroutine : op[d][g] = "running")
    BY <1>2 DEF Ind, Session, QuietBetween
  <2>2. d # c
    BY <1>2, <2>1
  <2> QED
    BY <2>1, <2>2
<1> QED
  BY <1>1, <1>2

\* While the callback of another command acts, a step of this one has no lease.
LEMMA CredentialsKept ==
  ASSUME Ind, NEW c \in Command,
         \A d \in Command : d # c => /\ serves'[d] = serves[d] /\ command'[d] = command[d]
                                     /\ stage'[d] = stage[d] /\ mode'[d] = mode[d],
         Leases(c) \/ (pause' = pause /\ device' = device),
         command'[c] = "open" =>
           /\ stage'[c] \in {"validated", "locked", "ready"} => pause' \in {NoOne, serves'[c]}
           /\ mode'[c] = "rotates" /\ stage'[c] \in {"ready", "once", "twice"} => device' = c
  PROVE  CredentialStands'
<1>1. ASSUME NEW d \in Command, d # c, command[d] = "open"
      PROVE  pause' = pause /\ device' = device
  <2>1. Leases(d)
    BY <1>1 DEF Leases
  <2> QED
    BY <1>1, <2>1, OneLease
<1> QED
  BY <1>1 DEF Ind, Session, CredentialStands

LEMMA CoordinateKeeps ==
  ASSUME Ind, NEW c \in Command, Coordinate(c)
  PROVE  Session'
<1> USE DEF Ind, Session, Coordinate, Enter
<1>1. SessionTypes'
  BY DEF SessionTypes, CommandStates, Stages, Goroutine
<1>2. LeaseOwned'
  <2>1. ~Leases(c)' /\ ~Leases(c) /\ engine' = engine
    BY DEF Leases, SessionTypes, vars
  <2>2. serves[c] \in Migration => engine[serves[c]] = "out"
    BY <2>1, PauseAssumption DEF LeaseOwned
  <2> QED
    BY <2>1, <2>2, LeasesKept DEF SessionTypes
<1>3. OperationsCovered'
  BY DEF SessionTypes, OperationsCovered, InSession, Served
<1>4. QuietBetween'
  <2>1. ~Leases(c) /\ engine' = engine
    BY DEF Leases, vars
  <2>2. serves[c] \in Migration => engine[serves[c]] = "out"
    BY <2>1, PauseAssumption DEF LeaseOwned
  <2> QED
    BY <2>1, <2>2, QuietKept DEF SessionTypes
<1>5. CredentialStands'
  BY CredentialsKept DEF SessionTypes, vars
<1>6. Served'
  BY DEF SessionTypes, Served
<1> QED
  BY <1>1, <1>2, <1>3, <1>4, <1>5, <1>6

LEMMA TakeLeaseKeeps ==
  ASSUME Ind, NEW c \in Command, TakeLease(c)
  PROVE  Session'
<1> USE DEF Ind, Session, TakeLease, Enter, AcquireExclusive, Modes
<1>1. SessionTypes'
  BY DEF SessionTypes, CommandStates, Stages, Goroutine
<1>2. LeaseOwned'
  <2>1. serves[c] \in Migration /\ Leases(c)'
    BY DEF Served, Leases, SessionTypes
  <2>2. /\ engine'[serves[c]] = "leased"
        /\ \A n \in Migration : n # serves[c] => engine'[n] = engine[n]
    BY <2>1 DEF PauseInv, TypeOK
  <2> QED
    BY <2>1, <2>2, LeasesKept DEF SessionTypes
<1>3. OperationsCovered'
  BY DEF SessionTypes, OperationsCovered, InSession, Served
<1>4. QuietBetween'
  BY DEF SessionTypes, QuietBetween, OperationsCovered, InSession, Goroutine
<1>5. CredentialStands'
  BY DEF SessionTypes, CredentialStands, Served
<1>6. Served'
  BY DEF SessionTypes, Served
<1> QED
  BY <1>1, <1>2, <1>3, <1>4, <1>5, <1>6

LEMMA LeaveKeeps ==
  ASSUME Ind, NEW c \in Command, Leave(c)
  PROVE  Session'
<1> USE DEF Ind, Session, Leave, Enter, Fresh, vars, Idle
<1>1. SessionTypes'
  BY DEF SessionTypes, CommandStates, Stages, Goroutine
<1>2. LeaseOwned'
  <2>1. /\ serves[c] \in Migration /\ serves'[c] = NoOne /\ command'[c] = "out"
        /\ engine' = engine
        /\ \A d \in Command : d # c =>
             serves'[d] = serves[d] /\ command'[d] = command[d]
    BY DEF Served, SessionTypes
  <2>2. ~Leases(c) /\ ~Leases(c)'
    BY <2>1 DEF Leases
  <2>3. engine[serves[c]] = "out"
    BY <2>1, <2>2, PauseAssumption DEF LeaseOwned
  <2> QED
    BY <2>1, <2>2, <2>3, LeasesKept
<1>3. OperationsCovered'
  BY DEF SessionTypes, OperationsCovered, InSession, Served
<1>4. QuietBetween'
  BY DEF SessionTypes, QuietBetween, OperationsCovered, InSession, Goroutine
<1>5. CredentialStands'
  BY DEF SessionTypes, CredentialStands, Served
<1>6. Served'
  BY DEF SessionTypes, Served
<1> QED
  BY <1>1, <1>2, <1>3, <1>4, <1>5, <1>6

LEMMA CancelKeeps ==
  ASSUME Ind, NEW c \in Command, Cancel(c)
  PROVE  Session'
<1> USE DEF Ind, Session, Cancel, vars
<1>1. SessionTypes'
  BY DEF SessionTypes, CommandStates, Stages, Goroutine
<1>2. LeaseOwned'
  BY DEF SessionTypes, LeaseOwned, Leases, Served
<1>3. OperationsCovered'
  BY DEF SessionTypes, OperationsCovered, InSession, Served
<1>4. QuietBetween'
  BY DEF SessionTypes, QuietBetween, OperationsCovered, InSession, Goroutine
<1>5. CredentialStands'
  BY DEF SessionTypes, CredentialStands, Served
<1>6. Served'
  BY DEF SessionTypes, Served
<1> QED
  BY <1>1, <1>2, <1>3, <1>4, <1>5, <1>6

LEMMA ValidateActionKeeps ==
  ASSUME Ind, NEW c \in Command, ValidateAction(c)
  PROVE  Session'
<1> USE DEF Ind, Session, ValidateAction, Proceed, vars
<1>1. SessionTypes'
  BY DEF SessionTypes, CommandStates, Stages, Goroutine
<1>2. LeaseOwned'
  BY DEF SessionTypes, LeaseOwned, Leases, Served
<1>3. OperationsCovered'
  BY DEF SessionTypes, OperationsCovered, InSession, Served
<1>4. QuietBetween'
  BY DEF SessionTypes, QuietBetween, OperationsCovered, InSession, Goroutine
<1>5. CredentialStands'
  BY DEF SessionTypes, CredentialStands, Served
<1>6. Served'
  BY DEF SessionTypes, Served
<1> QED
  BY <1>1, <1>2, <1>3, <1>4, <1>5, <1>6

LEMMA LockHostsKeeps ==
  ASSUME Ind, NEW c \in Command, LockHosts(c)
  PROVE  Session'
<1> USE DEF Ind, Session, LockHosts, Proceed, vars
<1>1. SessionTypes'
  BY DEF SessionTypes, CommandStates, Stages, Goroutine
<1>2. LeaseOwned'
  BY DEF SessionTypes, LeaseOwned, Leases, Served
<1>3. OperationsCovered'
  BY DEF SessionTypes, OperationsCovered, InSession, Served
<1>4. QuietBetween'
  BY DEF SessionTypes, QuietBetween, OperationsCovered, InSession, Goroutine
<1>5. CredentialStands'
  BY DEF SessionTypes, CredentialStands, Served
<1>6. Served'
  BY DEF SessionTypes, Served
<1> QED
  BY <1>1, <1>2, <1>3, <1>4, <1>5, <1>6

LEMMA RotateCredentialsKeeps ==
  ASSUME Ind, NEW c \in Command, RotateCredentials(c)
  PROVE  Session'
<1> USE DEF Ind, Session, RotateCredentials, Proceed, vars
<1>1. SessionTypes'
  BY DEF SessionTypes, CommandStates, Stages, Goroutine
<1>2. LeaseOwned'
  BY DEF SessionTypes, LeaseOwned, Leases, Served
<1>3. OperationsCovered'
  BY DEF SessionTypes, OperationsCovered, InSession, Served
<1>4. QuietBetween'
  BY DEF SessionTypes, QuietBetween, OperationsCovered, InSession, Goroutine
<1>5. CredentialStands'
  <2>1. Leases(c)
    BY DEF Leases
  <2>2. pause' \in {NoOne, serves'[c]}
    BY DEF CredentialStands
  <2> QED
    BY <2>1, <2>2, CredentialsKept DEF SessionTypes
<1>6. Served'
  BY DEF SessionTypes, Served
<1> QED
  BY <1>1, <1>2, <1>3, <1>4, <1>5, <1>6

LEMMA CloseKeeps ==
  ASSUME Ind, NEW c \in Command, Close(c)
  PROVE  Session'
<1> USE DEF Ind, Session, Close, CloseState, Enter, vars
<1>1. SessionTypes'
  BY DEF SessionTypes, CommandStates, Stages, Goroutine
<1>2. LeaseOwned'
  BY DEF SessionTypes, LeaseOwned, Leases, Served
<1>3. OperationsCovered'
  BY DEF SessionTypes, OperationsCovered, InSession, Served
<1>4. QuietBetween'
  BY DEF SessionTypes, QuietBetween, OperationsCovered, InSession, Goroutine
<1>5. CredentialStands'
  BY DEF SessionTypes, CredentialStands, Served
<1>6. Served'
  BY DEF SessionTypes, Served
<1> QED
  BY <1>1, <1>2, <1>3, <1>4, <1>5, <1>6

LEMMA DrainKeeps ==
  ASSUME Ind, NEW c \in Command, Drain(c)
  PROVE  Session'
<1> USE DEF Ind, Session, Drain, Enter, vars
<1>1. SessionTypes'
  BY DEF SessionTypes, CommandStates, Stages, Goroutine
<1>2. LeaseOwned'
  BY DEF SessionTypes, LeaseOwned, Leases, Served
<1>3. OperationsCovered'
  <2>1. closed[c]
    BY DEF Served
  <2>2. \A g \in Goroutine : op[c][g] = "idle"
    BY <2>1, SessionAssumption DEF OperationsCovered
  <2> QED
    BY <2>2 DEF SessionTypes, OperationsCovered, InSession
<1>4. QuietBetween'
  BY DEF SessionTypes, QuietBetween, OperationsCovered, InSession, Goroutine
<1>5. CredentialStands'
  BY DEF SessionTypes, CredentialStands, Served
<1>6. Served'
  BY DEF SessionTypes, Served
<1> QED
  BY <1>1, <1>2, <1>3, <1>4, <1>5, <1>6

LEMMA ReleaseLeaseKeeps ==
  ASSUME Ind, NEW c \in Command, ReleaseLease(c)
  PROVE  Session'
<1> USE DEF Ind, Session, ReleaseLease, Enter, StopEngine, LeaveEngine
<1>1. SessionTypes'
  BY DEF SessionTypes, CommandStates, Stages, Goroutine
<1>2. LeaseOwned'
  <2>1. serves[c] \in Migration /\ StopEngine(serves[c])
    BY DEF Served
  <2>2. /\ engine'[serves[c]] = "out"
        /\ \A n \in Migration : n # serves[c] => engine'[n] = engine[n]
    BY <2>1, StopEffects DEF PauseInv
  <2>3. ~Leases(c)'
    BY DEF Leases, SessionTypes
  <2> QED
    BY <2>2, <2>3, LeasesKept DEF SessionTypes
<1>3. OperationsCovered'
  BY DEF SessionTypes, OperationsCovered, InSession, Served
<1>4. QuietBetween'
  <2>1. serves[c] \in Migration /\ StopEngine(serves[c])
    BY DEF Served
  <2>2. /\ engine'[serves[c]] = "out"
        /\ \A n \in Migration : n # serves[c] => engine'[n] = engine[n]
    BY <2>1, StopEffects DEF PauseInv
  <2> QED
    BY <2>2, QuietKept DEF SessionTypes
<1>5. CredentialStands'
  BY DEF SessionTypes, CredentialStands, Served
<1>6. Served'
  BY DEF SessionTypes, Served
<1> QED
  BY <1>1, <1>2, <1>3, <1>4, <1>5, <1>6

LEMMA WorkKeeps ==
  ASSUME Ind, NEW c \in Command, Work(c)
  PROVE  Session'
<1> USE DEF Ind, Session, Work, local
<1>1. SessionTypes'
  BY DEF SessionTypes, CommandStates, Stages, Goroutine
<1>2. LeaseOwned'
  <2>1. serves[c] \in Migration /\ Leases(c)
    BY DEF Served, Leases, OperationsCovered, InSession
  <2>2. /\ engine'[serves[c]] # "out" /\ pause' \in {pause, serves[c], NoOne}
        /\ \A n \in Migration : n # serves[c] => engine'[n] = engine[n]
    BY <2>1, OperationEffects DEF PauseInv
  <2>3. Leases(c)'
    BY <2>1 DEF Leases
  <2> QED
    BY <2>2, <2>3, LeasesKept
<1>3. OperationsCovered'
  BY DEF SessionTypes, OperationsCovered, InSession, Served
<1>4. QuietBetween'
  <2>1. serves[c] \in Migration /\ Leases(c)
    BY DEF Served, Leases, OperationsCovered, InSession
  <2>2. /\ engine'[serves[c]] # "out" /\ pause' \in {pause, serves[c], NoOne}
        /\ \A n \in Migration : n # serves[c] => engine'[n] = engine[n]
    BY <2>1, OperationEffects DEF PauseInv
  <2> QED
    BY <2>2, QuietKept
<1>5. CredentialStands'
  <2>1. serves[c] \in Migration /\ Leases(c)
    BY DEF Served, Leases, OperationsCovered, InSession
  <2>2. /\ engine'[serves[c]] # "out" /\ pause' \in {pause, serves[c], NoOne}
        /\ \A n \in Migration : n # serves[c] => engine'[n] = engine[n]
    BY <2>1, OperationEffects DEF PauseInv
  <2> QED
    BY <2>1, <2>2, CredentialsKept DEF CredentialStands
<1>6. Served'
  BY DEF SessionTypes, Served
<1> QED
  BY <1>1, <1>2, <1>3, <1>4, <1>5, <1>6

LEMMA KillKeeps ==
  ASSUME Ind, NEW c \in Command, Kill(c)
  PROVE  Session'
<1> USE DEF Ind, Session, Kill, Enter, Fresh, Idle
<1>1. SessionTypes'
  BY DEF SessionTypes, CommandStates, Stages, Goroutine
<1>2. LeaseOwned'
  <2>1. /\ serves[c] \in Migration /\ serves'[c] = NoOne /\ command'[c] = "out"
        /\ pause' = pause
        /\ \A d \in Command : d # c =>
             /\ serves'[d] = serves[d] /\ command'[d] = command[d]
             /\ op'[d] = op[d] /\ stage'[d] = stage[d] /\ mode'[d] = mode[d]
    BY DEF Served, SessionTypes, vars, StopEngine, LeaveEngine
  <2>2. /\ engine'[serves[c]] = "out"
        /\ \A n \in Migration : n # serves[c] => engine'[n] = engine[n]
    <3>1. CASE Leases(c)
      BY <2>1, <3>1, StopEffects DEF PauseInv
    <3>2. CASE ~Leases(c)
      <4>1. engine[serves[c]] = "out"
        BY <2>1, <3>2, PauseAssumption DEF LeaseOwned
      <4> QED
        BY <3>2, <4>1 DEF vars
    <3> QED
      BY <3>1, <3>2
  <2>3. ~Leases(c)'
    BY <2>1 DEF Leases
  <2> QED
    BY <2>1, <2>2, <2>3, LeasesKept
<1>3. OperationsCovered'
  BY DEF SessionTypes, OperationsCovered, InSession, Served
<1>4. QuietBetween'
  <2>1. /\ serves[c] \in Migration /\ serves'[c] = NoOne /\ command'[c] = "out"
        /\ pause' = pause
        /\ \A d \in Command : d # c =>
             /\ serves'[d] = serves[d] /\ command'[d] = command[d]
             /\ op'[d] = op[d] /\ stage'[d] = stage[d] /\ mode'[d] = mode[d]
    BY DEF Served, SessionTypes, vars, StopEngine, LeaveEngine
  <2>2. /\ engine'[serves[c]] = "out"
        /\ \A n \in Migration : n # serves[c] => engine'[n] = engine[n]
    <3>1. CASE Leases(c)
      BY <2>1, <3>1, StopEffects DEF PauseInv
    <3>2. CASE ~Leases(c)
      <4>1. engine[serves[c]] = "out"
        BY <2>1, <3>2, PauseAssumption DEF LeaseOwned
      <4> QED
        BY <3>2, <4>1 DEF vars
    <3> QED
      BY <3>1, <3>2
  <2> QED
    BY <2>1, <2>2, QuietKept
<1>5. CredentialStands'
  <2>1. /\ command'[c] = "out" /\ pause' = pause /\ device' = device
        /\ \A d \in Command : d # c =>
             /\ serves'[d] = serves[d] /\ command'[d] = command[d]
             /\ stage'[d] = stage[d] /\ mode'[d] = mode[d]
    BY DEF SessionTypes, vars, StopEngine, LeaveEngine
  <2> QED
    BY <2>1, CredentialsKept
<1>6. Served'
  BY DEF SessionTypes, Served
<1> QED
  BY <1>1, <1>2, <1>3, <1>4, <1>5, <1>6

LEMMA BeginKeeps ==
  ASSUME Ind, NEW c \in Command, NEW g \in Goroutine, Begin(c, g)
  PROVE  Session'
<1> USE DEF Ind, Session, Begin, MayBegin, Usable, vars
<1>1. SessionTypes'
  BY DEF SessionTypes, CommandStates, Stages, Goroutine
<1>2. LeaseOwned'
  BY DEF SessionTypes, LeaseOwned, Leases, Served
<1>3. OperationsCovered'
  <2>1. \A h \in Goroutine : op[c][h] = "idle"
    BY SessionAssumption DEF OperationsCovered
  <2>2. InSession(c) /\ ~closed[c]
    BY DEF InSession, Served
  <2>3. \A d \in Command : d # c => op'[d] = op[d] /\ active'[d] = active[d]
    BY DEF SessionTypes
  <2>4. /\ active'[c] = g /\ \A h \in Goroutine : h # g => op'[c][h] = "idle"
    BY <2>1 DEF SessionTypes
  <2>5. \A d \in Command : InSession(d)' <=> InSession(d)
    BY DEF InSession
  <2> QED
    BY <2>2, <2>3, <2>4, <2>5 DEF OperationsCovered
<1>4. QuietBetween'
  BY DEF SessionTypes, QuietBetween, OperationsCovered, InSession, Goroutine
<1>5. CredentialStands'
  BY DEF SessionTypes, CredentialStands, Served
<1>6. Served'
  BY DEF SessionTypes, Served
<1> QED
  BY <1>1, <1>2, <1>3, <1>4, <1>5, <1>6

LEMMA CheckLeaseKeeps ==
  ASSUME Ind, NEW c \in Command, NEW g \in Goroutine, CheckLease(c, g)
  PROVE  Session'
<1> USE DEF Ind, Session, CheckLease, vars
<1>1. SessionTypes'
  BY DEF SessionTypes, CommandStates, Stages, Goroutine
<1>2. LeaseOwned'
  BY DEF SessionTypes, LeaseOwned, Leases, Served
<1>3. OperationsCovered'
  BY DEF SessionTypes, OperationsCovered, InSession, Served
<1>4. QuietBetween'
  BY DEF SessionTypes, QuietBetween, OperationsCovered, InSession, Goroutine
<1>5. CredentialStands'
  BY DEF SessionTypes, CredentialStands, Served
<1>6. Served'
  BY DEF SessionTypes, Served
<1> QED
  BY <1>1, <1>2, <1>3, <1>4, <1>5, <1>6

LEMMA EndKeeps ==
  ASSUME Ind, NEW c \in Command, NEW g \in Goroutine, End(c, g)
  PROVE  Session'
<1> USE DEF Ind, Session, End
<1>1. SessionTypes'
  BY DEF SessionTypes, CommandStates, Stages, Goroutine
<1>2. LeaseOwned'
  <2>1. serves[c] \in Migration /\ Leases(c) /\ InSession(c)
    BY DEF Served, Leases, OperationsCovered, InSession
  <2>2. engine[serves[c]] # "out"
    BY <2>1 DEF LeaseOwned
  <2>3. /\ engine'[serves[c]] = "leased" /\ pause' \in {pause, serves[c], NoOne}
        /\ \A n \in Migration : n # serves[c] => engine'[n] = engine[n]
    <3>1. CASE engine[serves[c]] = "leased"
      BY <3>1 DEF vars
    <3>2. CASE engine[serves[c]] # "leased"
      BY <2>1, <3>2, OperationEffects DEF PauseInv
    <3> QED
      BY <3>1, <3>2
  <2>4. Leases(c)'
    BY <2>1 DEF Leases
  <2> QED
    BY <2>3, <2>4, LeasesKept
<1>3. OperationsCovered'
  BY DEF SessionTypes, OperationsCovered, InSession, Served
<1>4. QuietBetween'
  <2>1. serves[c] \in Migration /\ Leases(c) /\ InSession(c)
    BY DEF Served, Leases, OperationsCovered, InSession
  <2>2. engine[serves[c]] # "out"
    BY <2>1 DEF LeaseOwned
  <2>3. /\ engine'[serves[c]] = "leased" /\ pause' \in {pause, serves[c], NoOne}
        /\ \A n \in Migration : n # serves[c] => engine'[n] = engine[n]
    <3>1. CASE engine[serves[c]] = "leased"
      BY <3>1 DEF vars
    <3>2. CASE engine[serves[c]] # "leased"
      BY <2>1, <3>2, OperationEffects DEF PauseInv
    <3> QED
      BY <3>1, <3>2
  <2> QED
    BY <2>3, QuietKept DEF SessionTypes
<1>5. CredentialStands'
  <2>1. serves[c] \in Migration /\ Leases(c) /\ InSession(c)
    BY DEF Served, Leases, OperationsCovered, InSession
  <2>2. engine[serves[c]] # "out"
    BY <2>1 DEF LeaseOwned
  <2>3. /\ engine'[serves[c]] = "leased" /\ pause' \in {pause, serves[c], NoOne}
        /\ \A n \in Migration : n # serves[c] => engine'[n] = engine[n]
    <3>1. CASE engine[serves[c]] = "leased"
      BY <3>1 DEF vars
    <3>2. CASE engine[serves[c]] # "leased"
      BY <2>1, <3>2, OperationEffects DEF PauseInv
    <3> QED
      BY <3>1, <3>2
  <2> QED
    BY <2>1, <2>3, CredentialsKept DEF CredentialStands
<1>6. Served'
  BY DEF SessionTypes, Served
<1> QED
  BY <1>1, <1>2, <1>3, <1>4, <1>5, <1>6


LEMMA WriterKeeps ==
  ASSUME Ind, NEW w \in Writer, Write(w) \/ RotateByWriter(w)
  PROVE  Session'
<1> USE DEF Ind, Session
<1>1. UNCHANGED <<local, engine, pause>>
  BY DEF Write, RotateByWriter, vars, WriterStep, Guard, AcquireWriter, GuardAgain,
     LeaveWriter, SetWriter
<1>2. device' = device \/ (device' = w /\ w \in Shared)
  BY DEF Write, RotateByWriter, Shared
<1>3. SessionTypes'
  BY <1>1, <1>2 DEF SessionTypes, local
<1>4. LeaseOwned' /\ OperationsCovered' /\ QuietBetween' /\ Served'
  BY <1>1 DEF local, LeaseOwned, Leases, OperationsCovered, InSession, QuietBetween, Served
<1>5. CredentialStands'
  <2>1. ASSUME NEW c \in Command, command[c] = "open"
        PROVE  device' = device
    <3>1. engine[serves[c]] # "out" /\ serves[c] \in Migration
      BY <2>1, OneLease DEF Leases
    <3>2. Shared = {}
      BY <3>1 DEF PauseInv, OneCommand, Exclusive
    <3> QED
      BY <1>2, <3>2
  <2> QED
    BY <1>1, <2>1 DEF local, CredentialStands
<1> QED
  BY <1>3, <1>4, <1>5

LEMMA LosePowerKeeps ==
  ASSUME Ind, LosePower
  PROVE  Session'
<1> USE DEF Ind, Session, LosePower, Idle
<1>1. SessionTypes'
  BY DEF SessionTypes, CommandStates, Stages, Goroutine
<1>2. \A c \in Command : command'[c] = "out" /\ serves'[c] = NoOne /\ op'[c] = Idle
                         /\ stage'[c] = "start" /\ mode'[c] = "none"
  OBVIOUS
<1>3. \A m \in Migration : engine'[m] = "out"
  BY DEF PowerLoss
<1>4. LeaseOwned' /\ QuietBetween' /\ CredentialStands' /\ Served'
  BY <1>2, <1>3, PauseAssumption DEF LeaseOwned, Leases, QuietBetween, CredentialStands, Served
<1>5. OperationsCovered'
  BY <1>2 DEF OperationsCovered
<1> QED
  BY <1>1, <1>4, <1>5

LEMMA SessionInitInd == SessionInit => Ind
<1> SUFFICES ASSUME SessionInit PROVE Ind
  OBVIOUS
<1> USE DEF SessionInit, Init
<1>1. PauseInv
  BY DEF PauseInv, TypeOK, WriterStates, EngineStates, OneCommand, Exclusive, Shared,
     OwnPause, Settled, AdmittedUnpaused
<1>2. SessionTypes /\ Served
  BY DEF SessionTypes, Served, CommandStates, Stages, Goroutine, Idle
<1>3. LeaseOwned /\ QuietBetween /\ CredentialStands
  BY DEF LeaseOwned, Leases, QuietBetween, CredentialStands
<1>4. OperationsCovered
  BY DEF OperationsCovered, Idle
<1> QED
  BY <1>1, <1>2, <1>3, <1>4 DEF Ind, Session

\* What a session does to the pause and the lease is a step of MigrationPause.
LEMMA StepOfPause ==
  ASSUME Ind, [SessionNext]_svars
  PROVE  [Next]_vars
<1>1. CASE UNCHANGED svars
  BY <1>1 DEF svars
<1>2. CASE LosePower
  BY <1>2 DEF LosePower, Next
<1>3. ASSUME NEW w \in Writer, Write(w) \/ RotateByWriter(w)
      PROVE  [Next]_vars
  BY <1>3 DEF Write, RotateByWriter, Next
<1>4. ASSUME NEW c \in Command, CommandStep(c)
      PROVE  [Next]_vars
  <2>1. ASSUME NEW m \in Migration, EngineStep(m)
        PROVE  Next
    BY <2>1 DEF Next
  <2>2. command[c] # "out" => serves[c] \in Migration
    BY DEF Ind, Session, Served
  <2>3. CASE TakeLease(c) \/ ReleaseLease(c) \/ Kill(c)
    BY <2>1, <2>2, <2>3 DEF TakeLease, ReleaseLease, Kill, EngineStep
  <2>4. CASE Work(c)
    <3>1. command[c] # "out"
      BY <2>4 DEF Work, Ind, Session, OperationsCovered, InSession
    <3> QED
      BY <2>1, <2>2, <2>4, <3>1 DEF Work, OperationStep, EngineStep
  <2>5. ASSUME NEW g \in Goroutine, End(c, g)
        PROVE  [Next]_vars
    <3>1. command[c] # "out"
      BY <2>5 DEF End, Ind, Session, OperationsCovered, InSession
    <3> QED
      BY <2>1, <2>2, <2>5, <3>1 DEF End, EngineStep
  <2>6. CASE \/ Coordinate(c) \/ Leave(c) \/ Cancel(c) \/ ValidateAction(c) \/ LockHosts(c)
             \/ RotateCredentials(c) \/ Close(c) \/ Drain(c)
             \/ \E g \in Goroutine : Begin(c, g) \/ CheckLease(c, g)
    BY <2>6 DEF Coordinate, Leave, Cancel, ValidateAction, LockHosts, RotateCredentials,
       Proceed, Close, CloseState, Drain, Begin, CheckLease
  <2> QED
    BY <1>4, <2>3, <2>4, <2>5, <2>6 DEF CommandStep
<1> QED
  BY <1>1, <1>2, <1>3, <1>4 DEF SessionNext

LEMMA IndStep ==
  ASSUME ~ChildrenOutlive, LinkSettles, Ind, [SessionNext]_svars
  PROVE  Ind'
<1>1. PauseInv'
  <2>1. CASE Next
    BY <2>1, PauseAssumption, WriterPreserves, EnginePreserves, PowerLossPreserves
       DEF Next, Ind
  <2>2. CASE UNCHANGED vars
    BY <2>2 DEF vars, Ind, PauseInv, TypeOK, OneCommand, Exclusive, Shared, OwnPause, Settled,
       AdmittedUnpaused
  <2> QED
    BY <2>1, <2>2, StepOfPause
<1>2. Session'
  <2>1. CASE UNCHANGED svars
    BY <2>1 DEF svars, vars, local, Ind, Session, SessionTypes, LeaseOwned, Leases,
       OperationsCovered, InSession, QuietBetween, CredentialStands, Served
  <2>2. ASSUME NEW c \in Command, CommandStep(c)
        PROVE  Session'
    BY <2>2, CoordinateKeeps, TakeLeaseKeeps, LeaveKeeps, CancelKeeps, ValidateActionKeeps,
       LockHostsKeeps, RotateCredentialsKeeps, CloseKeeps, DrainKeeps, ReleaseLeaseKeeps,
       WorkKeeps, KillKeeps, BeginKeeps, CheckLeaseKeeps, EndKeeps DEF CommandStep
  <2> QED
    BY <2>1, <2>2, WriterKeeps, LosePowerKeeps DEF SessionNext
<1> QED
  BY <1>1, <1>2 DEF Ind

LEMMA IndHolds ==
  ASSUME ~ChildrenOutlive, LinkSettles PROVE SessionSpec => []Ind
<1>1. Ind /\ [SessionNext]_svars => Ind'
  BY IndStep
<1> QED
  BY <1>1, SessionInitInd, PTL DEF SessionSpec

\* However many commands, helpers, writers, kills and power losses there are, the
\* operations of a session run one at a time and under its locks, close waits for
\* the one under way, and what the callback validated and rotated holds when it
\* acts.
THEOREM SessionHolds ==
  ASSUME ~ChildrenOutlive, LinkSettles
  PROVE  SessionSpec => []SessionInv
<1>1. Ind => SessionInv
  BY CredentialsHold DEF Ind, Session, SessionInv
<1> QED
  BY <1>1, IndHolds, PTL

\* Commands and sessions use the pause and the leases as MigrationPause allows:
\* what is proved of it holds of them.
LEMMA SessionRefinesPause ==
  ASSUME ~ChildrenOutlive, LinkSettles PROVE SessionSpec => Spec
<1>1. SessionInit => Init
  BY DEF SessionInit
<1>2. Ind /\ [SessionNext]_svars => [Next]_vars
  BY StepOfPause
<1> QED
  BY <1>1, <1>2, IndHolds, PTL DEF SessionSpec, Spec

\* With sessions, helpers and rotations a pause still stands until its migration is
\* proved, and no writer is admitted meanwhile.
THEOREM SessionKeepsPause ==
  ASSUME ~ChildrenOutlive, LinkSettles PROVE SessionSpec => []PauseInv
BY SessionRefinesPause, PauseHolds, PTL

\* With sessions the writers and migrations still exclude each other as
\* WriteAdmission promises.
THEOREM SessionAdmits ==
  ASSUME ~ChildrenOutlive, LinkSettles PROVE SessionSpec => ImplementsAdmission
BY SessionRefinesPause, AdmissionImplemented, PTL
=============================================================================
