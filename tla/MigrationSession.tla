-------------------------- MODULE MigrationSession --------------------------
(***************************************************************************)
(* The commands of state migrations with their processes and goroutines:   *)
(* cmd/configsctl/migrationcoordinator.go decides whether a command runs   *)
(* its action alone or inside a session, and internal/statemigration's     *)
(* session.go keeps one executor lock and one exclusive writer lease over  *)
(* all the operations of a session.  What an operation does with the pause *)
(* and the backends are the actions of MigrationPause, which also brings   *)
(* the ordinary writers; MigrationCredentials derives what a command       *)
(* rotates.                                                                *)
(*                                                                         *)
(* The callback of a session runs its operations one after the other.  As  *)
(* the tests of session.go do, it may start a helper goroutine that runs   *)
(* operations of its own and may outlive the callback.                     *)
(***************************************************************************)
EXTENDS MigrationPause, MigrationCredentials

CONSTANTS
  Command,         \* processes that run a migration command
  Nobody,          \* neither a command, a writer nor a goroutine
  Configurations,  \* the bindings that a command may find
  Moves,           \* the moves of the manifests
  Inherited        \* the environment of a workspace before it is prepared

VARIABLES
  command,   \* command[c]: what the process of c holds
  serves,    \* serves[c]: the migration that c works on
  mode,      \* mode[c]: whether c opens a session, and what it rotates and runs
  stage,     \* stage[c]: how far the callback of c has come
  op,        \* op[c][g]: the operation of goroutine g
  active,    \* active[c]: the goroutine whose operation uses the session
  awaited,   \* awaited[c]: the operation that close waits for
  closed,    \* closed[c]: the session takes no further operation
  canceled,  \* canceled[c]: the context of the session is canceled
  device     \* who rotated the credential of the device last

local == <<command, serves, mode, stage, op, active, awaited, closed, canceled>>
svars == <<vars, local, device>>

Goroutine == {"callback", "helper"}

ASSUME SessionAssumption ==
  /\ Nobody \notin Goroutine /\ Nobody \notin Command /\ Nobody \notin Writer
  /\ Command \cap Writer = {}
  /\ \A bindings \in Configurations :
       Len(bindings) \in Nat /\ DOMAIN bindings = 1..Len(bindings)

Idle == [g \in Goroutine |-> "idle"]

CommandStates ==
  {"out", "executor", "alone", "open", "closing", "closed", "leaving"}
Stages == {"start", "validated", "locked", "ready", "once", "twice", "failed"}

\* What a process knows before it starts and after it ends.
Fresh(c) ==
  /\ serves' = [serves EXCEPT ![c] = NoOne]
  /\ mode' = [mode EXCEPT ![c] = "none"]
  /\ stage' = [stage EXCEPT ![c] = "start"]
  /\ op' = [op EXCEPT ![c] = Idle]
  /\ active' = [active EXCEPT ![c] = Nobody]
  /\ awaited' = [awaited EXCEPT ![c] = Nobody]
  /\ closed' = [closed EXCEPT ![c] = FALSE]
  /\ canceled' = [canceled EXCEPT ![c] = FALSE]

SessionInit ==
  /\ Init
  /\ command = [c \in Command |-> "out"]
  /\ serves = [c \in Command |-> NoOne]
  /\ mode = [c \in Command |-> "none"]
  /\ stage = [c \in Command |-> "start"]
  /\ op = [c \in Command |-> Idle]
  /\ active = [c \in Command |-> Nobody]
  /\ awaited = [c \in Command |-> Nobody]
  /\ closed = [c \in Command |-> FALSE]
  /\ canceled = [c \in Command |-> FALSE]
  /\ device = Nobody

Enter(c, s) == command' = [command EXCEPT ![c] = s]
InSession(c) == command[c] \in {"open", "closing"}
Leases(c) == command[c] \in {"alone", "open", "closing", "closed"}

-----------------------------------------------------------------------------
(***************************************************************************)
(* The start of a command.                                                 *)
(***************************************************************************)

\* prepareMigrationCredentials; a configuration that is refused ends the
\* command.  Prepare and restore do without credentials; an action other than
\* transfer that has no account to rotate runs alone as well.
AcceptedConfigurations ==
  {bindings \in Configurations : Accepted(bindings, Moves, Inherited)}

\* An action runs alone, in a session, or in a session that rotates accounts.
Modes ==
  {"alone"} \cup {IF Deployments(bindings) = {} THEN "session" ELSE "rotates" :
                   bindings \in AcceptedConfigurations}

\* A refused configuration or a taken executor lock (Engine.acquire: flock
\* LOCK_EX | LOCK_NB on executor.lock of the migration directory) ends the
\* command before it changed anything.
Coordinate(c) ==
  /\ command[c] = "out"
  /\ \E m \in Migration : /\ \A d \in Command : serves[d] # m
                          /\ serves' = [serves EXCEPT ![c] = m]
  /\ Enter(c, "executor")
  /\ UNCHANGED <<vars, mode, stage, op, active, awaited, closed, canceled, device>>

\* acquirePauseLease; WithSession then makes the session, asks it whether the
\* context was canceled meanwhile, and enters the callback.
TakeLease(c) ==
  /\ command[c] = "executor"
  /\ AcquireExclusive(serves[c])
  /\ \E chosen \in Modes, late \in BOOLEAN :
       /\ chosen = "alone" => ~late
       /\ mode' = [mode EXCEPT ![c] = chosen]
       /\ Enter(c, IF chosen = "alone" THEN "alone" ELSE IF late THEN "closing" ELSE "open")
       /\ closed' = [closed EXCEPT ![c] = late]
       /\ canceled' = [canceled EXCEPT ![c] = late]
  /\ UNCHANGED <<serves, stage, op, active, awaited, device>>

\* Another process holds the lease; prepare and preflight need
\* the executor alone; or the deferred release of the executor.
Leave(c) ==
  /\ command[c] \in {"executor", "leaving"}
  /\ Enter(c, "out")
  /\ Fresh(c)
  /\ UNCHANGED <<vars, device>>

Cancel(c) ==
  /\ InSession(c) /\ ~canceled[c]
  /\ canceled' = [canceled EXCEPT ![c] = TRUE]
  /\ UNCHANGED <<vars, command, serves, mode, stage, op, active, awaited, closed, device>>

-----------------------------------------------------------------------------
(***************************************************************************)
(* The callback of the coordinator.                                        *)
(***************************************************************************)
Proceed(c, s) ==
  /\ stage' = [stage EXCEPT ![c] = s]
  /\ UNCHANGED <<vars, command, serves, mode, op, active, awaited, closed, canceled>>

Usable(c) == ~closed[c] /\ ~canceled[c] /\ active[c] = Nobody

\* ValidatePlanAction: an operation that reads the journal and the pause; the
\* pause of another migration refuses the action.
ValidateAction(c) ==
  /\ command[c] = "open" /\ stage[c] = "start"
  /\ Proceed(c, IF Usable(c) /\ pause \in {NoOne, serves[c]} THEN "validated" ELSE "failed")
  /\ UNCHANGED device

\* takeLocks for the hosts of the accounts: all of them or none.
LockHosts(c) ==
  /\ command[c] = "open" /\ stage[c] = "validated"
  /\ \/ Proceed(c, IF mode[c] = "rotates" THEN "locked" ELSE "ready")
     \/ mode[c] = "rotates" /\ Proceed(c, "failed")
  /\ UNCHANGED device

\* PrepareCredential for each account; a failure may come after the device has
\* taken the new password.
RotateCredentials(c) ==
  /\ command[c] = "open" /\ stage[c] = "locked"
  /\ \/ Proceed(c, "ready") /\ device' = c
     \/ Proceed(c, "failed") /\ device' \in {c, device}

\* The callback returns, with or without an error.
CloseState(c) ==
  /\ command[c] = "open" /\ op[c]["callback"] = "idle"
  /\ Enter(c, "closing")
  /\ closed' = [closed EXCEPT ![c] = TRUE]
  /\ stage' = [stage EXCEPT ![c] = "start"]
  /\ UNCHANGED <<vars, serves, mode, op, active, canceled, device>>

\* close marks the session and reads its operation under one lock.
Close(c) ==
  /\ CloseState(c)
  /\ awaited' = [awaited EXCEPT ![c] = active[c]]

\* close waits for the channel that the operation closes when it is over.
Drain(c) ==
  /\ command[c] = "closing"
  /\ awaited[c] # Nobody => op[c][awaited[c]] = "idle"
  /\ Enter(c, "closed")
  /\ awaited' = [awaited EXCEPT ![c] = Nobody]
  /\ canceled' = [canceled EXCEPT ![c] = FALSE]
  /\ UNCHANGED <<vars, serves, mode, stage, op, active, closed, device>>

\* The deferred releases: first the lease, then the executor.
ReleaseLease(c) ==
  /\ command[c] \in {"closed", "alone"}
  /\ StopEngine(serves[c])
  /\ Enter(c, "leaving")
  /\ mode' = [mode EXCEPT ![c] = "none"]
  /\ UNCHANGED <<serves, stage, op, active, awaited, closed, canceled, device>>

-----------------------------------------------------------------------------
(***************************************************************************)
(* Operations: Execute, Verify, Restore, VerifyRestored.                   *)
(***************************************************************************)

\* A transfer runs two operations, any other action one.
\* session.acquire: not closed, not canceled, and nobody else at work.
MayBegin(c, g) ==
  /\ command[c] # "out" /\ op[c][g] = "idle" /\ Usable(c)
  /\ \/ g = "helper" /\ command[c] = "open"
     \/ g = "callback" /\ stage[c] \in {"ready", "once"}

\* A bug to be found: an operation that starts does not take the session.
BeginShared(c, g) ==
  /\ MayBegin(c, g)
  /\ op' = [op EXCEPT ![c][g] = "begun"]
  /\ stage' = IF g = "helper" THEN stage
              ELSE [stage EXCEPT ![c] = IF @ = "ready" THEN "once" ELSE "twice"]
  /\ UNCHANGED <<vars, command, serves, mode, active, awaited, closed, canceled, device>>

Begin(c, g) ==
  /\ MayBegin(c, g)
  /\ op' = [op EXCEPT ![c][g] = "begun"]
  /\ active' = [active EXCEPT ![c] = g]
  /\ stage' = IF g = "helper" THEN stage
              ELSE [stage EXCEPT ![c] = IF @ = "ready" THEN "once" ELSE "twice"]
  /\ UNCHANGED <<vars, command, serves, mode, awaited, closed, canceled, device>>

\* acquirePauseLease of the operation asks the session once more.
CheckLease(c, g) ==
  /\ InSession(c) /\ op[c][g] = "begun" /\ ~closed[c] /\ ~canceled[c]
  /\ op' = [op EXCEPT ![c][g] = "running"]
  /\ UNCHANGED <<vars, command, serves, mode, stage, active, awaited, closed, canceled, device>>

OperationStep(m) ==
  \/ PublishPause(m) \/ SyncPause(m) \/ RequirePause(m) \/ WriteBackend(m)
  \/ SealPhase(m) \/ ReleasePause(m) \/ SyncRelease(m)

\* An operation that has its lease goes on until it is over, whatever happens
\* to the session.
Work(c) ==
  /\ command[c] = "alone" \/ \E g \in Goroutine : op[c][g] = "running"
  /\ OperationStep(serves[c])
  /\ UNCHANGED <<local, device>>

\* A bug to be found: the operation is over, and the session still counts it.
EndCounted(c, g) ==
  /\ op[c][g] # "idle"
  /\ op' = [op EXCEPT ![c][g] = IF awaited[c] = g THEN @ ELSE "idle"]
  /\ IF engine[serves[c]] = "leased" THEN UNCHANGED vars ELSE EndOperation(serves[c])
  /\ UNCHANGED <<command, serves, mode, stage, active, awaited, closed, canceled, device>>

\* The operation is over, with or without an error, and closes its channel.
End(c, g) ==
  /\ op[c][g] # "idle"
  /\ op' = [op EXCEPT ![c][g] = "idle"]
  /\ active' = [active EXCEPT ![c] = Nobody]
  /\ IF engine[serves[c]] = "leased" THEN UNCHANGED vars ELSE EndOperation(serves[c])
  /\ UNCHANGED <<command, serves, mode, stage, awaited, closed, canceled, device>>

-----------------------------------------------------------------------------
(***************************************************************************)
(* The rest of the system.                                                 *)
(***************************************************************************)

\* The process of a command is killed: the kernel drops both locks.
Kill(c) ==
  /\ command[c] # "out"
  /\ IF Leases(c) THEN StopEngine(serves[c]) ELSE UNCHANGED vars
  /\ Enter(c, "out")
  /\ Fresh(c)
  /\ UNCHANGED device

LosePower ==
  /\ PowerLoss
  /\ command' = [c \in Command |-> "out"]
  /\ serves' = [c \in Command |-> NoOne]
  /\ mode' = [c \in Command |-> "none"]
  /\ stage' = [c \in Command |-> "start"]
  /\ op' = [c \in Command |-> Idle]
  /\ active' = [c \in Command |-> Nobody]
  /\ awaited' = [c \in Command |-> Nobody]
  /\ closed' = [c \in Command |-> FALSE]
  /\ canceled' = [c \in Command |-> FALSE]
  /\ UNCHANGED device

Write(w) ==
  /\ WriterStep(w)
  /\ UNCHANGED <<local, device>>

\* The credential of an ordinary deployment, under the shared lease.
RotateByWriter(w) ==
  /\ writer[w] = "in"
  /\ device' = w
  /\ UNCHANGED <<vars, local>>

CommandStep(c) ==
  \/ Coordinate(c) \/ TakeLease(c) \/ Leave(c) \/ Cancel(c)
  \/ ValidateAction(c) \/ LockHosts(c) \/ RotateCredentials(c)
  \/ Close(c) \/ Drain(c) \/ ReleaseLease(c) \/ Work(c) \/ Kill(c)
  \/ \E g \in Goroutine : Begin(c, g) \/ CheckLease(c, g) \/ End(c, g)

SessionNext ==
  \/ \E c \in Command : CommandStep(c)
  \/ \E w \in Writer : Write(w) \/ RotateByWriter(w)
  \/ LosePower

SessionSpec == SessionInit /\ [][SessionNext]_svars

\* A process that has started goes on: the callback returns, operations end,
\* and the deferred releases run.
FairSession ==
  /\ SessionSpec
  /\ \A c \in Command :
       /\ WF_svars(TakeLease(c) \/ Leave(c))
       /\ WF_svars(Close(c)) /\ WF_svars(Drain(c)) /\ WF_svars(ReleaseLease(c))
       /\ \A g \in Goroutine : WF_svars(End(c, g))

-----------------------------------------------------------------------------
(***************************************************************************)
(* Properties.                                                             *)
(***************************************************************************)
SessionTypes ==
  /\ command \in [Command -> CommandStates]
  /\ serves \in [Command -> Migration \cup {NoOne}]
  /\ stage \in [Command -> Stages]
  /\ op \in [Command -> [Goroutine -> {"idle", "begun", "running"}]]
  /\ active \in [Command -> Goroutine \cup {Nobody}]
  /\ awaited \in [Command -> Goroutine \cup {Nobody}]
  /\ closed \in [Command -> BOOLEAN]
  /\ canceled \in [Command -> BOOLEAN]
  /\ device \in Command \cup Writer \cup {Nobody}

\* One process works on a migration, and the lease of a migration is held by
\* the process that works on it.
LeaseOwned ==
  /\ \A c, d \in Command : serves[c] = serves[d] /\ serves[c] # NoOne => c = d
  /\ \A m \in Migration :
       engine[m] # "out" <=> \E c \in Command : serves[c] = m /\ Leases(c)

\* One operation at a time uses the session, never without its lease, and an
\* operation that is under way when the session closes is the one it waits for.
OperationsCovered ==
  \A c \in Command, g \in Goroutine : op[c][g] # "idle" =>
    /\ active[c] = g /\ InSession(c)
    /\ closed[c] => awaited[c] = g
    /\ \A h \in Goroutine \ {g} : op[c][h] = "idle"

\* Nothing writes under the lease between operations.
QuietBetween ==
  \A m \in Migration : engine[m] \notin {"out", "leased"} =>
    \E c \in Command : serves[c] = m
      /\ (command[c] = "alone" \/ \E g \in Goroutine : op[c][g] = "running")

\* What the callback has validated and rotated is still so when it acts: no
\* other migration owns the pause, and the device takes the credential that the
\* environment of the workspaces holds.
CredentialStands ==
  \A c \in Command : command[c] = "open" =>
    /\ stage[c] \in {"validated", "locked", "ready"} => pause \in {NoOne, serves[c]}
    /\ mode[c] = "rotates" /\ stage[c] \in {"ready", "once", "twice"} => device = c

\* An accepted configuration covers what the action needs.
CredentialsReady ==
  \A bindings \in AcceptedConfigurations :
    EnvironmentReady(bindings, Inherited) /\ RotationCovered(bindings)

\* The operations of a session never run without its locks or together, and
\* what the callback checked and rotated holds for them: WithSession, acquire,
\* close and coordinateMigrationAction together.
SessionInv ==
  /\ SessionTypes /\ LeaseOwned /\ OperationsCovered /\ QuietBetween
  /\ CredentialStands /\ CredentialsReady

\* Every command that has started ends and gives back its locks: close waits
\* for operations, and nothing waits for close.
CommandsEnd == \A c \in Command : command[c] # "out" ~> command[c] = "out"
=============================================================================
