--------------------------- MODULE MigrationPause ---------------------------
(***************************************************************************)
(* How internal/migrationpause and internal/statemigration keep ordinary   *)
(* writers and state migrations apart on one controller.  Two files serve: *)
(* writers.lock, locked with flock by every writer (shared) and every      *)
(* migration command (exclusive) and released by the kernel when its       *)
(* process ends; and pause.json, the durable pause, which stays when the   *)
(* process that published it ends and names its migration.                 *)
(*                                                                         *)
(* A crash ends one process.  A power loss ends all of them and may undo a *)
(* change of the pause directory that was not synced.                      *)
(***************************************************************************)
EXTENDS FiniteSets

CONSTANTS
  Writer,           \* configsctl processes that may write infrastructure
  Migration,        \* state migrations: a manifest and its directory
  NoOne,            \* the owner of a pause that does not exist
  ChildrenOutlive,  \* a killed writer may leave its tofu child running
  LinkSettles       \* a pause whose publisher died before it was synced
                    \* reaches the disk before a later command uses it

ASSUME PauseAssumption ==
  /\ NoOne \notin Migration
  /\ ChildrenOutlive \in BOOLEAN
  /\ LinkSettles \in BOOLEAN

VARIABLES
  writer,   \* writer[w]: how far the writer has come
  engine,   \* engine[m]: how far the running command of a migration has come
  pause,    \* the owner that pause.json names
  disk,     \* the owner that pause.json names once power is lost
  moving    \* migrations that changed a backend and are not verified

vars == <<writer, engine, pause, disk, moving>>

WriterStates == {"out", "looked", "leased", "in", "orphan"}
EngineStates == {"out", "leased", "published", "working", "sealed", "removed"}

TypeOK ==
  /\ writer \in [Writer -> WriterStates]
  /\ engine \in [Migration -> EngineStates]
  /\ pause \in Migration \cup {NoOne}
  /\ disk \in Migration \cup {NoOne}
  /\ moving \in SUBSET Migration

\* The processes that hold writers.lock.
Shared == {w \in Writer : writer[w] \in {"leased", "in"}}
Exclusive == {m \in Migration : engine[m] # "out"}

Init ==
  /\ writer = [w \in Writer |-> "out"]
  /\ engine = [m \in Migration |-> "out"]
  /\ pause = NoOne
  /\ disk = NoOne
  /\ moving = {}

-----------------------------------------------------------------------------
(***************************************************************************)
(* An ordinary writer: look, lease, look again, write.                     *)
(***************************************************************************)
SetWriter(w, s) ==
  /\ writer' = [writer EXCEPT ![w] = s]
  /\ UNCHANGED <<engine, pause, disk, moving>>

\* Guard, before the lease.
Guard(w) ==
  /\ writer[w] = "out"
  /\ pause = NoOne
  /\ SetWriter(w, "looked")

\* flock LOCK_SH | LOCK_NB; a refusal ends the command.
AcquireWriter(w) ==
  /\ writer[w] = "looked"
  /\ SetWriter(w, IF Exclusive = {} THEN "leased" ELSE "out")

\* A bug to be found: the second look is left out.
GuardAgainNever(w) ==
  /\ writer[w] = "leased"
  /\ SetWriter(w, "in")

\* Guard again, under the lease.
GuardAgain(w) ==
  /\ writer[w] = "leased"
  /\ SetWriter(w, IF pause = NoOne THEN "in" ELSE "out")

\* The command ends, or its process is killed: the kernel drops the lease,
\* which the tofu child does not inherit.
LeaveWriter(w) ==
  /\ writer[w] # "out"
  /\ \/ SetWriter(w, "out")
     \/ ChildrenOutlive /\ writer[w] = "in" /\ SetWriter(w, "orphan")

-----------------------------------------------------------------------------
(***************************************************************************)
(* A command of a migration: execute, verify, restore or verify-restored.  *)
(***************************************************************************)

\* flock LOCK_EX | LOCK_NB
AcquireExclusive(m) ==
  /\ engine[m] = "out"
  /\ Shared = {} /\ Exclusive = {}
  /\ engine' = [engine EXCEPT ![m] = "leased"]
  /\ UNCHANGED <<writer, pause, disk, moving>>

\* A bug to be found: the temporary record replaces what is there.
PublishPauseReplacing(m) ==
  /\ engine[m] = "leased"
  /\ pause' = m
  /\ engine' = [engine EXCEPT ![m] = "published"]
  /\ UNCHANGED <<writer, disk, moving>>

\* pause: link the complete record under a name nobody owns.
PublishPause(m) ==
  /\ engine[m] = "leased"
  /\ pause = NoOne
  /\ pause' = m
  /\ engine' = [engine EXCEPT ![m] = "published"]
  /\ UNCHANGED <<writer, disk, moving>>

\* syncDirectory, after the pause was published.
SyncPause(m) ==
  /\ engine[m] = "published"
  /\ disk' = pause
  /\ engine' = [engine EXCEPT ![m] = "working"]
  /\ UNCHANGED <<writer, pause, moving>>

\* A pause exists already: only its owner may go on.  It is not synced again.
RequirePause(m) ==
  /\ engine[m] = "leased"
  /\ pause = m
  /\ engine' = [engine EXCEPT ![m] = "working"]
  /\ UNCHANGED <<writer, pause, disk, moving>>

\* A native state push of Execute or Restore.
WriteBackend(m) ==
  /\ engine[m] = "working"
  /\ moving' = moving \cup {m}
  /\ UNCHANGED <<writer, engine, pause, disk>>

\* Verify or VerifyRestored proved every state and saved that phase.
SealPhase(m) ==
  /\ engine[m] = "working"
  /\ moving' = moving \ {m}
  /\ engine' = [engine EXCEPT ![m] = "sealed"]
  /\ UNCHANGED <<writer, pause, disk>>

\* os.Remove of the pause
ReleasePause(m) ==
  /\ engine[m] = "sealed"
  /\ pause' = NoOne
  /\ engine' = [engine EXCEPT ![m] = "removed"]
  /\ UNCHANGED <<writer, disk, moving>>

\* syncDirectory, after the pause was removed
SyncRelease(m) ==
  /\ engine[m] = "removed"
  /\ disk' = pause
  /\ engine' = [engine EXCEPT ![m] = "leased"]
  /\ UNCHANGED <<writer, pause, moving>>

\* An operation ends, or the command fails or is killed at any point: the pause
\* and what it wrote stay.
LeaveEngine(m, s) ==
  /\ engine' = [engine EXCEPT ![m] = s]
  /\ disk' = IF LinkSettles /\ engine[m] = "published" THEN pause ELSE disk
  /\ UNCHANGED <<writer, pause, moving>>

\* One operation of several is over; the lease of its session stays.
EndOperation(m) ==
  /\ engine[m] \notin {"out", "leased"}
  /\ LeaveEngine(m, "leased")

\* The command ends: the kernel drops its lease.
StopEngine(m) ==
  /\ engine[m] # "out"
  /\ LeaveEngine(m, "out")

PowerLoss ==
  /\ writer' = [w \in Writer |-> "out"]
  /\ engine' = [m \in Migration |-> "out"]
  /\ pause' \in IF pause = disk THEN {pause} ELSE {pause, disk, NoOne}
  /\ disk' = pause'
  /\ UNCHANGED moving

-----------------------------------------------------------------------------
WriterStep(w) ==
  Guard(w) \/ AcquireWriter(w) \/ GuardAgain(w) \/ LeaveWriter(w)

EngineStep(m) ==
  \/ AcquireExclusive(m) \/ PublishPause(m) \/ SyncPause(m) \/ RequirePause(m)
  \/ WriteBackend(m) \/ SealPhase(m) \/ ReleasePause(m) \/ SyncRelease(m)
  \/ EndOperation(m) \/ StopEngine(m)

Next ==
  \/ \E w \in Writer : WriterStep(w)
  \/ \E m \in Migration : EngineStep(m)
  \/ PowerLoss

Spec == Init /\ [][Next]_vars

-----------------------------------------------------------------------------
(***************************************************************************)
(* Properties.                                                             *)
(***************************************************************************)

\* One command at a time holds the lease, and never together with a writer.
OneCommand ==
  /\ \A m, n \in Exclusive : m = n
  /\ Exclusive = {} \/ Shared = {}

\* A command that writes has its own pause, on disk.
OwnPause ==
  \A m \in Migration :
    /\ engine[m] \in {"published", "working", "sealed"} => pause = m
    /\ engine[m] \in {"working", "sealed"} \/ m \in moving => pause = m /\ disk = m
    /\ engine[m] = "sealed" => m \notin moving

\* A pause that nobody is publishing is on disk.
Settled == pause = NoOne \/ disk = pause \/ \E m \in Migration : engine[m] = "published"

\* No writer is admitted under a pause.
AdmittedUnpaused ==
  \A w \in Writer : writer[w] # "orphan" /\ (writer[w] = "in" => pause = NoOne)

\* The pause of a migration that has touched a backend stays, through every
\* crash and power loss, until that migration is proved, and nobody writes
\* meanwhile: the parts of this invariant together are inductive.
PauseInv == TypeOK /\ OneCommand /\ OwnPause /\ Settled /\ AdmittedUnpaused

Admitted == {w \in Writer : writer[w] \in {"in", "orphan"}}

Admission == INSTANCE WriteAdmission WITH admitted <- Admitted

\* The two looks, the leases and the pause file implement the admission of
\* writers that migrations rely on.
ImplementsAdmission == Admission!Spec

\* README.md: active writers prevent execution.
ActiveWritersPreventExecution ==
  Admitted # {} => \A m \in Migration : engine[m] # "working"

\* README.md: the durable pause blocks new mutations until verification
\* succeeds.
DurablePause == moving # {} => pause # NoOne
=============================================================================
