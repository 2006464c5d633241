----------------------------- MODULE Migration ------------------------------
(***************************************************************************)
(* The state migration engine of internal/statemigration.  A manifest      *)
(* assigns every resource instance a home workspace and a destination.     *)
(* prepare keeps encrypted snapshots of every state before and after the   *)
(* moves; execute pushes the prepared states one backend at a time;        *)
(* verify proves all of them and ends the pause; restore and               *)
(* verify-restored go back instead.  The journal is saved after each step, *)
(* and any command may end anywhere, by an error or by a crash, and be run *)
(* again.                                                                  *)
(*                                                                         *)
(* A state is its lineage, its serial, the instances it owns, and the      *)
(* revision ordinary writers gave its contents: the digests of StateInfo   *)
(* tell states apart by the last two.  Ordinary writers are admitted as    *)
(* WriteAdmission promises: not under the pause, and not while a command   *)
(* of the migration holds the exclusive lease.  The verdict on native      *)
(* plans is a choice.                                                      *)
(***************************************************************************)
EXTENDS Integers, FiniteSets

CONSTANTS
  Workspace,    \* the workspaces of the manifest
  Index,        \* Index[w]: the position of w in the manifest
  Instance,     \* the resource instances it assigns
  Home,         \* Home[i]: the workspace that owns i before the transfer
  Dest,         \* Dest[i]: the workspace that owns i after it
  Fresh,        \* workspaces whose backend has no state at first
  NoRecovery,   \* the journal has no inverse states
  Bumps,        \* by how much a push may raise the serial of its file
  MaxRev        \* bound of the model: ordinary writes of one workspace

\* What a state tells about itself, and the states a checkpoint names.
Lineages == {"none", "old", "local", "made"}

StateInfo == [lineage : Lineages, serial : Nat, owns : SUBSET Instance, rev : Nat]

EmptyState == [lineage |-> "none", serial |-> 0, owns |-> {}, rev |-> 0]

Checkpoint == [before : StateInfo, prepared : StateInfo, after : StateInfo]

ASSUME ManifestAssumption ==
  /\ Index \in [Workspace -> Nat]
  /\ \A v, w \in Workspace : Index[v] = Index[w] => v = w
  /\ Home \in [Instance -> Workspace \ Fresh]
  /\ Dest \in [Instance -> Workspace]
  /\ Fresh \subseteq Workspace
  /\ \A w \in Fresh : \E i \in Instance : Dest[i] = w
  /\ Home # Dest
  /\ NoRecovery \notin [Workspace -> Checkpoint]
  /\ Bumps \subseteq 0 .. 2 /\ Bumps # {}
  /\ MaxRev \in Nat

VARIABLES
  backend,    \* backend[w]: the state in the backend of w
  paused,     \* pause.json names this migration
  phase,      \* journal: Phase
  forward,    \* journal: States, a checkpoint for each workspace
  written,    \* journal: Written
  recovery,   \* journal: Recovery
  restored,   \* journal: Restored
  baseline,   \* journal: Baseline, "none", "original" or "forward"
  command,    \* the command that runs
  step,       \* how far it has come
  todo,       \* the workspaces its loop has left
  target      \* the workspaces whose push is under way, at most one

journal == <<phase, forward, written, recovery, restored, baseline>>
engine == <<command, step, todo, target>>
vars == <<backend, paused, journal, engine>>

-----------------------------------------------------------------------------
(***************************************************************************)
(* States, snapshots and pushes.                                           *)
(***************************************************************************)
Owned(layout, w) == {i \in Instance : layout[i] = w}

\* Two states with the same lineage, serial and digests.
SameState(left, right) == left = right

SameContent(left, right) == left.owns = right.owns /\ left.rev = right.rev

SamePayload(left, right) == left.lineage = right.lineage /\ SameContent(left, right)

\* The states a push may leave in a backend; none when it is refused.  An
\* absent backend may make its own lineage at serial 1.
Pushed(remote, f) ==
  LET kept == {[f EXCEPT !.serial = @ + b] : b \in Bumps}
  IN IF remote.lineage = "none"
     THEN kept \cup {[f EXCEPT !.lineage = "made", !.serial = 1]}
     ELSE IF /\ f.lineage = remote.lineage
             /\ \/ f.serial > remote.serial
                \/ f.serial = remote.serial /\ SameContent(f, remote)
          THEN kept
          ELSE {}

\* tofu state mv: a file that it changes gets a new serial.
Moved(base, owns) ==
  IF base.lineage = "none"
  THEN [lineage |-> "local", serial |-> 1, owns |-> owns, rev |-> 0]
  ELSE [lineage |-> base.lineage, owns |-> owns, rev |-> base.rev,
        serial |-> IF owns = base.owns THEN base.serial ELSE base.serial + 1]

\* A state that was pushed for checkpoint c, confirmed or not.
MatchesAfter(actual, c) ==
  IF c.after.lineage # "none"
  THEN SameState(actual, c.after)
  ELSE IF c.prepared.lineage = "none"
       THEN actual = EmptyState /\ c.before = EmptyState
       ELSE /\ actual.lineage # "none"
            /\ SameContent(actual, c.prepared)
            /\ \/ c.before.lineage = "none" /\ actual.serial = 1
               \/ /\ actual.lineage = c.prepared.lineage
                  /\ actual.serial >= c.before.serial
                  /\ actual.serial \in c.prepared.serial .. c.prepared.serial + 2

\* A bug to be found: the state is not compared with the one before.
UnwrittenByName(w) == w \notin written

\* A backend this migration has not written yet.
Unwritten(w) == w \notin written /\ SameState(backend[w], forward[w].before)

Unrestored(w) == w \notin restored /\ SameState(backend[w], recovery[w].before)

Init ==
  /\ backend = [w \in Workspace |->
                  IF w \in Fresh THEN EmptyState
                  ELSE [lineage |-> "old", serial |-> 1, owns |-> Owned(Home, w), rev |-> 0]]
  /\ paused = FALSE
  /\ phase = "none"
  /\ forward = [w \in Workspace |-> [before |-> EmptyState, prepared |-> EmptyState,
                                     after |-> EmptyState]]
  /\ written = {}
  /\ recovery = NoRecovery
  /\ restored = {}
  /\ baseline = "none"
  /\ command = "none" /\ step = "none" /\ todo = {} /\ target = {}

-----------------------------------------------------------------------------
(***************************************************************************)
(* Outside the migration.                                                  *)
(***************************************************************************)
Idle == command = "none"

\* A state with new contents.
Rewritten(s) ==
  [lineage |-> IF s.lineage = "none" THEN "made" ELSE s.lineage,
   serial |-> s.serial + 1, owns |-> s.owns, rev |-> s.rev + 1]

\* An ordinary apply changes the contents of a state.
OrdinaryWrite(w) ==
  /\ Idle /\ ~paused
  /\ backend[w].rev < MaxRev
  /\ backend' = [backend EXCEPT ![w] = Rewritten(backend[w])]
  /\ UNCHANGED <<paused, journal, engine>>

\* A bug to be found: the deferred release of the command removes the pause.
StopUnpaused ==
  /\ ~Idle
  /\ command' = "none" /\ step' = "none" /\ todo' = {} /\ target' = {}
  /\ paused' = FALSE
  /\ UNCHANGED <<backend, journal>>

\* The command ends early: an error, a signal or a crash.  What it saved and
\* what it pushed stay.
Stop ==
  /\ ~Idle
  /\ command' = "none" /\ step' = "none" /\ todo' = {} /\ target' = {}
  /\ UNCHANGED <<backend, paused, journal>>

\* The command goes on to step s.
Goto(s) == step' = s /\ UNCHANGED <<command, todo, target>>

\* The loop of the command begins, is done with w, or ends with its command.
StartLoop == step' = "each" /\ todo' = Workspace /\ UNCHANGED <<command, target>>
LoopDone(w) == step' = "each" /\ todo' = todo \ {w} /\ target' = {} /\ UNCHANGED command
Finish == command' = "none" /\ step' = "none" /\ todo' = {} /\ target' = {}

\* The loop takes the workspaces in manifest order.
InTurn(w) == w \in todo /\ \A v \in todo : Index[w] <= Index[v]

Begin(c, s) ==
  /\ Idle
  /\ command' = c
  /\ step' = s
  /\ UNCHANGED <<backend, paused, journal, todo, target>>

Doing(c, s) == command = c /\ step = s

-----------------------------------------------------------------------------
(***************************************************************************)
(* prepare and preflight: they write no backend and need no pause.         *)
(***************************************************************************)

\* Every backend is as reviewed; snap is what the snapshots add to a serial.
Prepare ==
  /\ Idle /\ phase = "none"
  /\ \A w \in Workspace : backend[w].rev = 0
  /\ \E snap \in [Workspace -> Bumps] :
       forward' = [w \in Workspace |->
         [before |-> backend[w],
          prepared |-> [Moved(backend[w], Owned(Dest, w)) EXCEPT !.serial = @ + snap[w]],
          after |-> EmptyState]]
  /\ phase' = "prepared"
  /\ UNCHANGED <<backend, paused, written, recovery, restored, baseline, engine>>

\* establishBaseline: the plans of the before and after snapshots agree with
\* each other and with an earlier baseline.
Preflight ==
  /\ Idle /\ phase # "none"
  /\ baseline' = "forward"
  /\ UNCHANGED <<backend, paused, phase, forward, written, recovery, restored, engine>>

-----------------------------------------------------------------------------
(***************************************************************************)
(* execute, also run as resume and as the first half of transfer.          *)
(***************************************************************************)
BeginExecute ==
  /\ phase \in {"prepared", "applying", "transferred"}
  /\ Begin("execute", "baseline")

EstablishBaseline ==
  /\ Doing("execute", "baseline")
  /\ baseline' = "forward"
  /\ Goto("pause")
  /\ UNCHANGED <<backend, paused, phase, forward, written, recovery, restored>>

\* pause, in execute and in restore
Pause ==
  /\ step = "pause"
  /\ paused' = TRUE
  /\ Goto(IF command = "restore" /\ recovery = NoRecovery THEN "capture" ELSE "check")
  /\ UNCHANGED <<backend, journal>>

\* checkSet, before the first write
CheckSet ==
  /\ Doing("execute", "check")
  /\ \A w \in Workspace : MatchesAfter(backend[w], forward[w]) \/ Unwritten(w)
  /\ phase' = "applying"
  /\ StartLoop
  /\ UNCHANGED <<backend, paused, forward, written, recovery, restored, baseline>>

\* The journal names w as written, with the state that was read.
ConfirmWrite(w) ==
  /\ MatchesAfter(backend[w], forward[w])
  /\ written' = written \cup {w}
  /\ forward' = [forward EXCEPT ![w].after = backend[w]]
  /\ LoopDone(w)
  /\ UNCHANGED <<backend, paused, phase, recovery, restored, baseline>>

\* A push of the file f to the backend of w is taken.
Push(w, f) ==
  /\ backend' \in {[backend EXCEPT ![w] = s] : s \in Pushed(backend[w], f)}
  /\ Goto("confirm")
  /\ UNCHANGED <<paused, journal>>

\* A bug to be found: the journal names w before its push.
ChooseWriteEarly(w) ==
  /\ Doing("execute", "each") /\ InTurn(w)
  /\ ~MatchesAfter(backend[w], forward[w])
  /\ Unwritten(w)
  /\ step' = "push" /\ target' = {w}
  /\ written' = written \cup {w}
  /\ UNCHANGED <<backend, paused, phase, forward, recovery, restored, baseline, command, todo>>

\* writeOne decides to push: the backend is still as it was before.
ChooseWrite(w) ==
  /\ Doing("execute", "each") /\ InTurn(w)
  /\ ~MatchesAfter(backend[w], forward[w])
  /\ Unwritten(w)
  /\ step' = "push" /\ target' = {w}
  /\ UNCHANGED <<backend, paused, journal, command, todo>>

\* writeOne finds its own earlier push.
FindWritten(w) ==
  /\ Doing("execute", "each") /\ InTurn(w)
  /\ ConfirmWrite(w)

PushPrepared(w) ==
  /\ Doing("execute", "push") /\ w \in target
  /\ paused
  /\ Push(w, forward[w].prepared)

ConfirmPushed(w) ==
  /\ Doing("execute", "confirm") /\ w \in target
  /\ ConfirmWrite(w)

\* A bug to be found: a loop that fails ends execute like one that is done.
FinishExecuteAnyway ==
  /\ Doing("execute", "each")
  /\ phase' = "transferred"
  /\ Finish
  /\ UNCHANGED <<backend, paused, forward, written, recovery, restored, baseline>>

FinishExecute ==
  /\ Doing("execute", "each") /\ todo = {}
  /\ phase' = "transferred"
  /\ Finish
  /\ UNCHANGED <<backend, paused, forward, written, recovery, restored, baseline>>

WriteOne(w) == ChooseWrite(w) \/ FindWritten(w) \/ PushPrepared(w) \/ ConfirmPushed(w)

-----------------------------------------------------------------------------
(***************************************************************************)
(* verify, also run as the second half of transfer.                        *)
(***************************************************************************)
BeginVerify ==
  /\ phase \in {"transferred", "verified"}
  /\ paused
  /\ Begin("verify", "check")

\* checkSet over the states that were written, around a good plan verdict.
StatesTransferred == \A w \in Workspace : MatchesAfter(backend[w], forward[w])

VerifyPlans ==
  /\ Doing("verify", "check")
  /\ StatesTransferred
  /\ baseline = "forward"
  /\ Goto("seal")
  /\ UNCHANGED <<backend, paused, journal>>

SealVerified ==
  /\ Doing("verify", "seal")
  /\ StatesTransferred
  /\ phase' = "verified"
  /\ Goto("release")
  /\ UNCHANGED <<backend, paused, forward, written, recovery, restored, baseline>>

\* The end of verify and of verify-restored.
ReleasePause ==
  /\ step = "release"
  /\ paused' = FALSE
  /\ Finish
  /\ UNCHANGED <<backend, journal>>

-----------------------------------------------------------------------------
(***************************************************************************)
(* restore                                                                 *)
(***************************************************************************)
BeginRestore ==
  /\ phase \in {"prepared", "applying", "transferred", "restoring", "restored"}
  /\ Begin("restore", "pause")

\* The inverse of one state: what was moved in leaves, what was moved out
\* comes back from its destination or from the snapshot taken before.
Inverse(w) ==
  IF backend[w].lineage = "none" THEN EmptyState
  ELSE Moved(backend[w],
             {i \in backend[w].owns : Home[i] = w} \cup Owned(Home, w))

\* prepareRestoration: every backend is as before or as written.
CaptureRestoration ==
  /\ Doing("restore", "capture")
  /\ \A w \in Workspace : Unwritten(w) \/ MatchesAfter(backend[w], forward[w])
  /\ \E snap \in [Workspace -> Bumps] :
       recovery' = [w \in Workspace |->
         [before |-> backend[w],
          prepared |-> IF backend[w].lineage = "none" THEN EmptyState
                       ELSE [Inverse(w) EXCEPT !.serial = @ + snap[w]],
          after |-> EmptyState]]
  /\ phase' = "restoring"
  /\ restored' = {}
  /\ Goto("check")
  /\ UNCHANGED <<backend, paused, forward, written, baseline>>

\* checkRestoration, before the first inverse write
CheckRestoration ==
  /\ Doing("restore", "check")
  /\ \A w \in Workspace : MatchesAfter(backend[w], recovery[w]) \/ Unrestored(w)
  /\ StartLoop
  /\ UNCHANGED <<backend, paused, journal>>

ConfirmRestoration(w) ==
  /\ recovery' = [recovery EXCEPT ![w].after = backend[w]]
  /\ restored' = restored \cup {w}
  /\ LoopDone(w)
  /\ UNCHANGED <<backend, paused, phase, forward, written, baseline>>

\* restoreWorkspace finds its own earlier push, or nothing to change.
FindRestored(w) ==
  /\ Doing("restore", "each") /\ InTurn(w)
  /\ \/ MatchesAfter(backend[w], recovery[w])
     \/ Unrestored(w) /\ SamePayload(backend[w], recovery[w].prepared)
  /\ ConfirmRestoration(w)

ChooseRestore(w) ==
  /\ Doing("restore", "each") /\ InTurn(w)
  /\ ~MatchesAfter(backend[w], recovery[w])
  /\ Unrestored(w)
  /\ ~SamePayload(backend[w], recovery[w].prepared)
  /\ step' = "push" /\ target' = {w}
  /\ UNCHANGED <<backend, paused, journal, command, todo>>

PushInverse(w) ==
  /\ Doing("restore", "push") /\ w \in target
  /\ paused
  /\ SameState(backend[w], recovery[w].before)
  /\ Push(w, recovery[w].prepared)

ConfirmInverse(w) ==
  /\ Doing("restore", "confirm") /\ w \in target
  /\ MatchesAfter(backend[w], recovery[w])
  /\ ConfirmRestoration(w)

FinishRestore ==
  /\ Doing("restore", "each") /\ todo = {}
  /\ phase' = "restored"
  /\ Finish
  /\ UNCHANGED <<backend, paused, forward, written, recovery, restored, baseline>>

RestoreWorkspace(w) ==
  FindRestored(w) \/ ChooseRestore(w) \/ PushInverse(w) \/ ConfirmInverse(w)

-----------------------------------------------------------------------------
(***************************************************************************)
(* verify-restored                                                         *)
(***************************************************************************)
BeginVerifyRestored ==
  /\ phase \in {"restored", "restored-verified"}
  /\ paused
  /\ Begin("verify-restored", "check")

\* checkRestoration over restored states
StatesRestored == \A w \in Workspace : MatchesAfter(backend[w], recovery[w])

\* verifyRestoredRoots, and a baseline of the original plans when none was made
VerifyRestoredPlans ==
  /\ Doing("verify-restored", "check")
  /\ StatesRestored
  /\ \A w \in Workspace : backend[w].owns = forward[w].before.owns
  /\ baseline' = IF baseline = "none" THEN "original" ELSE baseline
  /\ Goto("seal")
  /\ UNCHANGED <<backend, paused, phase, forward, written, recovery, restored>>

SealRestored ==
  /\ Doing("verify-restored", "seal")
  /\ StatesRestored
  /\ phase' = "restored-verified"
  /\ Goto("release")
  /\ UNCHANGED <<backend, paused, forward, written, recovery, restored, baseline>>

-----------------------------------------------------------------------------
CommandStep ==
  \/ EstablishBaseline \/ Pause \/ CheckSet \/ FinishExecute
  \/ VerifyPlans \/ SealVerified \/ ReleasePause
  \/ CaptureRestoration \/ CheckRestoration \/ FinishRestore
  \/ VerifyRestoredPlans \/ SealRestored
  \/ \E w \in Workspace : WriteOne(w) \/ RestoreWorkspace(w)

Next ==
  \/ \E w \in Workspace : OrdinaryWrite(w)
  \/ Prepare \/ Preflight
  \/ BeginExecute \/ BeginVerify \/ BeginRestore \/ BeginVerifyRestored
  \/ CommandStep
  \/ Stop

Spec == Init /\ [][Next]_vars

\* A command that runs goes on, with good plan verdicts in the end, and the
\* operator keeps running whichever of the closing commands is accepted.
FairSpec ==
  /\ Spec
  /\ WF_vars(CommandStep)
  /\ SF_vars(BeginVerify) /\ SF_vars(BeginRestore) /\ SF_vars(BeginVerifyRestored)

-----------------------------------------------------------------------------
(***************************************************************************)
(* Properties.                                                             *)
(***************************************************************************)
States == {"prepared", "applying", "transferred", "verified", "restoring",
           "restored", "restored-verified"}

TypeOK ==
  /\ backend \in [Workspace -> StateInfo]
  /\ paused \in BOOLEAN
  /\ phase \in States \cup {"none"}
  /\ forward \in [Workspace -> Checkpoint]
  /\ written \in SUBSET Workspace
  /\ recovery \in [Workspace -> Checkpoint] \cup {NoRecovery}
  /\ restored \in SUBSET Workspace
  /\ baseline \in {"none", "original", "forward"}
  /\ command \in {"none", "execute", "verify", "restore", "verify-restored"}
  /\ todo \in SUBSET Workspace
  /\ target \in SUBSET Workspace

Assigned(layout) == \A w \in Workspace : backend[w].owns = Owned(layout, w)

Layout == IF Assigned(Home) THEN "home" ELSE IF Assigned(Dest) THEN "dest" ELSE "torn"

Outcome == CASE phase = "verified" -> "dest"
             [] phase = "restored-verified" -> "home"
             [] OTHER -> "none"

Transfer == INSTANCE AtomicTransfer WITH
  visible <- IF paused THEN "hidden" ELSE Layout, outcome <- Outcome

\* Whatever fails and whatever is run again, ordinary writers see the
\* instances all at home or all at their destination, decided once.
ImplementsTransfer == Transfer!Spec

\* No push of a migration replaces contents that an ordinary writer wrote.
NoWriteLost ==
  [][\A w \in Workspace : backend'[w].rev >= backend[w].rev]_vars

\* What the journal calls written or restored is what the backend holds, as
\* long as the pause stands; so the next command may trust it.
JournalTruthful ==
  paused =>
    /\ phase \in {"applying", "transferred", "verified"} =>
         \A w \in written : SameState(backend[w], forward[w].after)
    /\ phase \in {"transferred", "verified"} => written = Workspace /\ Assigned(Dest)
    /\ phase \in {"restoring", "restored", "restored-verified"} =>
         \A w \in restored : SameState(backend[w], recovery[w].after)
    /\ phase \in {"restored", "restored-verified"} =>
         restored = Workspace /\ Assigned(Home)

\* An ordinary write came between prepare and the pause.
Drifted == \E w \in Workspace : backend[w].rev # forward[w].before.rev

\* However often commands were cut short, and wherever: once they are no
\* longer, the operator gets out of the pause, unless the backends had been
\* changed before it began.
Recoverable == <>[][~Stop]_vars => ((paused /\ ~Drifted) ~> ~paused)

\* README.md: after an interruption, run transfer again.
TransferResumes ==
  Idle /\ paused /\ recovery = NoRecovery
    => phase \in {"prepared", "applying", "transferred"}

-----------------------------------------------------------------------------
(***************************************************************************)
(* The invariant behind the safety properties.                             *)
(***************************************************************************)
Forward == {"prepared", "applying", "transferred", "verified"}
Inverted == {"restoring", "restored", "restored-verified"}
InLoop == step \in {"each", "push", "confirm"}

\* A state that is absent is empty, and only fresh workspaces lack one.
WellFormed(s, w) ==
  (s.lineage = "none" => s = EmptyState /\ w \in Fresh)

\* The checkpoints record what manifest and snapshots say of each workspace.
ForwardValid ==
  \A w \in Workspace :
    LET c == forward[w] IN
    /\ c.before.owns = Owned(Home, w) /\ c.before.rev = 0 /\ WellFormed(c.before, w)
    /\ c.prepared.lineage # "none" /\ c.prepared.owns = Owned(Dest, w) /\ c.prepared.rev = 0
    /\ IF w \in written THEN c.after.lineage # "none" /\ c.after.owns = Owned(Dest, w)
       ELSE c.after = EmptyState

RecoveryValid ==
  IF phase \in Inverted
  THEN /\ recovery # NoRecovery
       /\ \A w \in Workspace :
            LET c == recovery[w] IN
            /\ WellFormed(c.before, w) /\ WellFormed(c.prepared, w)
            /\ c.prepared.lineage = "none" <=> c.before.lineage = "none"
            /\ c.prepared.owns = Owned(Home, w) /\ c.prepared.rev = c.before.rev
            /\ c.after.lineage # "none" => c.after.owns = Owned(Home, w)
  ELSE recovery = NoRecovery /\ restored = {}

\* Before the first pause nothing has moved, and after the last everything has.
Unpaused ==
  ~paused =>
    CASE phase \in {"none", "prepared"} -> Assigned(Home) /\ written = {}
      [] phase = "verified" -> Assigned(Dest)
      [] phase = "restored-verified" -> Assigned(Home)
      [] OTHER -> FALSE

\* Each step of a command finds the phase and the pause that it relies on.
CommandOrder ==
  /\ step # "none" => command # "none" /\ phase # "none"
  /\ command = "execute" =>
       /\ phase \in {"prepared", "applying", "transferred"}
       /\ step \in {"baseline", "pause", "check"} \/ InLoop
       /\ step = "check" => paused
       /\ InLoop => paused /\ phase = "applying" /\ Workspace \ todo \subseteq written
       /\ step = "push" => \A w \in target : Unwritten(w)
  /\ command = "verify" =>
       /\ paused /\ phase \in {"transferred", "verified"}
       /\ step \in {"check", "seal", "release"}
       /\ step = "release" => phase = "verified"
  /\ command = "restore" =>
       /\ step \in {"pause", "capture", "check"} \/ InLoop
       /\ phase \in {"prepared", "applying", "transferred", "restoring", "restored"}
       /\ step # "pause" => paused
       /\ step = "capture" => phase \notin Inverted
       /\ step = "check" \/ InLoop => phase \in Inverted
       /\ InLoop => Workspace \ todo \subseteq restored
       /\ step = "push" => \A w \in target :
            Unrestored(w) /\ ~SamePayload(backend[w], recovery[w].prepared)
  /\ command = "verify-restored" =>
       /\ paused /\ phase \in {"restored", "restored-verified"}
       /\ step \in {"check", "seal", "release"}
       /\ step = "release" => phase = "restored-verified"

BackendsWellFormed == \A w \in Workspace : WellFormed(backend[w], w)

\* Journal, backends, pause and the running command agree.
MigrationInv ==
  /\ TypeOK
  /\ BackendsWellFormed
  /\ phase = "none" => ~paused
  /\ phase # "none" => ForwardValid
  /\ RecoveryValid
  /\ Unpaused
  /\ JournalTruthful
  /\ CommandOrder
=============================================================================
