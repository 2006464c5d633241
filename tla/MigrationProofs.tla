-------------------------- MODULE MigrationProofs ---------------------------
(***************************************************************************)
(* Proofs about Migration for any manifest: its invariant is inductive, no *)
(* ordinary write is overwritten, and the transfer is atomic for ordinary  *)
(* writers.                                                                *)
(***************************************************************************)
EXTENDS Migration, TLAPS

USE DEF EmptyState

-----------------------------------------------------------------------------
(***************************************************************************)
(* Facts about states, pushes and moves.                                   *)
(***************************************************************************)

LEMMA BumpsAreNat == ManifestAssumption => Bumps \subseteq Nat
BY DEF ManifestAssumption

\* A push leaves the contents of its file in the backend.
LEMMA PushedContents ==
  ASSUME ManifestAssumption, NEW remote \in StateInfo, NEW f \in StateInfo,
         f.lineage # "none", NEW s \in Pushed(remote, f)
  PROVE  s \in StateInfo /\ s.owns = f.owns /\ s.rev = f.rev /\ s.lineage # "none"
<1>1. \A b \in Bumps : f.serial + b \in Nat
  BY DEF ManifestAssumption, StateInfo
<1>2. CASE s \in {[f EXCEPT !.serial = @ + b] : b \in Bumps}
  BY <1>1, <1>2 DEF StateInfo, Lineages
<1>3. CASE s = [f EXCEPT !.lineage = "made", !.serial = 1]
  BY <1>3 DEF StateInfo, Lineages
<1>4. QED
  BY <1>2, <1>3 DEF Pushed

\* tofu state mv yields an existing state with the given instances, and a
\* snapshot that raises its serial keeps that.
LEMMA MovedContents ==
  ASSUME NEW base \in StateInfo, NEW owns \in SUBSET Instance,
         base.lineage = "none" => base.rev = 0
  PROVE  /\ Moved(base, owns) \in StateInfo /\ Moved(base, owns).owns = owns
         /\ Moved(base, owns).rev = base.rev /\ Moved(base, owns).lineage # "none"
<1>1. CASE base.lineage = "none"
  BY <1>1 DEF Moved, StateInfo, Lineages
<1>2. CASE base.lineage # "none" /\ owns = base.owns
  BY <1>2 DEF Moved, StateInfo, Lineages
<1>3. CASE base.lineage # "none" /\ owns # base.owns
  BY <1>3 DEF Moved, StateInfo, Lineages
<1>4. QED
  BY <1>1, <1>2, <1>3

LEMMA RaisedContents ==
  ASSUME NEW m \in StateInfo, NEW b \in Nat
  PROVE  LET s == [m EXCEPT !.serial = @ + b] IN
         s \in StateInfo /\ s.owns = m.owns /\ s.rev = m.rev /\ s.lineage = m.lineage
BY DEF StateInfo

\* A state that matches a checkpoint has the contents that were prepared.
LEMMA MatchedContents ==
  ASSUME NEW s \in StateInfo, NEW c \in Checkpoint, MatchesAfter(s, c)
  PROVE  /\ c.after.lineage # "none" => s = c.after
         /\ c.after.lineage = "none" /\ c.prepared.lineage # "none" =>
              s.lineage # "none" /\ s.owns = c.prepared.owns /\ s.rev = c.prepared.rev
         /\ c.after.lineage = "none" /\ c.prepared.lineage = "none" => s = EmptyState
BY DEF MatchesAfter, SameState, SameContent

\* The instances of a layout.
LEMMA OwnedType ==
  ASSUME NEW layout, NEW w
  PROVE  Owned(layout, w) \in SUBSET Instance
BY DEF Owned

\* No instance is at home in a fresh workspace.
LEMMA FreshOwnsNothing ==
  ASSUME ManifestAssumption, NEW w \in Fresh
  PROVE  Owned(Home, w) = {}
BY DEF ManifestAssumption, Owned

-----------------------------------------------------------------------------
(***************************************************************************)
(* Steps of the invariant's proof.                                         *)
(***************************************************************************)

\* What the invariant says of backends, pause and journal.
Consistent ==
  /\ BackendsWellFormed
  /\ phase = "none" => ~paused
  /\ phase # "none" => ForwardValid
  /\ RecoveryValid
  /\ Unpaused
  /\ JournalTruthful

\* A step that changes none of them keeps it.
LEMMA ConsistentStutter ==
  ASSUME Consistent, UNCHANGED <<backend, paused, journal>>
  PROVE  Consistent'
BY DEF Consistent, journal, BackendsWellFormed, ForwardValid, RecoveryValid,
       Unpaused, JournalTruthful, Assigned

LEMMA InvParts == MigrationInv <=> TypeOK /\ Consistent /\ CommandOrder
BY DEF MigrationInv, Consistent

LEMMA InitInv ==
  ASSUME ManifestAssumption, Init
  PROVE  MigrationInv
<1>1. TypeOK
  <2>1. backend \in [Workspace -> StateInfo]
    BY OwnedType DEF Init, StateInfo, Lineages
  <2>2. forward \in [Workspace -> Checkpoint]
    BY DEF Init, Checkpoint, StateInfo, Lineages
  <2>3. QED
    BY <2>1, <2>2 DEF Init, TypeOK
<1>2. Assigned(Home)
  BY FreshOwnsNothing DEF Init, Assigned
<1>3. BackendsWellFormed
  BY DEF Init, BackendsWellFormed, WellFormed
<1>4. QED
  BY <1>1, <1>2, <1>3 DEF Init, MigrationInv, RecoveryValid, Inverted, Unpaused,
     JournalTruthful, CommandOrder, InLoop

\* An ordinary write changes no assignment and happens under no pause.
LEMMA OrdinaryWriteInv ==
  ASSUME ManifestAssumption, MigrationInv, NEW w \in Workspace, OrdinaryWrite(w)
  PROVE  MigrationInv'
<1> USE DEF MigrationInv
<1>1. PICK s \in StateInfo : /\ backend' = [backend EXCEPT ![w] = s]
                             /\ s.owns = backend[w].owns /\ s.lineage # "none"
  <2>1. backend[w] \in StateInfo
    BY DEF TypeOK
  <2>2. Rewritten(backend[w]) \in StateInfo
        /\ Rewritten(backend[w]).owns = backend[w].owns
        /\ Rewritten(backend[w]).lineage # "none"
    <3>1. CASE backend[w].lineage = "none"
      BY <2>1, <3>1 DEF Rewritten, StateInfo, Lineages
    <3>2. CASE backend[w].lineage # "none"
      BY <2>1, <3>2 DEF Rewritten, StateInfo, Lineages
    <3>3. QED
      BY <3>1, <3>2
  <2>3. backend' = [backend EXCEPT ![w] = Rewritten(backend[w])]
    BY DEF OrdinaryWrite
  <2>4. QED
    BY <2>2, <2>3
<1>2. backend' \in [Workspace -> StateInfo]
      /\ \A v \in Workspace : backend'[v].owns = backend[v].owns
  BY <1>1 DEF TypeOK
<1>3. UNCHANGED <<paused, journal, engine>> /\ ~paused /\ command = "none"
  BY DEF OrdinaryWrite, Idle
<1>4. TypeOK'
  BY <1>2, <1>3 DEF TypeOK, journal, engine
<1>5. BackendsWellFormed'
  BY <1>1 DEF BackendsWellFormed, WellFormed, TypeOK
<1>6. Assigned(Home)' = Assigned(Home) /\ Assigned(Dest)' = Assigned(Dest)
  BY <1>2 DEF Assigned
<1>7. (phase # "none" => ForwardValid)' /\ RecoveryValid' /\ Unpaused' /\ JournalTruthful'
  BY <1>3, <1>6 DEF journal, ForwardValid, RecoveryValid, Unpaused, JournalTruthful
<1>8. CommandOrder'
  BY <1>3 DEF journal, engine, CommandOrder, InLoop
<1>9. QED
  BY <1>3, <1>4, <1>5, <1>7, <1>8 DEF journal

\* A step of a command that saves and writes nothing.
LEMMA QuietInv ==
  ASSUME MigrationInv, UNCHANGED <<backend, paused, journal>>,
         command' \in {"none", "execute", "verify", "restore", "verify-restored"},
         todo' \in SUBSET Workspace, target' \in SUBSET Workspace, CommandOrder'
  PROVE  MigrationInv'
<1>1. TypeOK'
  BY DEF MigrationInv, TypeOK, journal
<1>2. Consistent'
  BY ConsistentStutter, InvParts
<1>3. CommandOrder'
  OBVIOUS
<1>4. QED
  BY <1>1, <1>2, <1>3 DEF MigrationInv, Consistent

\* The beginning of a command and its early end.
LEMMA BeginStopInv ==
  ASSUME MigrationInv,
         BeginExecute \/ BeginVerify \/ BeginRestore \/ BeginVerifyRestored \/ Stop
  PROVE  MigrationInv'
<1>1. UNCHANGED <<backend, paused, journal>>
  BY DEF BeginExecute, BeginVerify, BeginRestore, BeginVerifyRestored, Begin, Stop
<1>2. /\ command' \in {"none", "execute", "verify", "restore", "verify-restored"}
      /\ todo' \in SUBSET Workspace /\ target' \in SUBSET Workspace
  BY DEF BeginExecute, BeginVerify, BeginRestore, BeginVerifyRestored, Begin, Stop,
         MigrationInv, TypeOK
<1>3. CommandOrder'
  BY <1>1 DEF BeginExecute, BeginVerify, BeginRestore, BeginVerifyRestored, Begin,
     Stop, CommandOrder, InLoop, journal
<1>4. QED
  BY <1>1, <1>2, <1>3, QuietInv

\* The checks before a loop, a push or a seal.
LEMMA CheckInv ==
  ASSUME MigrationInv, NEW w \in Workspace,
         VerifyPlans \/ CheckRestoration \/ ChooseWrite(w) \/ ChooseRestore(w)
  PROVE  MigrationInv'
<1>1. UNCHANGED <<backend, paused, journal>>
  BY DEF VerifyPlans, CheckRestoration, ChooseWrite, ChooseRestore
<1>2. /\ command' \in {"none", "execute", "verify", "restore", "verify-restored"}
      /\ todo' \in SUBSET Workspace /\ target' \in SUBSET Workspace
  BY DEF VerifyPlans, CheckRestoration, ChooseWrite, ChooseRestore, Goto, StartLoop,
         MigrationInv, TypeOK
<1>3. CommandOrder'
  <2> USE DEF MigrationInv
  <2>1. CASE VerifyPlans
    BY <1>1, <2>1 DEF VerifyPlans, Doing, Goto, CommandOrder, InLoop, journal
  <2>2. CASE CheckRestoration
    BY <1>1, <2>2 DEF CheckRestoration, Doing, StartLoop, CommandOrder, InLoop, journal
  <2>3. CASE ChooseWrite(w)
    BY <1>1, <2>3 DEF ChooseWrite, Doing, CommandOrder, InLoop, journal, Unwritten,
       SameState
  <2>4. CASE ChooseRestore(w)
    BY <1>1, <2>4 DEF ChooseRestore, Doing, CommandOrder, InLoop, journal, Unrestored,
       SameState, SamePayload, SameContent
  <2>5. QED
    BY <2>1, <2>2, <2>3, <2>4
<1>4. QED
  BY <1>1, <1>2, <1>3, QuietInv

\* prepare begins the journal of states that are still as reviewed.
LEMMA PrepareInv ==
  ASSUME ManifestAssumption, MigrationInv, Prepare
  PROVE  MigrationInv'
<1> USE DEF MigrationInv
<1>1. PICK snap \in [Workspace -> Bumps] :
        forward' = [w \in Workspace |->
          [before |-> backend[w],
           prepared |-> [Moved(backend[w], Owned(Dest, w)) EXCEPT !.serial = @ + snap[w]],
           after |-> EmptyState]]
  BY DEF Prepare
<1>2. /\ phase = "none" /\ phase' = "prepared" /\ command = "none"
      /\ UNCHANGED <<backend, paused, written, recovery, restored, baseline, engine>>
      /\ \A w \in Workspace : backend[w].rev = 0
  BY DEF Prepare, Idle
<1>3. ~paused /\ written = {} /\ Assigned(Home)
  BY <1>2 DEF Unpaused
<1>4. ASSUME NEW w \in Workspace
      PROVE  LET f == forward'[w].prepared IN
             f \in StateInfo /\ f.owns = Owned(Dest, w) /\ f.rev = 0 /\ f.lineage # "none"
  <2>1. snap[w] \in Nat
    BY BumpsAreNat
  <2>2. backend[w] \in StateInfo /\ backend[w].rev = 0
    BY <1>2 DEF TypeOK
  <2>3. LET m == Moved(backend[w], Owned(Dest, w)) IN
        m \in StateInfo /\ m.owns = Owned(Dest, w) /\ m.rev = 0 /\ m.lineage # "none"
    BY <2>2, OwnedType, MovedContents
  <2>4. forward'[w].prepared
          = [Moved(backend[w], Owned(Dest, w)) EXCEPT !.serial = @ + snap[w]]
    BY <1>1
  <2>5. QED
    BY <2>1, <2>3, <2>4, RaisedContents
<1>5. forward' \in [Workspace -> Checkpoint]
  <2>1. ASSUME NEW w \in Workspace PROVE forward'[w] \in Checkpoint
    BY <1>1, <1>4 DEF TypeOK, Checkpoint, StateInfo, Lineages
  <2>2. QED
    BY <1>1, <2>1
<1>6. TypeOK'
  BY <1>2, <1>5 DEF TypeOK, States, engine
<1>7. ForwardValid'
  BY <1>1, <1>2, <1>3, <1>4 DEF ForwardValid, Assigned, BackendsWellFormed, WellFormed
<1>8. Consistent'
  BY <1>2, <1>3, <1>7 DEF Consistent, BackendsWellFormed, RecoveryValid, Inverted,
     Unpaused, JournalTruthful, Assigned
<1>9. CommandOrder'
  BY <1>2 DEF CommandOrder, InLoop, engine
<1>10. QED
  BY <1>6, <1>8, <1>9 DEF Consistent

\* What execute, verify and the restoration save about phase and baseline.
LEMMA PhaseInv ==
  ASSUME ManifestAssumption, MigrationInv,
         \/ Preflight \/ EstablishBaseline \/ FinishExecute \/ SealVerified
         \/ FinishRestore \/ VerifyRestoredPlans \/ SealRestored \/ CheckSet
  PROVE  MigrationInv'
<1> USE DEF MigrationInv
<1>1. UNCHANGED <<backend, paused, forward, written, recovery, restored>>
  BY DEF Preflight, EstablishBaseline, FinishExecute, SealVerified, FinishRestore,
         VerifyRestoredPlans, SealRestored, CheckSet
<1>2. TypeOK'
  BY <1>1 DEF TypeOK, States, Preflight, EstablishBaseline, FinishExecute,
     SealVerified, FinishRestore, VerifyRestoredPlans, SealRestored, CheckSet, Goto,
     StartLoop, Finish, engine
<1>3. CASE Preflight \/ EstablishBaseline \/ VerifyRestoredPlans
  <2>1. phase' = phase
    BY <1>3 DEF Preflight, EstablishBaseline, VerifyRestoredPlans
  <2>2. Consistent'
    BY <1>1, <2>1 DEF Consistent, BackendsWellFormed, ForwardValid, RecoveryValid,
       Unpaused, JournalTruthful, Assigned
  <2>3. CommandOrder'
    BY <1>1, <1>3, <2>1 DEF Preflight, EstablishBaseline, VerifyRestoredPlans, Idle,
       Doing, Goto, engine, CommandOrder, InLoop
  <2>4. QED
    BY <1>2, <2>2, <2>3 DEF Consistent
<1>4. CASE CheckSet
  <2>1. phase' = "applying" /\ paused /\ phase \in {"prepared", "applying", "transferred"}
    BY <1>4 DEF CheckSet, Doing, CommandOrder
  <2>2. \A w \in written : SameState(backend[w], forward[w].after)
    <3>1. SUFFICES ASSUME NEW w \in written PROVE SameState(backend[w], forward[w].after)
      OBVIOUS
    <3>2. w \in Workspace /\ forward[w].after.lineage # "none"
      BY <2>1 DEF TypeOK, ForwardValid
    <3>3. MatchesAfter(backend[w], forward[w])
      BY <1>4, <3>2 DEF CheckSet, Unwritten
    <3>4. QED
      BY <3>2, <3>3 DEF MatchesAfter
  <2>3. Consistent'
    BY <1>1, <2>1, <2>2 DEF Consistent, BackendsWellFormed, ForwardValid,
       RecoveryValid, Inverted, Unpaused, JournalTruthful, Assigned
  <2>4. CommandOrder'
    BY <1>1, <1>4, <2>1 DEF CheckSet, Doing, StartLoop, CommandOrder, InLoop
  <2>5. QED
    BY <1>2, <2>1, <2>3, <2>4 DEF Consistent
<1>5. CASE FinishExecute
  <2>1. phase' = "transferred" /\ phase = "applying" /\ paused /\ written = Workspace
    BY <1>5 DEF FinishExecute, Doing, CommandOrder, InLoop, TypeOK
  <2>2. Assigned(Dest)
    BY <2>1 DEF Assigned, JournalTruthful, ForwardValid, SameState
  <2>3. Consistent'
    BY <1>1, <2>1, <2>2 DEF Consistent, BackendsWellFormed, ForwardValid,
       RecoveryValid, Inverted, Unpaused, JournalTruthful, Assigned
  <2>4. CommandOrder'
    BY <1>5 DEF FinishExecute, Finish, CommandOrder, InLoop
  <2>5. QED
    BY <1>2, <2>1, <2>3, <2>4 DEF Consistent
<1>6. CASE SealVerified
  <2>1. phase' = "verified" /\ paused /\ phase \in {"transferred", "verified"}
    BY <1>6 DEF SealVerified, Doing, CommandOrder
  <2>2. Consistent'
    BY <1>1, <2>1 DEF Consistent, BackendsWellFormed, ForwardValid, RecoveryValid,
       Inverted, Unpaused, JournalTruthful, Assigned
  <2>3. CommandOrder'
    BY <1>1, <1>6, <2>1 DEF SealVerified, Doing, Goto, CommandOrder, InLoop
  <2>4. QED
    BY <1>2, <2>1, <2>2, <2>3 DEF Consistent
<1>7. CASE FinishRestore
  <2>1. /\ phase' = "restored" /\ phase \in {"restoring", "restored"} /\ paused
        /\ restored = Workspace
    BY <1>7 DEF FinishRestore, Doing, CommandOrder, InLoop, Inverted, TypeOK
  <2>2. Assigned(Home)
    <3>1. SUFFICES ASSUME NEW w \in Workspace PROVE backend[w].owns = Owned(Home, w)
      BY DEF Assigned
    <3>2. SameState(backend[w], recovery[w].after)
      BY <2>1 DEF JournalTruthful
    <3>3. CASE recovery[w].after.lineage # "none"
      BY <2>1, <3>2, <3>3 DEF RecoveryValid, Inverted, SameState
    <3>4. CASE recovery[w].after.lineage = "none"
      <4>1. backend[w] = EmptyState /\ w \in Fresh
        BY <3>2, <3>4 DEF SameState, BackendsWellFormed, WellFormed
      <4>2. QED
        BY <4>1, FreshOwnsNothing
    <3>5. QED
      BY <3>3, <3>4
  <2>3. Consistent'
    BY <1>1, <2>1, <2>2 DEF Consistent, BackendsWellFormed, ForwardValid,
       RecoveryValid, Inverted, Unpaused, JournalTruthful, Assigned
  <2>4. CommandOrder'
    BY <1>7 DEF FinishRestore, Finish, CommandOrder, InLoop
  <2>5. QED
    BY <1>2, <2>1, <2>3, <2>4 DEF Consistent
<1>8. CASE SealRestored
  <2>1. /\ phase' = "restored-verified" /\ paused
        /\ phase \in {"restored", "restored-verified"}
    BY <1>8 DEF SealRestored, Doing, CommandOrder
  <2>2. Consistent'
    BY <1>1, <2>1 DEF Consistent, BackendsWellFormed, ForwardValid, RecoveryValid,
       Inverted, Unpaused, JournalTruthful, Assigned
  <2>3. CommandOrder'
    BY <1>1, <1>8, <2>1 DEF SealRestored, Doing, Goto, CommandOrder, InLoop
  <2>4. QED
    BY <1>2, <2>1, <2>2, <2>3 DEF Consistent
<1>9. QED
  BY <1>3, <1>4, <1>5, <1>6, <1>7, <1>8

\* The pause begins before anything moved, or stands already; it ends when
\* the outcome is proved.
LEMMA PauseInv ==
  ASSUME MigrationInv, Pause \/ ReleasePause
  PROVE  MigrationInv'
<1> USE DEF MigrationInv
<1>1. UNCHANGED <<backend, journal>>
  BY DEF Pause, ReleasePause
<1>2. TypeOK'
  BY <1>1 DEF TypeOK, Pause, ReleasePause, Goto, Finish, journal
<1>3. BackendsWellFormed' /\ (phase # "none" => ForwardValid)' /\ RecoveryValid'
      /\ Assigned(Home)' = Assigned(Home) /\ Assigned(Dest)' = Assigned(Dest)
  BY <1>1 DEF journal, BackendsWellFormed, ForwardValid, RecoveryValid, Assigned
<1>4. CASE Pause
  <2>1. paused' /\ phase # "none" /\ phase' = phase
    BY <1>1, <1>4 DEF Pause, CommandOrder, journal
  <2>2. JournalTruthful'
    <3>1. CASE paused
      BY <1>1, <1>3, <3>1 DEF JournalTruthful, journal
    <3>2. CASE ~paused
      <4>1. phase = "prepared" /\ written = {}
        BY <2>1, <3>2, <1>4 DEF Unpaused, CommandOrder, Pause, InLoop, TypeOK
      <4>2. QED
        BY <1>1, <4>1 DEF JournalTruthful, journal
    <3>3. QED
      BY <3>1, <3>2
  <2>3. Unpaused'
    BY <2>1 DEF Unpaused
  <2>4. CommandOrder'
    BY <1>1, <1>4, <2>1 DEF Pause, Goto, CommandOrder, InLoop, journal, RecoveryValid
  <2>5. QED
    BY <1>2, <1>3, <2>1, <2>2, <2>3, <2>4
<1>5. CASE ReleasePause
  <2>1. paused /\ ~paused' /\ phase \in {"verified", "restored-verified"} /\ phase' = phase
    BY <1>1, <1>5 DEF ReleasePause, CommandOrder, journal, InLoop, TypeOK
  <2>2. Unpaused' /\ JournalTruthful'
    BY <1>3, <2>1 DEF Unpaused, JournalTruthful
  <2>3. CommandOrder'
    BY <1>5 DEF ReleasePause, Finish, CommandOrder, InLoop
  <2>4. QED
    BY <1>2, <1>3, <2>1, <2>2, <2>3
<1>6. QED
  BY <1>4, <1>5

\* The journal names a written workspace with the state its backend holds.
LEMMA ConfirmWriteInv ==
  ASSUME MigrationInv, NEW w \in Workspace, FindWritten(w) \/ ConfirmPushed(w)
  PROVE  MigrationInv'
<1> USE DEF MigrationInv
<1>1. /\ ConfirmWrite(w) /\ command = "execute" /\ step \in {"each", "confirm"}
      /\ paused /\ phase = "applying" /\ Workspace \ todo \subseteq written
  BY DEF FindWritten, ConfirmPushed, Doing, CommandOrder, InLoop
<1>2. /\ UNCHANGED <<backend, paused, phase, recovery, restored, baseline, command>>
      /\ written' = written \cup {w} /\ todo' = todo \ {w} /\ step' = "each"
      /\ target' = {}
      /\ forward' = [forward EXCEPT ![w].after = backend[w]]
  BY <1>1 DEF ConfirmWrite, LoopDone
<1>3. backend[w] \in StateInfo /\ forward[w] \in Checkpoint /\ ForwardValid
  BY <1>1 DEF TypeOK
<1>4. backend[w].lineage # "none" /\ backend[w].owns = Owned(Dest, w)
  <2>1. MatchesAfter(backend[w], forward[w])
    BY <1>1 DEF ConfirmWrite
  <2>2. CASE forward[w].after.lineage # "none"
    <3>1. w \in written
      BY <1>3, <2>2 DEF ForwardValid
    <3>2. forward[w].after.owns = Owned(Dest, w)
      BY <1>3, <3>1 DEF ForwardValid
    <3>3. backend[w] = forward[w].after
      BY <1>3, <2>1, <2>2, MatchedContents
    <3>4. QED
      BY <2>2, <3>2, <3>3
  <2>3. CASE forward[w].after.lineage = "none"
    <3>1. forward[w].prepared.lineage # "none" /\ forward[w].prepared.owns = Owned(Dest, w)
      BY <1>3 DEF ForwardValid
    <3>2. QED
      BY <1>3, <2>1, <2>3, <3>1, MatchedContents
  <2>4. QED
    BY <2>2, <2>3
<1>5. /\ forward' \in [Workspace -> Checkpoint]
      /\ forward'[w].before = forward[w].before /\ forward'[w].prepared = forward[w].prepared
      /\ forward'[w].after = backend[w]
      /\ \A v \in Workspace \ {w} : forward'[v] = forward[v]
  BY <1>2, <1>3 DEF TypeOK, Checkpoint
<1>6. TypeOK'
  BY <1>2, <1>5 DEF TypeOK
<1>7. ForwardValid'
  BY <1>2, <1>3, <1>4, <1>5 DEF ForwardValid
<1>8. \A v \in written' : SameState(backend[v], forward'[v].after)
  BY <1>1, <1>2, <1>5 DEF JournalTruthful, SameState, TypeOK
<1>9. Consistent'
  BY <1>1, <1>2, <1>7, <1>8 DEF Consistent, BackendsWellFormed, RecoveryValid,
     Inverted, Unpaused, JournalTruthful, Assigned
<1>10. CommandOrder'
  BY <1>1, <1>2 DEF CommandOrder, InLoop
<1>11. QED
  BY <1>6, <1>9, <1>10 DEF Consistent

\* A push changes a backend that the journal does not name.
LEMMA PushInv ==
  ASSUME ManifestAssumption, MigrationInv, NEW w \in Workspace,
         PushPrepared(w) \/ PushInverse(w)
  PROVE  /\ MigrationInv'
         /\ \A v \in Workspace : backend'[v].rev = backend[v].rev
<1> USE DEF MigrationInv
<1>1. PICK f \in StateInfo : Push(w, f) /\ f.lineage # "none" /\ f.rev = backend[w].rev
  <2>1. CASE PushPrepared(w)
    <3>1. forward[w].prepared \in StateInfo /\ ForwardValid /\ Unwritten(w)
      BY <2>1 DEF PushPrepared, Doing, CommandOrder, TypeOK, Checkpoint
    <3>2. QED
      BY <2>1, <3>1 DEF PushPrepared, ForwardValid, Unwritten, SameState
  <2>2. CASE PushInverse(w)
    <3>1. recovery[w] \in Checkpoint /\ RecoveryValid /\ phase \in Inverted
      BY <2>2 DEF PushInverse, Doing, CommandOrder, InLoop, TypeOK, RecoveryValid
    <3>2. SameState(backend[w], recovery[w].before)
          /\ ~SamePayload(backend[w], recovery[w].prepared)
      BY <2>2 DEF PushInverse, Doing, CommandOrder
    <3>3. recovery[w].prepared.lineage # "none"
      <4>1. SUFFICES ASSUME recovery[w].prepared.lineage = "none" PROVE FALSE
        OBVIOUS
      <4>2. recovery[w].prepared = EmptyState /\ recovery[w].before = EmptyState
        BY <3>1, <4>1 DEF RecoveryValid, WellFormed
      <4>3. QED
        BY <3>2, <4>2 DEF SameState, SamePayload, SameContent
    <3>4. QED
      BY <2>2, <3>1, <3>2, <3>3 DEF PushInverse, RecoveryValid, SameState, Checkpoint
  <2>3. QED
    BY <2>1, <2>2
<1>2. PICK s \in StateInfo : /\ backend' = [backend EXCEPT ![w] = s]
                             /\ s.lineage # "none" /\ s.rev = backend[w].rev
  <2>1. PICK s \in Pushed(backend[w], f) : backend' = [backend EXCEPT ![w] = s]
    BY <1>1 DEF Push
  <2>2. backend[w] \in StateInfo
    BY DEF TypeOK
  <2>3. s \in StateInfo /\ s.rev = f.rev /\ s.lineage # "none"
    BY <1>1, <2>1, <2>2, PushedContents
  <2>4. QED
    BY <1>1, <2>1, <2>3
<1>3. /\ UNCHANGED <<paused, journal, command, todo, target>> /\ step' = "confirm"
      /\ paused /\ step = "push"
  BY <1>1 DEF Push, Goto, PushPrepared, PushInverse, Doing
<1>4. /\ backend' \in [Workspace -> StateInfo]
      /\ \A v \in Workspace \ {w} : backend'[v] = backend[v]
  BY <1>2 DEF TypeOK
<1>5. \A v \in Workspace : backend'[v].rev = backend[v].rev
  BY <1>2, <1>4 DEF TypeOK
<1>6. TypeOK'
  BY <1>3, <1>4 DEF TypeOK, journal
<1>7. BackendsWellFormed'
  BY <1>2 DEF BackendsWellFormed, WellFormed, TypeOK
<1>8. (phase # "none" => ForwardValid)' /\ RecoveryValid' /\ Unpaused'
  BY <1>3 DEF journal, ForwardValid, RecoveryValid, Unpaused
<1>9. JournalTruthful'
  <2>1. CASE PushPrepared(w)
    BY <1>3, <1>4, <2>1 DEF PushPrepared, Doing, CommandOrder, InLoop, Unwritten,
       JournalTruthful, journal, TypeOK
  <2>2. CASE PushInverse(w)
    BY <1>3, <1>4, <2>2 DEF PushInverse, Doing, CommandOrder, InLoop, Unrestored,
       JournalTruthful, journal, TypeOK, Inverted
  <2>3. QED
    BY <2>1, <2>2
<1>10. CommandOrder'
  BY <1>3 DEF CommandOrder, InLoop, journal
<1>11. QED
  BY <1>3, <1>5, <1>6, <1>7, <1>8, <1>9, <1>10 DEF journal

\* The inverse states are captured while the pause keeps writers away.
LEMMA CaptureInv ==
  ASSUME ManifestAssumption, MigrationInv, CaptureRestoration
  PROVE  MigrationInv'
<1> USE DEF MigrationInv
<1>1. PICK snap \in [Workspace -> Bumps] :
        recovery' = [w \in Workspace |->
          [before |-> backend[w],
           prepared |-> IF backend[w].lineage = "none" THEN EmptyState
                        ELSE [Inverse(w) EXCEPT !.serial = @ + snap[w]],
           after |-> EmptyState]]
  BY DEF CaptureRestoration
<1>2. /\ UNCHANGED <<backend, paused, forward, written, baseline, command, todo, target>>
      /\ phase' = "restoring" /\ restored' = {} /\ step' = "check"
      /\ command = "restore" /\ paused /\ phase # "none"
  BY DEF CaptureRestoration, Goto, Doing, CommandOrder
<1>3. ASSUME NEW w \in Workspace
      PROVE  LET f == recovery'[w].prepared IN
             /\ f \in StateInfo /\ WellFormed(f, w)
             /\ f.lineage = "none" <=> backend[w].lineage = "none"
             /\ f.owns = Owned(Home, w) /\ f.rev = backend[w].rev
  <2>1. backend[w] \in StateInfo /\ WellFormed(backend[w], w) /\ snap[w] \in Nat
    BY BumpsAreNat DEF TypeOK, BackendsWellFormed
  <2>2. CASE backend[w].lineage = "none"
    <3>1. w \in Fresh /\ backend[w] = EmptyState
      BY <2>1, <2>2 DEF WellFormed
    <3>2. recovery'[w].prepared = EmptyState /\ Owned(Home, w) = {}
      BY <1>1, <2>2, <3>1, FreshOwnsNothing
    <3>3. QED
      BY <2>1, <2>2, <3>1, <3>2 DEF WellFormed
  <2>3. CASE backend[w].lineage # "none"
    <3>1. Inverse(w) = Moved(backend[w], Owned(Home, w))
      <4>1. {i \in backend[w].owns : Home[i] = w} \cup Owned(Home, w) = Owned(Home, w)
        BY <2>1 DEF StateInfo, Owned
      <4>2. QED
        BY <2>3, <4>1 DEF Inverse
    <3>2. recovery'[w].prepared
            = [Moved(backend[w], Owned(Home, w)) EXCEPT !.serial = @ + snap[w]]
      BY <1>1, <2>3, <3>1
    <3>3. LET m == Moved(backend[w], Owned(Home, w)) IN
          /\ m \in StateInfo /\ m.owns = Owned(Home, w)
          /\ m.rev = backend[w].rev /\ m.lineage # "none"
      BY <2>1, <2>3, OwnedType, MovedContents
    <3>4. LET f == recovery'[w].prepared IN
          /\ f \in StateInfo /\ f.owns = Owned(Home, w)
          /\ f.rev = backend[w].rev /\ f.lineage # "none"
      BY <2>1, <3>2, <3>3, RaisedContents
    <3>5. QED
      BY <2>3, <3>2, <3>4 DEF WellFormed
  <2>4. QED
    BY <2>2, <2>3
<1>4. recovery' \in [Workspace -> Checkpoint]
  <2>1. ASSUME NEW w \in Workspace PROVE recovery'[w] \in Checkpoint
    BY <1>1, <1>3 DEF TypeOK, Checkpoint, StateInfo, Lineages
  <2>2. QED
    BY <1>1, <2>1
<1>5. TypeOK'
  BY <1>2, <1>4 DEF TypeOK, States
<1>6. RecoveryValid'
  <2>1. recovery' # NoRecovery /\ phase' \in Inverted
    BY <1>2, <1>4 DEF ManifestAssumption, Inverted
  <2>2. QED
    BY <1>1, <1>3, <2>1 DEF RecoveryValid, BackendsWellFormed
<1>7. Consistent'
  BY <1>2, <1>6 DEF Consistent, BackendsWellFormed, ForwardValid, Unpaused,
     JournalTruthful
<1>8. CommandOrder'
  BY <1>2 DEF CommandOrder, InLoop, Inverted
<1>9. QED
  BY <1>5, <1>7, <1>8 DEF Consistent

\* The journal names a restored workspace with the state its backend holds.
LEMMA ConfirmRestorationInv ==
  ASSUME MigrationInv, NEW w \in Workspace, FindRestored(w) \/ ConfirmInverse(w)
  PROVE  MigrationInv'
<1> USE DEF MigrationInv
<1>1. /\ ConfirmRestoration(w) /\ command = "restore" /\ step \in {"each", "confirm"}
      /\ paused /\ phase \in Inverted /\ Workspace \ todo \subseteq restored
      /\ phase \in {"restoring", "restored"}
  BY DEF FindRestored, ConfirmInverse, Doing, CommandOrder, InLoop, Inverted
<1>2. /\ UNCHANGED <<backend, paused, phase, forward, written, baseline, command>>
      /\ restored' = restored \cup {w} /\ todo' = todo \ {w} /\ step' = "each"
      /\ target' = {}
      /\ recovery' = [recovery EXCEPT ![w].after = backend[w]]
  BY <1>1 DEF ConfirmRestoration, LoopDone
<1>3. /\ backend[w] \in StateInfo /\ recovery \in [Workspace -> Checkpoint]
      /\ recovery[w] \in Checkpoint /\ RecoveryValid
  BY <1>1 DEF TypeOK, RecoveryValid
<1>4. backend[w].lineage # "none" => backend[w].owns = Owned(Home, w)
  <2>1. /\ recovery[w].prepared.owns = Owned(Home, w)
        /\ recovery[w].after.lineage # "none" => recovery[w].after.owns = Owned(Home, w)
    BY <1>1, <1>3 DEF RecoveryValid
  <2>2. CASE MatchesAfter(backend[w], recovery[w])
    <3>1. CASE recovery[w].after.lineage # "none"
      BY <1>3, <2>1, <2>2, <3>1, MatchedContents
    <3>2. CASE recovery[w].after.lineage = "none"
      BY <1>3, <2>1, <2>2, <3>2, MatchedContents
    <3>3. QED
      BY <3>1, <3>2
  <2>3. CASE SamePayload(backend[w], recovery[w].prepared)
    BY <2>1, <2>3 DEF SamePayload, SameContent
  <2>4. QED
    BY <2>2, <2>3 DEF FindRestored, ConfirmInverse
<1>5. /\ recovery' \in [Workspace -> Checkpoint]
      /\ recovery'[w].before = recovery[w].before
      /\ recovery'[w].prepared = recovery[w].prepared
      /\ recovery'[w].after = backend[w]
      /\ \A v \in Workspace \ {w} : recovery'[v] = recovery[v]
  BY <1>2, <1>3 DEF Checkpoint
<1>6. TypeOK'
  BY <1>2, <1>5 DEF TypeOK
<1>7. RecoveryValid'
  <2>1. phase' \in Inverted /\ recovery # NoRecovery
    BY <1>1, <1>2, <1>3 DEF RecoveryValid
  <2>2. recovery' # NoRecovery
    BY <1>5, ManifestAssumption DEF ManifestAssumption
  <2>3. QED
    BY <1>3, <1>4, <1>5, <2>1, <2>2 DEF RecoveryValid
<1>8. \A v \in restored' : SameState(backend[v], recovery'[v].after)
  BY <1>1, <1>2, <1>5 DEF JournalTruthful, SameState, TypeOK, Inverted
<1>9. restored = Workspace => restored' = Workspace
  BY <1>2
<1>10. Consistent'
  <2>1. JournalTruthful'
    BY <1>1, <1>2, <1>8, <1>9 DEF JournalTruthful, Inverted, Assigned
  <2>2. QED
    BY <1>1, <1>2, <1>7, <2>1 DEF Consistent, BackendsWellFormed, ForwardValid, Unpaused
<1>11. CommandOrder'
  BY <1>1, <1>2 DEF CommandOrder, InLoop, Inverted
<1>12. QED
  BY <1>6, <1>10, <1>11 DEF Consistent

-----------------------------------------------------------------------------
(***************************************************************************)
(* The theorems.                                                           *)
(***************************************************************************)

\* Every step keeps the invariant.
LEMMA NextInv ==
  ASSUME ManifestAssumption, MigrationInv, [Next]_vars
  PROVE  MigrationInv'
<1>1. CASE \E w \in Workspace : OrdinaryWrite(w)
  BY <1>1, OrdinaryWriteInv
<1>2. CASE Prepare \/ Preflight
  BY <1>2, PrepareInv, PhaseInv
<1>3. CASE BeginExecute \/ BeginVerify \/ BeginRestore \/ BeginVerifyRestored \/ Stop
  BY <1>3, BeginStopInv
<1>4. CASE CommandStep
  <2>1. CASE Pause \/ ReleasePause
    BY <2>1, PauseInv
  <2>2. CASE \/ EstablishBaseline \/ CheckSet \/ FinishExecute \/ SealVerified
             \/ FinishRestore \/ VerifyRestoredPlans \/ SealRestored
    BY <2>2, PhaseInv
  <2>3. CASE CaptureRestoration
    BY <2>3, CaptureInv
  <2>4. CASE \E w \in Workspace : WriteOne(w) \/ RestoreWorkspace(w)
    <3>1. PICK w \in Workspace : WriteOne(w) \/ RestoreWorkspace(w)
      BY <2>4
    <3>2. CASE FindWritten(w) \/ ConfirmPushed(w)
      BY <3>2, ConfirmWriteInv
    <3>3. CASE PushPrepared(w) \/ PushInverse(w)
      BY <3>3, PushInv
    <3>4. CASE FindRestored(w) \/ ConfirmInverse(w)
      BY <3>4, ConfirmRestorationInv
    <3>5. CASE ChooseWrite(w) \/ ChooseRestore(w)
      BY <3>5, CheckInv
    <3>6. QED
      BY <3>1, <3>2, <3>3, <3>4, <3>5 DEF WriteOne, RestoreWorkspace
  <2>5. CASE VerifyPlans \/ CheckRestoration
    <3>1. CASE Workspace # {}
      BY <2>5, <3>1, CheckInv
    <3>2. QED
      BY <3>1, ManifestAssumption DEF ManifestAssumption
  <2>6. QED
    BY <1>4, <2>1, <2>2, <2>3, <2>4, <2>5 DEF CommandStep
<1>5. CASE UNCHANGED vars
  <2>1. UNCHANGED <<backend, paused, journal>> /\ UNCHANGED <<command, step, todo, target>>
    BY <1>5 DEF vars, engine
  <2>2. CommandOrder'
    BY <2>1 DEF MigrationInv, CommandOrder, InLoop, journal, Unwritten, Unrestored,
       SameState, SamePayload, SameContent
  <2>3. QED
    BY <2>1, <2>2, QuietInv DEF MigrationInv, TypeOK
<1>6. QED
  BY <1>1, <1>2, <1>3, <1>4, <1>5 DEF Next

\* Journal, backends, pause and running command agree in every reachable
\* state, for any manifest and however often commands are cut short.
THEOREM MigrationHolds == Spec => []MigrationInv
<1>1. Init => MigrationInv
  BY InitInv, ManifestAssumption
<1>2. MigrationInv /\ [Next]_vars => MigrationInv'
  BY NextInv, ManifestAssumption
<1>3. QED
  BY <1>1, <1>2, PTL DEF Spec

\* As long as the pause stands, the backends hold what the journal calls
\* written or restored.
THEOREM JournalHolds == Spec => []JournalTruthful
<1>1. MigrationInv => JournalTruthful
  BY DEF MigrationInv
<1>2. QED
  BY <1>1, MigrationHolds, PTL

\* No push of a migration replaces contents that an ordinary writer wrote.
THEOREM WritesKept == Spec => NoWriteLost
<1>1. MigrationInv /\ [Next]_vars
        => [\A w \in Workspace : backend'[w].rev >= backend[w].rev]_vars
  <2> SUFFICES ASSUME MigrationInv, Next
               PROVE  \A w \in Workspace : backend'[w].rev >= backend[w].rev
    OBVIOUS
  <2>1. \A w \in Workspace : backend[w] \in StateInfo /\ backend[w].rev \in Nat
    BY DEF MigrationInv, TypeOK, StateInfo
  <2>2. CASE \E w \in Workspace : OrdinaryWrite(w)
    <3>1. PICK w \in Workspace : OrdinaryWrite(w)
      BY <2>2
    <3>2. backend' = [backend EXCEPT ![w] = Rewritten(backend[w])]
      BY <3>1 DEF OrdinaryWrite
    <3>3. Rewritten(backend[w]).rev = backend[w].rev + 1
      BY DEF Rewritten
    <3>4. QED
      BY <2>1, <3>2, <3>3 DEF MigrationInv, TypeOK
  <2>3. CASE \E w \in Workspace : PushPrepared(w) \/ PushInverse(w)
    BY <2>1, <2>3, PushInv, ManifestAssumption
  <2>4. CASE UNCHANGED backend
    BY <2>1, <2>4
  <2>5. QED
    BY <2>2, <2>3, <2>4 DEF Next, CommandStep, WriteOne, RestoreWorkspace,
       Prepare, Preflight, BeginExecute, BeginVerify, BeginRestore,
       BeginVerifyRestored, Begin, Stop, EstablishBaseline, Pause, CheckSet,
       FinishExecute, VerifyPlans, SealVerified, ReleasePause, CaptureRestoration,
       CheckRestoration, FinishRestore, VerifyRestoredPlans, SealRestored,
       ChooseWrite, FindWritten, ConfirmPushed, ConfirmWrite, FindRestored,
       ChooseRestore, ConfirmInverse, ConfirmRestoration
<1>2. QED
  BY <1>1, MigrationHolds, PTL DEF NoWriteLost, Spec

-----------------------------------------------------------------------------
\* No assignment of states is both the one at home and the one after.
LEMMA LayoutsDiffer ==
  ASSUME ManifestAssumption, NEW b,
         \A w \in Workspace : b[w].owns = Owned(Home, w),
         \A w \in Workspace : b[w].owns = Owned(Dest, w)
  PROVE  FALSE
<1>1. \A w \in Workspace : Owned(Home, w) = Owned(Dest, w)
  OBVIOUS
<1>2. \A i \in Instance : Home[i] = Dest[i]
  <2>1. SUFFICES ASSUME NEW i \in Instance PROVE Home[i] = Dest[i]
    OBVIOUS
  <2>2. Home[i] \in Workspace /\ i \in Owned(Home, Home[i])
    BY DEF ManifestAssumption, Owned
  <2>3. QED
    BY <1>1, <2>2 DEF Owned
<1>3. Home = Dest
  BY <1>2 DEF ManifestAssumption
<1>4. QED
  BY <1>3 DEF ManifestAssumption

\* Every step is a step of the abstract transfer or a stutter of it.
LEMMA StepTransfers ==
  ASSUME ManifestAssumption, MigrationInv, MigrationInv', [Next]_vars
  PROVE  [Transfer!Next]_(Transfer!vars)
<1> DEFINE Visible == IF paused THEN "hidden" ELSE Layout
<1>1. ASSUME paused' = paused, Layout' = Layout \/ paused, Outcome' = Outcome
      PROVE  Visible' = Visible /\ Outcome' = Outcome
  BY <1>1
<1>2. ASSUME paused' = paused, Layout' = Layout \/ paused, Outcome' = Outcome
      PROVE  UNCHANGED Transfer!vars
  BY <1>1, <1>2 DEF Transfer!vars
<1>3. ASSUME UNCHANGED <<backend, paused, phase>> PROVE UNCHANGED Transfer!vars
  BY <1>2, <1>3 DEF Layout, Assigned, Outcome
<1>4. CASE \E w \in Workspace : OrdinaryWrite(w)
  <2>1. PICK w \in Workspace : OrdinaryWrite(w)
    BY <1>4
  <2>2. backend' = [backend EXCEPT ![w] = Rewritten(backend[w])]
        /\ UNCHANGED <<paused, phase>>
    BY <2>1 DEF OrdinaryWrite, journal
  <2>3. \A v \in Workspace : backend'[v].owns = backend[v].owns
    BY <2>2 DEF Rewritten, MigrationInv, TypeOK
  <2>4. Layout' = Layout /\ Outcome' = Outcome
    BY <2>2, <2>3 DEF Layout, Assigned, Outcome
  <2>5. QED
    BY <1>2, <2>2, <2>4
<1>5. CASE Prepare
  <2>1. UNCHANGED <<backend, paused>> /\ phase = "none" /\ phase' = "prepared"
    BY <1>5 DEF Prepare
  <2>2. Layout' = Layout /\ Outcome' = Outcome
    BY <2>1 DEF Layout, Assigned, Outcome
  <2>3. QED
    BY <1>2, <2>1, <2>2
<1>6. CASE Pause
  <2>1. paused' /\ UNCHANGED <<backend, phase>> /\ phase # "none"
    BY <1>6 DEF Pause, journal, MigrationInv, CommandOrder
  <2>2. CASE paused
    BY <1>3, <2>1, <2>2 DEF MigrationInv, TypeOK
  <2>3. CASE ~paused
    <3>1. phase = "prepared" /\ Assigned(Home)
      BY <1>6, <2>1, <2>3 DEF MigrationInv, Unpaused, CommandOrder, Pause, InLoop, TypeOK
    <3>2. Layout = "home" /\ Outcome = "none" /\ Outcome' = Outcome
      BY <2>1, <3>1 DEF Layout, Outcome
    <3>3. QED
      BY <2>1, <2>3, <3>2 DEF Transfer!Next, Transfer!Hide
  <2>4. QED
    BY <2>2, <2>3
<1>7. CASE ReleasePause
  <2>1. paused /\ ~paused' /\ UNCHANGED <<backend, phase>>
        /\ phase \in {"verified", "restored-verified"}
    BY <1>7 DEF ReleasePause, journal, MigrationInv, CommandOrder, InLoop, TypeOK
  <2>2. Outcome' = Outcome /\ Outcome # "none"
    BY <2>1 DEF Outcome
  <2>3. Layout' = Outcome
    <3>1. CASE phase = "verified"
      <4>1. Assigned(Dest)'
        BY <2>1, <3>1 DEF MigrationInv, Unpaused
      <4>2. ~Assigned(Home)'
        BY <4>1, LayoutsDiffer DEF Assigned
      <4>3. QED
        BY <3>1, <4>1, <4>2 DEF Layout, Outcome
    <3>2. CASE phase = "restored-verified"
      BY <2>1, <3>2 DEF MigrationInv, Unpaused, Layout, Outcome
    <3>3. QED
      BY <2>1, <3>1, <3>2
  <2>4. QED
    BY <2>1, <2>2, <2>3 DEF Transfer!Next, Transfer!Show
<1>8. CASE SealVerified \/ SealRestored
  <2>1. paused /\ UNCHANGED <<backend, paused>> /\ Layout' = Layout
    BY <1>8 DEF SealVerified, SealRestored, Doing, MigrationInv, CommandOrder,
       Layout, Assigned
  <2>2. \/ phase' = "verified" /\ phase \in {"transferred", "verified"}
        \/ phase' = "restored-verified" /\ phase \in {"restored", "restored-verified"}
    BY <1>8 DEF SealVerified, SealRestored, Doing, MigrationInv, CommandOrder
  <2>3. CASE phase' = phase
    BY <1>3, <2>1, <2>3
  <2>4. CASE phase' # phase
    <3>1. Outcome = "none" /\ Outcome' \in {"home", "dest"}
      BY <2>2, <2>4 DEF Outcome
    <3>2. QED
      BY <2>1, <3>1 DEF Transfer!Next, Transfer!Decide, Transfer!Layouts
  <2>5. QED
    BY <2>3, <2>4
<1>9. CASE CheckSet \/ FinishExecute \/ CaptureRestoration \/ FinishRestore
  <2>1. paused /\ paused' = paused
    BY <1>9 DEF CheckSet, FinishExecute, CaptureRestoration, FinishRestore, Doing,
       MigrationInv, CommandOrder, InLoop
  <2>2. /\ phase \notin {"verified", "restored-verified"}
        /\ phase' \in {"applying", "transferred", "restoring", "restored"}
    BY <1>9 DEF CheckSet, FinishExecute, CaptureRestoration, FinishRestore, Doing,
       MigrationInv, CommandOrder, InLoop
  <2>3. Outcome' = Outcome
    BY <2>2 DEF Outcome
  <2>4. QED
    BY <1>2, <2>1, <2>3
<1>10. CASE \E w \in Workspace : PushPrepared(w) \/ PushInverse(w)
  <2>1. paused /\ UNCHANGED <<paused, phase>>
    BY <1>10 DEF PushPrepared, PushInverse, Push, journal
  <2>2. Outcome' = Outcome
    BY <2>1 DEF Outcome
  <2>3. QED
    BY <1>2, <2>1, <2>2
<1>11. CASE UNCHANGED vars
  BY <1>3, <1>11 DEF vars, journal
<1>12. CASE UNCHANGED <<backend, paused, phase>>
  BY <1>3, <1>12
<1>13. QED
  BY <1>4, <1>5, <1>6, <1>7, <1>8, <1>9, <1>10, <1>11, <1>12 DEF Next, CommandStep,
     WriteOne, RestoreWorkspace, Preflight, BeginExecute, BeginVerify, BeginRestore,
     BeginVerifyRestored, Begin, Stop, EstablishBaseline, VerifyPlans, CheckRestoration,
     VerifyRestoredPlans, ChooseWrite, FindWritten, ConfirmPushed, ConfirmWrite,
     FindRestored, ChooseRestore, ConfirmInverse, ConfirmRestoration, journal

\* Whatever fails and whatever is run again, the migration is one atomic
\* transfer for ordinary writers: all at home, hidden, or as was proved.
THEOREM TransferImplemented == Spec => ImplementsTransfer
<1>1. Init => Transfer!Init
  <2> SUFFICES ASSUME Init PROVE Transfer!Init
    OBVIOUS
  <2>1. Assigned(Home)
    BY FreshOwnsNothing, ManifestAssumption DEF Init, Assigned
  <2>2. QED
    BY <2>1 DEF Init, Transfer!Init, Layout, Outcome
<1>2. MigrationInv /\ MigrationInv' /\ [Next]_vars => [Transfer!Next]_(Transfer!vars)
  BY StepTransfers, ManifestAssumption
<1>3. QED
  BY <1>1, <1>2, MigrationHolds, PTL DEF Spec, ImplementsTransfer, Transfer!Spec
=============================================================================
