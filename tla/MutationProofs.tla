---------------------------- MODULE MutationProofs ----------------------------
(***************************************************************************)
(* Proofs about Mutation for any number of commands, hosts and plans.      *)
(***************************************************************************)
EXTENDS Mutation, TLAPS

\* At most one of the commands writes the saved plan.
OnePlanCommand ==
  \A j \in Jobs : \A r, s \in Run : j[r].op = "plan" /\ j[s].op = "plan" => r = s

-----------------------------------------------------------------------------
(***************************************************************************)
(* The actions of a command, in the order in which it takes them.          *)
(***************************************************************************)

Starts(r) == Open(r) \/ CopySource(r) \/ RequireSource(r) \/ LockCredential(r) \/ Rotate(r)

Plans(r) ==
  InspectSource(r) \/ (\E p \in Plan : StartPlan(r, p)) \/ EndPlan(r) \/ RecordSource(r)
  \/ CopySaved(r) \/ RequireSaved(r)

Applies(r) ==
  Decide(r) \/ Confirm(r) \/ LockPlanned(r) \/ RequireCurrent(r) \/ Prepare(r) \/ StartApply(r)

Ends(r) ==
  TofuExits(r) \/ Fail(r) \/ Interrupt(r) \/ TofuStops(r) \/ Release(r) \/ Crash(r) \/ Lose(r)

Acts(r) == Starts(r) \/ Plans(r) \/ Applies(r) \/ Ends(r)

LEMMA StepActs ==
  ASSUME NEW r, Step(r) \/ Crash(r) \/ Lose(r)
  PROVE  Acts(r)
BY DEF Step, Return, Answer, Cancel, Acts, Starts, Plans, Applies, Ends

\* What the world does: no command acts.
World ==
  \/ \E h \in Host : Lapse(h)
  \/ \E t \in Source : ChangeTree(t)
  \/ UNCHANGED vars

LEMMA NextActs ==
  ASSUME [Next]_vars
  PROVE  World \/ \E r \in Run : Acts(r)
BY StepActs DEF Next, World

-----------------------------------------------------------------------------
(***************************************************************************)
(* Types.                                                                  *)
(***************************************************************************)

LEMMA TypeKept ==
  ASSUME NamesAssumption, MutationInv, World \/ \E r \in Run : Acts(r)
  PROVE  TypeOK'
<1> USE DEF MutationInv
<1>1. CASE World
  BY <1>1 DEF World, Lapse, ChangeTree, vars, worldVars, planVars, lockVars, TypeOK
<1>2. ASSUME NEW r \in Run, Starts(r)
      PROVE  TypeOK'
  BY <1>2, NamesAssumption DEF NamesAssumption, Starts, Open, CopySource, RequireSource,
     LockCredential, Rotate, Take, GoTo, worldVars, planVars, lockVars, TypeOK, Stages, Host
<1>3. ASSUME NEW r \in Run, Plans(r)
      PROVE  TypeOK'
  <2>1. CASE \E p \in Plan : StartPlan(r, p)
    BY <2>1 DEF StartPlan, GoTo, worldVars, planVars, lockVars, TypeOK, Stages
  <2>2. CASE InspectSource(r) \/ EndPlan(r) \/ CopySaved(r) \/ RequireSaved(r)
    BY <2>2 DEF InspectSource, EndPlan, CopySaved, RequireSaved, GoTo, worldVars,
       planVars, lockVars, TypeOK, Stages
  <2>3. CASE RecordSource(r)
    <3>1. PlanFile(r) \in Plan
      BY <2>3 DEF RecordSource, PlanFile, PlanKept, SourceKept, TypeOK, Bound, Decided
    <3>2. QED
      BY <2>3, <3>1 DEF RecordSource, Unrecorded, GoTo, worldVars, planVars, lockVars,
         TypeOK, Stages
  <2>4. QED
    BY <1>3, <2>1, <2>2, <2>3 DEF Plans
<1>4. ASSUME NEW r \in Run, Applies(r)
      PROVE  TypeOK'
  <2>1. CASE LockPlanned(r)
    <3>1. LockHosts(reviewed[r]) \subseteq Host
      BY <2>1 DEF LockPlanned, PlanKept, Decided, LockHosts, Owned
    <3>2. QED
      BY <2>1, <3>1 DEF LockPlanned, Take, GoTo, worldVars, planVars, TypeOK, Stages
  <2>2. CASE Decide(r) \/ Confirm(r) \/ RequireCurrent(r)
    BY <2>2 DEF Decide, Confirm, RequireCurrent, GoTo, worldVars, planVars,
       lockVars, TypeOK, Stages
  <2>3. CASE Prepare(r) \/ StartApply(r)
    BY <2>3 DEF Prepare, StartApply, GoTo, worldVars, planVars, lockVars, TypeOK, Stages
  <2>4. QED
    BY <1>4, <2>1, <2>2, <2>3 DEF Applies
<1>5. ASSUME NEW r \in Run, Ends(r)
      PROVE  TypeOK'
  <2>1. CASE TofuExits(r) \/ Fail(r) \/ Interrupt(r) \/ Lose(r)
    BY <2>1 DEF TofuExits, Fail, Interrupt, Lose, GoTo, worldVars, planVars,
       lockVars, TypeOK, Stages
  <2>2. CASE TofuStops(r)
    BY <2>2 DEF TofuStops, planVars, lockVars, TypeOK
  <2>3. CASE Release(r)
    BY <2>3 DEF Release, Forget, GoTo, TypeOK, Stages
  <2>4. CASE Crash(r)
    BY <2>4 DEF Crash, Forget, GoTo, worldVars, TypeOK, Stages
  <2>5. QED
    BY <1>5, <2>1, <2>2, <2>3, <2>4 DEF Ends
<1>6. QED
  BY <1>1, <1>2, <1>3, <1>4, <1>5 DEF Acts

-----------------------------------------------------------------------------
(***************************************************************************)
(* What a step of one command leaves to the others.                        *)
(***************************************************************************)

LEMMA OthersKept ==
  ASSUME TypeOK, NEW r \in Run, NEW s \in Run, s # r, Acts(r)
  PROVE  /\ stage'[s] = stage[s] /\ locks'[s] = locks[s] /\ scope'[s] = scope[s]
         /\ pinned'[s] = pinned[s] /\ before'[s] = before[s] /\ private'[s] = private[s]
         /\ reviewed'[s] = reviewed[s] /\ approved'[s] = approved[s]
         /\ applied'[s] = applied[s] /\ tofu'[s] = tofu[s]
<1> USE DEF TypeOK, GoTo, worldVars, planVars, lockVars
<1>1. CASE Starts(r)
  BY <1>1 DEF Starts, Open, CopySource, RequireSource, LockCredential, Rotate, Take
<1>2. CASE Plans(r)
  BY <1>2 DEF Plans, InspectSource, StartPlan, EndPlan, RecordSource, CopySaved,
     RequireSaved
<1>3. CASE Applies(r)
  BY <1>3 DEF Applies, Decide, Confirm, LockPlanned, RequireCurrent, Prepare,
     StartApply, Take
<1>4. CASE Ends(r)
  BY <1>4 DEF Ends, TofuExits, Fail, Interrupt, TofuStops, Release, Crash, Lose, Forget
<1>5. QED
  BY <1>1, <1>2, <1>3, <1>4 DEF Acts

LEMMA WorldKept ==
  ASSUME NEW r \in Run, Acts(r)
  PROVE  installed' = installed /\ tree' = tree /\ job' = job
<1> USE DEF GoTo, worldVars, planVars, lockVars
<1>1. CASE Starts(r)
  BY <1>1 DEF Starts, Open, CopySource, RequireSource, LockCredential, Rotate
<1>2. CASE Plans(r)
  BY <1>2 DEF Plans, InspectSource, StartPlan, EndPlan, RecordSource, CopySaved,
     RequireSaved
<1>3. CASE Applies(r)
  BY <1>3 DEF Applies, Decide, Confirm, LockPlanned, RequireCurrent, Prepare, StartApply
<1>4. CASE Ends(r)
  BY <1>4 DEF Ends, TofuExits, Fail, Interrupt, TofuStops, Release, Crash, Lose
<1>5. QED
  BY <1>1, <1>2, <1>3, <1>4 DEF Acts

\* No command takes the lock that names another one.
LEMMA OwnerKept ==
  ASSUME NamesAssumption, TypeOK, NEW r \in Run, NEW s \in Run, s # r, Acts(r),
         NEW h \in Host, owner[h] = s
  PROVE  owner'[h] = s
<1> USE DEF TypeOK, worldVars, NamesAssumption
<1>1. CASE Starts(r)
  BY <1>1 DEF Starts, Open, CopySource, RequireSource, LockCredential, Rotate, Take
<1>2. CASE Plans(r)
  BY <1>2 DEF Plans, InspectSource, StartPlan, EndPlan, RecordSource, CopySaved,
     RequireSaved
<1>3. CASE Applies(r)
  BY <1>3 DEF Applies, Decide, Confirm, LockPlanned, RequireCurrent, Prepare,
     StartApply, Take
<1>4. CASE Ends(r)
  BY <1>4 DEF Ends, TofuExits, Fail, Interrupt, TofuStops, Release, Crash, Lose
<1>5. QED
  BY <1>1, <1>2, <1>3, <1>4 DEF Acts

\* The device, the saved plan and the records change in few actions.
LEMMA SharedKept ==
  ASSUME NEW r \in Run, Acts(r)
  PROVE  /\ Rotate(r) \/ device' = device
         /\ EndPlan(r) \/ TofuStops(r) \/ savedPlan' = savedPlan
         /\ RecordSource(r) \/ record' = record
<1> USE DEF worldVars
<1>1. CASE Starts(r)
  BY <1>1 DEF Starts, Open, CopySource, RequireSource, LockCredential, Rotate
<1>2. CASE Plans(r)
  BY <1>2 DEF Plans, InspectSource, StartPlan, EndPlan, RecordSource, CopySaved,
     RequireSaved
<1>3. CASE Applies(r)
  BY <1>3 DEF Applies, Decide, Confirm, LockPlanned, RequireCurrent, Prepare, StartApply
<1>4. CASE Ends(r)
  BY <1>4 DEF Ends, TofuExits, Fail, Interrupt, TofuStops, Release, Crash, Lose
<1>5. QED
  BY <1>1, <1>2, <1>3, <1>4 DEF Acts

-----------------------------------------------------------------------------
(***************************************************************************)
(* What a step keeps of the command that takes it.                         *)
(***************************************************************************)

\* A Set that takes hosts owns them and keeps those it had.
LEMMA TakenAreOwned ==
  ASSUME TypeOK, NEW r \in Run, NEW hosts \in SUBSET Host, Take(r, hosts),
         \A h \in scope[r] : owner[h] = r
  PROVE  /\ scope'[r] = scope[r] \cup hosts /\ locks'[r] = "held"
         /\ \A h \in scope'[r] : owner'[h] = r
BY DEF Take, TypeOK

\* The hosts that guard a credential.
LEMMA CredentialHosts ==
  ASSUME NamesAssumption
  PROVE  Endpoint \subseteq Host /\ CredentialHost \in Endpoint
BY DEF NamesAssumption, Host

\* A plan that is locked for has an owner for each change.
LEMMA PlannedHosts ==
  ASSUME MutationInv, NEW r \in Run, LockPlanned(r)
  PROVE  LockHosts(reviewed[r]) \subseteq Host
BY DEF MutationInv, LockPlanned, PlanKept, Decided, LockHosts, Owned

LEMMA TofuStagesStep ==
  ASSUME TypeOK, NEW r \in Run, TofuStages(r), Acts(r)
  PROVE  TofuStages(r)'
<1> USE DEF TypeOK, TofuStages, GoTo
<1>1. CASE Starts(r)
  BY <1>1 DEF Starts, Open, CopySource, RequireSource, LockCredential, Rotate
<1>2. CASE Plans(r)
  BY <1>2 DEF Plans, InspectSource, StartPlan, EndPlan, RecordSource, CopySaved,
     RequireSaved
<1>3. CASE Applies(r)
  BY <1>3 DEF Applies, Decide, Confirm, LockPlanned, RequireCurrent, Prepare, StartApply
<1>4. CASE Ends(r)
  BY <1>4 DEF Ends, TofuExits, Fail, Calls, Stages, Interrupt, TofuStops, Release,
     Crash, Lose
<1>5. QED
  BY <1>1, <1>2, <1>3, <1>4 DEF Acts

LEMMA ScopeBackedStep ==
  ASSUME NamesAssumption, MutationInv, NEW r \in Run, Acts(r)
  PROVE  ScopeBacked(r)'
<1> USE DEF MutationInv, TypeOK, TofuStages, ScopeBacked, GoTo, lockVars, worldVars
<1>1. CASE Starts(r)
  <2>1. CASE Open(r) \/ CopySource(r) \/ RequireSource(r) \/ Rotate(r)
    BY <2>1 DEF Open, CopySource, RequireSource, Rotate
  <2>2. CASE LockCredential(r)
    BY <2>2, TakenAreOwned, CredentialHosts DEF LockCredential, Take
  <2>3. QED
    BY <1>1, <2>1, <2>2 DEF Starts
<1>2. CASE Plans(r)
  BY <1>2 DEF Plans, InspectSource, StartPlan, EndPlan, RecordSource, CopySaved,
     RequireSaved
<1>3. CASE LockPlanned(r)
  <2>1. LockHosts(reviewed[r]) \subseteq Host
    BY <1>3, PlannedHosts
  <2>2. QED
    BY <1>3, <2>1, TakenAreOwned DEF LockPlanned, Take
<1>4. CASE Decide(r) \/ Confirm(r) \/ RequireCurrent(r) \/ Prepare(r)
  BY <1>4 DEF Decide, Confirm, RequireCurrent, Prepare
<1>5. CASE StartApply(r)
  BY <1>5 DEF StartApply, InScope
<1>6. CASE Ends(r)
  BY <1>6 DEF Ends, TofuExits, Fail, Calls, Stages, Interrupt, TofuStops, Release,
     Crash, Lose, Forget
<1>7. QED
  BY <1>1, <1>2, <1>3, <1>4, <1>5, <1>6 DEF Acts, Applies

LEMMA CredentialGuardedStep ==
  ASSUME NamesAssumption, MutationInv, NEW r \in Run, Acts(r)
  PROVE  CredentialGuarded(r)'
<1> USE DEF MutationInv, TypeOK, TofuStages, CredentialGuarded, Rotated, Bound, Decided,
            GoTo, lockVars, worldVars
<1>1. CASE Starts(r)
  <2>1. CASE Open(r) \/ CopySource(r) \/ RequireSource(r)
    BY <2>1 DEF Open, CopySource, RequireSource
  <2>2. CASE LockCredential(r)
    <3>1. CredentialHost \in scope'[r] /\ locks'[r] = "held"
      BY <2>2, CredentialHosts, TakenAreOwned DEF LockCredential, ScopeBacked
    <3>2. QED
      BY <2>2, <3>1 DEF LockCredential
  <2>3. CASE Rotate(r)
    BY <2>3 DEF Rotate
  <2>4. QED
    BY <1>1, <2>1, <2>2, <2>3 DEF Starts
<1>2. CASE Plans(r)
  BY <1>2 DEF Plans, InspectSource, StartPlan, EndPlan, RecordSource, CopySaved,
     RequireSaved
<1>3. CASE LockPlanned(r)
  BY <1>3 DEF LockPlanned, Take
<1>4. CASE Decide(r) \/ Confirm(r) \/ RequireCurrent(r) \/ Prepare(r)
  BY <1>4 DEF Decide, Confirm, RequireCurrent, Prepare
<1>5. CASE StartApply(r)
  BY <1>5 DEF StartApply, InScope
<1>6. CASE Ends(r)
  BY <1>6 DEF Ends, TofuExits, Fail, Calls, Stages, Interrupt, TofuStops, Release,
     Crash, Lose, Forget
<1>7. QED
  BY <1>1, <1>2, <1>3, <1>4, <1>5, <1>6 DEF Acts, Applies

LEMMA PlanKeptStep ==
  ASSUME NamesAssumption, MutationInv, NEW r \in Run, Acts(r)
  PROVE  PlanKept(r)'
<1> USE DEF MutationInv, TypeOK, PlanKept, Bound, Decided, NeedsYes, Owned, GoTo,
            lockVars, planVars
<1>1. job' = job
  BY WorldKept
<1>2. CASE Starts(r)
  BY <1>1, <1>2 DEF Starts, Open, CopySource, RequireSource, LockCredential, Rotate, Take
<1>3. CASE Plans(r)
  <2>1. CASE \E p \in Plan : StartPlan(r, p)
    BY <1>1, <2>1, NamesAssumption DEF StartPlan, NamesAssumption
  <2>2. CASE InspectSource(r) \/ EndPlan(r) \/ RecordSource(r)
    BY <1>1, <2>2 DEF InspectSource, EndPlan, RecordSource
  <2>3. CASE CopySaved(r) \/ RequireSaved(r)
    BY <1>1, <2>3 DEF CopySaved, RequireSaved
  <2>4. QED
    BY <1>3, <2>1, <2>2, <2>3 DEF Plans
<1>4. CASE Applies(r)
  <2>1. CASE Decide(r)
    BY <1>1, <2>1 DEF Decide
  <2>2. CASE Confirm(r) \/ RequireCurrent(r)
    BY <1>1, <2>2 DEF Confirm, RequireCurrent
  <2>3. CASE LockPlanned(r)
    BY <1>1, <2>3 DEF LockPlanned, Take
  <2>4. CASE Prepare(r)
    BY <1>1, <2>4 DEF Prepare, InScope, RequiredHosts, LockHosts
  <2>5. CASE StartApply(r)
    BY <1>1, <2>5 DEF StartApply
  <2>6. QED
    BY <1>4, <2>1, <2>2, <2>3, <2>4, <2>5 DEF Applies
<1>5. CASE Ends(r)
  <2>1. CASE TofuExits(r) \/ Fail(r) \/ Interrupt(r) \/ TofuStops(r) \/ Lose(r)
    BY <1>1, <2>1 DEF TofuExits, Fail, Calls, Stages, Interrupt, TofuStops, Lose
  <2>2. CASE Release(r) \/ Crash(r)
    BY <1>1, <2>2 DEF Release, Crash, Forget
  <2>3. QED
    BY <1>5, <2>1, <2>2 DEF Ends
<1>6. QED
  BY <1>2, <1>3, <1>4, <1>5 DEF Acts

LEMMA SourceKeptStep ==
  ASSUME NamesAssumption, MutationInv, NEW r \in Run, Acts(r)
  PROVE  SourceKept(r)'
<1> USE DEF MutationInv, TypeOK, SourceKept, Bound, Decided, Records, GoTo
<1>1. job' = job /\ installed' = installed /\ tree' = tree
  BY WorldKept
<1>2. CASE Starts(r)
  BY <1>1, <1>2 DEF Starts, Open, Verified, CopySource, RequireSource, LockCredential,
     Rotate, planVars
<1>3. CASE Plans(r)
  <2>1. CASE \E p \in Plan : StartPlan(r, p)
    BY <1>1, <2>1 DEF StartPlan
  <2>2. CASE InspectSource(r)
    BY <1>1, <2>2 DEF InspectSource, Current
  <2>3. CASE EndPlan(r)
    BY <1>1, <2>3 DEF EndPlan, planVars
  <2>4. CASE RecordSource(r)
    BY <1>1, <2>4 DEF RecordSource, planVars
  <2>5. CASE CopySaved(r)
    BY <1>1, <2>5 DEF CopySaved
  <2>6. CASE RequireSaved(r)
    BY <1>1, <2>6 DEF RequireSaved, Recorded, RecordTrue, Current
  <2>7. QED
    BY <1>3, <2>1, <2>2, <2>3, <2>4, <2>5, <2>6 DEF Plans
<1>4. CASE Applies(r)
  BY <1>1, <1>4 DEF Applies, Decide, Confirm, LockPlanned, RequireCurrent, Prepare,
     StartApply, worldVars, planVars
<1>5. CASE Ends(r)
  BY <1>1, <1>5 DEF Ends, TofuExits, Fail, Calls, Stages, Interrupt, TofuStops,
     Release, Crash, Lose, Forget, worldVars, planVars
<1>6. QED
  BY <1>2, <1>3, <1>4, <1>5 DEF Acts

LEMMA RecordTrueStep ==
  ASSUME MutationInv, NEW r \in Run, Acts(r)
  PROVE  RecordTrue'
<1> USE DEF MutationInv, TypeOK, RecordTrue
<1>1. CASE RecordSource(r)
  <2>1. CASE tree = before[r]
    <3>1. PlanFile(r).from = tree
      BY <1>1, <2>1 DEF RecordSource, PlanFile, SourceKept, Records
    <3>2. QED
      BY <1>1, <2>1, <3>1 DEF RecordSource, Unrecorded
  <2>2. CASE tree # before[r]
    BY <1>1, <2>2 DEF RecordSource, Unrecorded
  <2>3. QED
    BY <2>1, <2>2
<1>2. CASE record' = record
  BY <1>2
<1>3. QED
  BY <1>1, <1>2, SharedKept

\* OpenTofu is given the plan that was reviewed, and made from a known source.
LEMMA AppliedStep ==
  ASSUME NamesAssumption, MutationInv, NEW r \in Run, Acts(r)
  PROVE  /\ applied'[r] = NoPlan \/ Prepare(r)
              \/ (/\ applied'[r] = applied[r] /\ reviewed'[r] = reviewed[r]
                  /\ approved'[r] = approved[r] /\ before'[r] = before[r]
                  /\ pinned'[r] = pinned[r])
<1> USE DEF MutationInv, TypeOK, PlanKept, GoTo
<1>1. CASE Starts(r)
  BY <1>1 DEF Starts, Open, CopySource, RequireSource, LockCredential, Rotate, planVars
<1>2. CASE Plans(r)
  BY <1>2 DEF Plans, InspectSource, StartPlan, EndPlan, RecordSource, CopySaved,
     RequireSaved, planVars
<1>3. CASE Applies(r)
  BY <1>3 DEF Applies, Decide, Confirm, LockPlanned, RequireCurrent, StartApply, planVars
<1>4. CASE Ends(r)
  BY <1>4 DEF Ends, TofuExits, Fail, Interrupt, TofuStops, Release, Crash, Lose,
     Forget, planVars
<1>5. QED
  BY <1>1, <1>2, <1>3, <1>4 DEF Acts

LEMMA AppliedAsReviewedStep ==
  ASSUME NamesAssumption, MutationInv, NEW r \in Run, Acts(r)
  PROVE  AppliedAsReviewed'
<1> USE DEF MutationInv, AppliedAsReviewed, Owned, NeedsYes
<1>1. job' = job
  BY WorldKept
<1> SUFFICES ASSUME NEW s \in Run, applied'[s] # NoPlan
             PROVE  /\ applied'[s] = reviewed'[s]
                    /\ Owned(applied'[s])
                    /\ NeedsYes(s, applied[s])' => approved'[s]
  BY <1>1
<1>2. CASE s # r
  BY <1>1, <1>2, OthersKept
<1>3. CASE s = r /\ Prepare(r)
  BY <1>1, <1>3 DEF Prepare, PlanKept, Decided, TypeOK
<1>4. CASE s = r /\ ~Prepare(r)
  BY <1>1, <1>4, AppliedStep
<1>5. QED
  BY <1>2, <1>3, <1>4

LEMMA SourceBoundStep ==
  ASSUME NamesAssumption, MutationInv, NEW r \in Run, Acts(r)
  PROVE  SourceBound'
<1> USE DEF MutationInv, SourceBound
<1>1. job' = job /\ installed' = installed
  BY WorldKept
<1> SUFFICES ASSUME NEW s \in Run, applied'[s] # NoPlan, installed \/ job[s].saved
             PROVE  /\ applied'[s].from = before'[s]
                    /\ before'[s] \in Clean
                    /\ installed => applied'[s].from = pinned'[s]
  BY <1>1
<1>2. CASE s # r
  BY <1>2, OthersKept
<1>3. CASE s = r /\ Prepare(r)
  BY <1>3 DEF Prepare, SourceKept, Bound, Decided, TypeOK
<1>4. CASE s = r /\ ~Prepare(r)
  BY <1>4, AppliedStep
<1>5. QED
  BY <1>2, <1>3, <1>4

-----------------------------------------------------------------------------
(***************************************************************************)
(* What a step of one command keeps of another one.                        *)
(***************************************************************************)

LEMMA OtherRunStep ==
  ASSUME NamesAssumption, OnePlanCommand, MutationInv,
         NEW r \in Run, Acts(r), NEW s \in Run, s # r
  PROVE  /\ TofuStages(s)' /\ ScopeBacked(s)' /\ CredentialGuarded(s)'
         /\ PlanKept(s)' /\ SourceKept(s)'
<1> USE DEF MutationInv
<1>1. /\ stage'[s] = stage[s] /\ locks'[s] = locks[s] /\ scope'[s] = scope[s]
      /\ pinned'[s] = pinned[s] /\ before'[s] = before[s] /\ private'[s] = private[s]
      /\ reviewed'[s] = reviewed[s] /\ approved'[s] = approved[s]
      /\ applied'[s] = applied[s] /\ tofu'[s] = tofu[s]
  BY OthersKept
<1>2. installed' = installed /\ tree' = tree /\ job' = job
  BY WorldKept
<1>3. TofuStages(s)'
  BY <1>1 DEF TofuStages
<1>4. ScopeBacked(s)'
  BY <1>1, OwnerKept DEF ScopeBacked, TypeOK
<1>5. CredentialGuarded(s)'
  <2>1. CASE device' = device
    BY <1>1, <1>2, <2>1 DEF CredentialGuarded
  <2>2. CASE Rotate(r)
    <3>1. owner[CredentialHost] = r
      BY <2>2 DEF Rotate, CredentialGuarded, ScopeBacked
    <3>2. CredentialHost \in scope[s] => ~(locks[s] = "held" \/ tofu[s] # "none")
      BY <3>1 DEF ScopeBacked
    <3>3. QED
      BY <1>1, <1>2, <3>2 DEF CredentialGuarded
  <2>3. QED
    BY <2>1, <2>2, SharedKept
<1>6. PlanKept(s)'
  BY <1>1, <1>2 DEF PlanKept, Owned, NeedsYes
<1>7. SourceKept(s)'
  <2>1. job[s].op = "plan" => savedPlan' = savedPlan
    <3>1. job[s].op = "plan" => job[r].op # "plan"
      BY DEF OnePlanCommand, TypeOK
    <3>2. EndPlan(r) \/ TofuStops(r) => job[r].op = "plan" \/ savedPlan' = savedPlan
      BY DEF EndPlan, TofuStops
    <3>3. QED
      BY <3>1, <3>2, SharedKept
  <2>2. QED
    BY <1>1, <1>2, <2>1 DEF SourceKept, Records
<1>8. QED
  BY <1>3, <1>4, <1>5, <1>6, <1>7

LEMMA WorldStep ==
  ASSUME NamesAssumption, ~ChangesBack, MutationInv, World
  PROVE  MutationInv'
<1> USE DEF MutationInv
<1>1. TypeOK'
  BY TypeKept
<1>2. CASE \E h \in Host : Lapse(h)
  <2>1. \A r \in Run : ScopeBacked(r)'
    BY <1>2 DEF Lapse, ScopeBacked, TypeOK, lockVars
  <2>2. QED
    BY <1>1, <1>2, <2>1 DEF Lapse, lockVars, planVars, RecordTrue, TofuStages,
       CredentialGuarded, PlanKept, SourceKept, AppliedAsReviewed, SourceBound,
       Records, NeedsYes, Owned
<1>3. ASSUME NEW t \in Source, ChangeTree(t)
      PROVE  MutationInv'
  <2>1. \A r \in Run : SourceKept(r)'
    BY <1>3 DEF ChangeTree, Planning, SourceKept, Records, planVars
  <2>2. QED
    BY <1>1, <1>3, <2>1 DEF ChangeTree, lockVars, planVars, RecordTrue, TofuStages,
       ScopeBacked, CredentialGuarded, PlanKept, AppliedAsReviewed, SourceBound,
       NeedsYes, Owned
<1>4. CASE UNCHANGED vars
  BY <1>1, <1>4 DEF vars, worldVars, lockVars, planVars, RecordTrue, TofuStages,
     ScopeBacked, CredentialGuarded, PlanKept, SourceKept, AppliedAsReviewed,
     SourceBound, Records, NeedsYes, Owned
<1>5. QED
  BY <1>2, <1>3, <1>4 DEF World

LEMMA ActsStep ==
  ASSUME NamesAssumption, OnePlanCommand, MutationInv, NEW r \in Run, Acts(r)
  PROVE  MutationInv'
<1>1. TypeOK'
  BY TypeKept
<1>2. RecordTrue' /\ AppliedAsReviewed' /\ SourceBound'
  BY RecordTrueStep, AppliedAsReviewedStep, SourceBoundStep
<1>3. /\ TofuStages(r)' /\ ScopeBacked(r)' /\ CredentialGuarded(r)'
      /\ PlanKept(r)' /\ SourceKept(r)'
  BY TofuStagesStep, ScopeBackedStep, CredentialGuardedStep, PlanKeptStep,
     SourceKeptStep DEF MutationInv
<1>4. QED
  BY <1>1, <1>2, <1>3, OtherRunStep DEF MutationInv

\* Every step keeps the invariant.
LEMMA NextInv ==
  ASSUME NamesAssumption, OnePlanCommand, ~ChangesBack, MutationInv, [Next]_vars
  PROVE  MutationInv'
BY NextActs, ActsStep, WorldStep

LEMMA InitInv ==
  ASSUME NamesAssumption, Init
  PROVE  MutationInv
<1>1. TypeOK
  BY DEF Init, TypeOK, Stages, Plan
<1>2. RecordTrue
  BY DEF Init, RecordTrue
<1>3. QED
  BY <1>1, <1>2 DEF Init, MutationInv, TofuStages, ScopeBacked, CredentialGuarded,
     PlanKept, SourceKept, AppliedAsReviewed, SourceBound, Bound, Decided, Rotated

-----------------------------------------------------------------------------
(***************************************************************************)
(* The theorems.  They assume that one command at most writes the saved    *)
(* plan, and that a checkout does not change and change back while it is   *)
(* planned.                                                                *)
(***************************************************************************)

\* The state of every command agrees, always, with the locks, the device, the
\* checkout and the records that commands share (runPlannedMutation).
THEOREM MutationHolds ==
  ASSUME OnePlanCommand, ~ChangesBack
  PROVE  Spec => []MutationInv
<1>1. Init => MutationInv
  BY InitInv, NamesAssumption
<1>2. MutationInv /\ [Next]_vars => MutationInv'
  BY NextInv, NamesAssumption
<1>3. QED
  BY <1>1, <1>2, PTL DEF Spec

\* OpenTofu is given the reviewed plan (copyPrivateFile, copySavedPlan).
THEOREM ReviewedIsApplied ==
  ASSUME OnePlanCommand, ~ChangesBack
  PROVE  Spec => []AppliedAsReviewed
<1>1. MutationInv => AppliedAsReviewed
  BY DEF MutationInv
<1>2. QED
  BY <1>1, MutationHolds, PTL

\* What is applied was made from the source that was verified
\* (recordTofuPlanSource, requireTofuPlanSource).
THEOREM SourceIsBound ==
  ASSUME OnePlanCommand, ~ChangesBack
  PROVE  Spec => []SourceBound
<1>1. MutationInv => SourceBound
  BY DEF MutationInv
<1>2. QED
  BY <1>1, MutationHolds, PTL

\* The device has the password of the command whose OpenTofu runs
\* (prepareExplicitCredential).
THEOREM CredentialHolds ==
  ASSUME OnePlanCommand, ~ChangesBack
  PROVE  Spec => []CredentialInForce
<1>1. MutationInv => CredentialInForce
  BY DEF MutationInv, CredentialGuarded, CredentialInForce
<1>2. QED
  BY <1>1, MutationHolds, PTL

\* Only the command that takes a step can become permitted by it.
LEMMA PermittedGrows ==
  ASSUME NamesAssumption, MutationInv, NEW r \in Run, Acts(r), NEW h \in Host
  PROVE  Permitted'[h] \subseteq Permitted[h] \cup {r}
<1> SUFFICES ASSUME NEW s \in Permitted'[h], s # r
             PROVE  s \in Permitted[h]
  OBVIOUS
<1>1. s \in Run
  BY DEF Permitted
<1>2. applied'[s] = applied[s] /\ tofu'[s] = tofu[s]
  BY <1>1, OthersKept DEF MutationInv
<1>3. QED
  BY <1>1, <1>2 DEF Permitted

\* Commands hold the locks of what they apply as the lease asks
\* (lockPlannedMutation, Scope.Check).
THEOREM LeaseImplemented ==
  ASSUME OnePlanCommand, ~ChangesBack
  PROVE  Spec => ImplementsLease
<1>1. Init => Lease!Init
  BY DEF Init, Lease!Init, Permitted
<1>2. MutationInv /\ MutationInv' /\ [Next]_vars => [Lease!Next]_Permitted
  <2> SUFFICES ASSUME MutationInv, MutationInv', [Next]_vars
               PROVE  [Lease!Next]_Permitted
    OBVIOUS
  <2>1. CASE World
    <3>1. tofu' = tofu /\ applied' = applied
      BY <2>1 DEF World, Lapse, ChangeTree, vars, planVars
    <3>2. Permitted' = Permitted
      BY <3>1 DEF Permitted
    <3>3. QED
      BY <3>2
  <2>2. ASSUME NEW r \in Run, Acts(r)
        PROVE  Lease!Grant(r)
    <3>1. Permitted' \in [Host -> SUBSET Run]
      BY DEF Permitted
    <3>2. \A h \in Host : Permitted'[h] \subseteq Permitted[h] \cup {r}
      BY <2>2, PermittedGrows, NamesAssumption
    <3>3. \A h \in Host : Lease!AtMostOne(Permitted'[h])
      <4>1. ASSUME NEW h \in Host
            PROVE  Lease!AtMostOne(Permitted'[h])
        <5>1. \A s \in Permitted'[h] : owner'[h] = s
          BY DEF Permitted, MutationInv, PlanKept, ScopeBacked
        <5>2. QED
          BY <5>1 DEF Lease!AtMostOne
      <4>2. QED
        BY <4>1
    <3>4. QED
      BY <3>1, <3>2, <3>3 DEF Lease!Grant, Permitted
  <2>3. QED
    BY <2>1, <2>2, NextActs DEF Lease!Next
<1>3. QED
  BY <1>1, <1>2, MutationHolds, PTL DEF Spec, ImplementsLease, Lease!Spec
=============================================================================
