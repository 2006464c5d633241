------------------------------ MODULE Mutation ------------------------------
(***************************************************************************)
(* The commands of configsctl tofu that change infrastructure, and the     *)
(* plan commands that save a plan for them.  An apply plans, or copies a   *)
(* saved plan, shows it, decides from it which hosts to lock, asks the     *)
(* operator, locks, checks again what it had checked, and hands its own    *)
(* copy of the plan to OpenTofu.  Between any two steps the checkout moves,*)
(* other commands rewrite the saved plan, rotate the credential of the     *)
(* device, or take a lock that was lost.                                   *)
(*                                                                         *)
(* The host locks are those HostLock describes, seen from a command: all   *)
(* hosts are taken or none, a lost Set is never usable again, and a host   *)
(* gives up the record of a lost Set only after the command had the time   *)
(* to stop OpenTofu.                                                       *)
(***************************************************************************)
CONSTANTS
  Run,             \* run ids: one command each
  Jobs,            \* what the commands may be, for all runs together
  Endpoint,        \* hosts of lock_endpoints
  Guest,           \* guests that have a lock of their own
  Stray,           \* what a plan touches whose owner nobody declared
  CredentialHost,  \* lock_host of the credential
  Touches,         \* the sets a plan may touch
  Source,          \* states of the checkout, or of the installed files
  Clean,           \* those without uncommitted, or with all attested, files
  Merged,          \* and those at a commit that origin/main contains
  NoRun,           \* the holder of a free lock, or of no credential
  NoPlan,          \* no plan
  NoSource,        \* no source
  ChangesBack      \* a checkout may change and change back while it is planned

\* An apply of its own plan or of the saved one, or a plan -out.
Job == [op : {"apply", "plan"}, saved : BOOLEAN, credential : BOOLEAN, auto : BOOLEAN]

Host == Endpoint \cup Guest

Plan == [touches : Touches, changed : BOOLEAN, from : Source]

ASSUME NamesAssumption ==
  /\ Jobs \subseteq [Run -> {j \in Job : j.op = "plan" => ~j.saved}]
  /\ CredentialHost \in Endpoint
  /\ Stray \notin Host
  /\ Touches \subseteq SUBSET (Host \cup {Stray})
  /\ Clean \subseteq Source
  /\ Merged \subseteq Clean
  /\ NoRun \notin Run
  /\ NoPlan \notin Plan
  /\ NoSource \notin Source
  /\ ChangesBack \in BOOLEAN

VARIABLES
  installed,  \* the settings name an installed source
  tree,       \* the checkout, or the installed artifact
  savedPlan,  \* the plan in the file that plan -out writes
  record,     \* the plan-source cache: the source recorded for a plan
  owner,      \* owner[h]: the run the lock of h names
  device,     \* the run whose password the device accepts
  stage,      \* stage[r]: how far the command has come
  job,        \* job[r]: what the command is
  locks,      \* locks[r]: the Set of r: none, held or lost
  scope,      \* scope[r]: the hosts of the scope that r has
  pinned,     \* pinned[r]: the artifact r verified and copied when it started
  before,     \* before[r]: the source that the plan of r is compared with
  private,    \* private[r]: the plan in the private directory of r
  reviewed,   \* reviewed[r]: the plan whose digest, output and hosts r has
  approved,   \* approved[r]: the operator answered yes
  applied,    \* applied[r]: the copy that OpenTofu is given
  tofu        \* tofu[r]: the OpenTofu child of r

worldVars == <<installed, tree, savedPlan, record, owner, device>>
planVars == <<pinned, before, private, reviewed, approved, applied>>
lockVars == <<locks, scope>>
vars == <<worldVars, stage, job, lockVars, planVars, tofu>>

Stages == {"new", "verified", "opened", "admitted", "guarded", "ready", "inspected", "planning",
           "drawn", "copied", "planned", "asking", "approved", "locked", "checked",
           "prepared", "applying", "ending", "over", "dead"}

\* Stages at which the command is in a call that may return an error.
Calls == Stages \ {"new", "planning", "applying", "ending", "over", "dead"}

TypeOK ==
  /\ installed \in BOOLEAN
  /\ tree \in Source
  /\ savedPlan \in Plan \cup {NoPlan}
  /\ record \in SUBSET [plan : Plan, source : Source]
  /\ owner \in [Host -> Run \cup {NoRun}]
  /\ device \in Run \cup {NoRun}
  /\ stage \in [Run -> Stages]
  /\ job \in Jobs
  /\ locks \in [Run -> {"none", "held", "lost"}]
  /\ scope \in [Run -> SUBSET Host]
  /\ pinned \in [Run -> Source \cup {NoSource}]
  /\ before \in [Run -> Source \cup {NoSource}]
  /\ private \in [Run -> Plan \cup {NoPlan}]
  /\ reviewed \in [Run -> Plan \cup {NoPlan}]
  /\ approved \in [Run -> BOOLEAN]
  /\ applied \in [Run -> Plan \cup {NoPlan}]
  /\ tofu \in [Run -> {"none", "plan", "apply", "stopping"}]

-----------------------------------------------------------------------------
(***************************************************************************)
(* What the steps ask.                                                     *)
(***************************************************************************)

\* recordTofuPlanSource runs after the plan.
Records(r) == installed \/ job[r].op = "plan"

\* The credential of a device is rotated, or deployment state is written.
Writes(r) == job[r].credential \/ job[r].op = "apply"

\* Verify: the installation is committed, and each file and directory matches
\* what the host-artifact API has just seen of it.
Verified(t) == t \in Clean

\* Require: the record of these plan bytes names the current clean source.
Recorded(p, current) ==
  current \in Clean /\ [plan |-> p, source |-> current] \in record

\* An installed source must still be the one this command verified.
Current(r) == installed => tree = pinned[r]

\* DecideIndependent and LockHosts, for a plan with an owner for each change.
LockHosts(p) == p.touches

Owned(p) == p.touches \subseteq Host

\* confirmMutation is called.
NeedsYes(r, p) == p.changed /\ ~job[r].saved /\ ~job[r].auto

\* The hosts that tofurun requires in the scope.
RequiredHosts(r) ==
  LockHosts(reviewed[r]) \cup (IF job[r].credential THEN {CredentialHost} ELSE {})

\* Mutant of InScope: the scope is asked for its hosts only.
InScopeStale(r) == RequiredHosts(r) \subseteq scope[r]

\* Scope.Check
InScope(r) == locks[r] = "held" /\ RequiredHosts(r) \subseteq scope[r]

GoTo(r, s) == stage' = [stage EXCEPT ![r] = s]

\* Mutant of Take: more hosts for a Set replace those it had.
TakeReplacing(r, hosts) ==
  /\ \A h \in hosts : owner[h] \in {NoRun, r}
  /\ owner' = [h \in Host |-> IF h \in hosts THEN r ELSE owner[h]]
  /\ locks' = [locks EXCEPT ![r] = "held"]
  /\ scope' = [scope EXCEPT ![r] = hosts]

\* Either all hosts are locked for r, or the caller does not go on.
Take(r, hosts) ==
  /\ \A h \in hosts : owner[h] \in {NoRun, r}
  /\ owner' = [h \in Host |-> IF h \in hosts THEN r ELSE owner[h]]
  /\ locks' = [locks EXCEPT ![r] = "held"]
  /\ scope' = [scope EXCEPT ![r] = @ \cup hosts]

-----------------------------------------------------------------------------
(***************************************************************************)
(* From the start of a command to its plan.                                *)
(***************************************************************************)

\* prepareInstalledTofuSource verifies the installed source; a checkout is used
\* where it is.
Open(r) ==
  /\ stage[r] = "new"
  /\ installed => Verified(tree)
  /\ GoTo(r, IF installed THEN "verified" ELSE "opened")
  /\ pinned' = [pinned EXCEPT ![r] = IF installed THEN tree ELSE NoSource]
  /\ UNCHANGED <<worldVars, job, lockVars, before, private, reviewed, approved, applied, tofu>>

\* Copy reads each file again, against the observation that Verify was given.
CopySource(r) ==
  /\ stage[r] = "verified"
  /\ tree = pinned[r]
  /\ GoTo(r, "opened")
  /\ UNCHANGED <<worldVars, job, lockVars, planVars, tofu>>

\* requireMergedTofuSource
RequireSource(r) ==
  /\ stage[r] = "opened"
  /\ IF installed
     THEN Current(r)
     ELSE Writes(r) => tree \in Merged
  /\ job[r].saved => Recorded(savedPlan, tree)
  /\ GoTo(r, IF job[r].credential THEN "admitted" ELSE "ready")
  /\ UNCHANGED <<worldVars, job, lockVars, planVars, tofu>>

\* prepareExplicitCredential locks every endpoint, lockCredentialHost one.
LockCredential(r) ==
  /\ stage[r] = "admitted"
  /\ Take(r, IF job[r].op = "apply" THEN Endpoint ELSE {CredentialHost})
  /\ GoTo(r, "guarded")
  /\ UNCHANGED <<installed, tree, savedPlan, record, device, job, planVars, tofu>>

\* Mutant of Rotate: a lost lock does not end the requests to the device.
RotateAnyway(r) ==
  /\ stage[r] = "guarded"
  /\ Current(r)
  /\ device' = r
  /\ GoTo(r, "ready")
  /\ UNCHANGED <<installed, tree, savedPlan, record, owner, job, lockVars, planVars, tofu>>

\* PrepareCredential: the device accepts a new password, which only this
\* command knows; it may be set although the command then fails.  The check of
\* the artifact and the requests are one step: the device knows no artifact.
Rotate(r) ==
  /\ stage[r] = "guarded"
  /\ locks[r] = "held"
  /\ Current(r)
  /\ device' = r
  /\ \E s \in {"ready", "ending"} : GoTo(r, s)
  /\ UNCHANGED <<installed, tree, savedPlan, record, owner, job, lockVars, planVars, tofu>>

\* inspectTofuPlanSource, before a plan whose source will be recorded.
InspectSource(r) ==
  /\ stage[r] = "ready"
  /\ Records(r) /\ ~job[r].saved
  /\ Current(r)
  /\ before' = [before EXCEPT ![r] = tree]
  /\ GoTo(r, "inspected")
  /\ UNCHANGED <<worldVars, job, lockVars, pinned, private, reviewed, approved, applied, tofu>>

\* tofu plan reads its copy of the installed source, or the checkout.  A child
\* is not started once the context of a lost lock is cancelled.
StartPlan(r, p) ==
  /\ stage[r] = (IF Records(r) THEN "inspected" ELSE "ready")
  /\ ~job[r].saved
  /\ locks[r] # "lost"
  /\ p.from = (IF installed THEN pinned[r] ELSE tree)
  /\ p.touches # {} => p.changed
  /\ private' = [private EXCEPT ![r] = p]
  /\ tofu' = [tofu EXCEPT ![r] = "plan"]
  /\ GoTo(r, "planning")
  /\ UNCHANGED <<worldVars, job, lockVars, pinned, before, reviewed, approved, applied>>

\* tofu plan wrote its file: -out of a plan command, the private one of an apply.
EndPlan(r) ==
  /\ stage[r] = "planning"
  /\ savedPlan' = IF job[r].op = "plan" THEN private[r] ELSE savedPlan
  /\ tofu' = [tofu EXCEPT ![r] = "none"]
  /\ GoTo(r, IF Records(r) THEN "drawn" ELSE "planned")
  /\ UNCHANGED <<installed, tree, record, owner, device, job, lockVars, planVars>>

\* The file whose bytes name the record.
PlanFile(r) == IF job[r].op = "plan" THEN savedPlan ELSE private[r]

Unrecorded(p) == {e \in record : e.plan # p}

\* Mutant of RecordSource: the source before the plan is not compared.
RecordLatest(r) ==
  /\ stage[r] = "drawn"
  /\ record' = Unrecorded(PlanFile(r)) \cup {[plan |-> PlanFile(r), source |-> tree]}
  /\ GoTo(r, IF job[r].op = "plan" THEN "ending" ELSE "planned")
  /\ UNCHANGED <<installed, tree, savedPlan, owner, device, job, lockVars, planVars, tofu>>

\* recordTofuPlanSource: the source of the bytes now in the file is recorded
\* when it is what it was before the plan, otherwise forgotten.
RecordSource(r) ==
  /\ stage[r] = "drawn"
  /\ IF tree = before[r]
     THEN /\ record' = Unrecorded(PlanFile(r)) \cup {[plan |-> PlanFile(r), source |-> tree]}
          /\ GoTo(r, IF job[r].op = "plan" THEN "ending" ELSE "planned")
     ELSE /\ record' = Unrecorded(PlanFile(r))
          /\ GoTo(r, "ending")
  /\ UNCHANGED <<installed, tree, savedPlan, owner, device, job, lockVars, planVars, tofu>>

\* copyPrivateFile
CopySaved(r) ==
  /\ stage[r] = "ready"
  /\ job[r].saved
  /\ savedPlan # NoPlan
  /\ private' = [private EXCEPT ![r] = savedPlan]
  /\ GoTo(r, "copied")
  /\ UNCHANGED <<worldVars, job, lockVars, pinned, before, reviewed, approved, applied, tofu>>

\* requireTofuPlanSource, of the copy.
RequireSaved(r) ==
  /\ stage[r] = "copied"
  /\ Current(r)
  /\ Recorded(private[r], tree)
  /\ before' = [before EXCEPT ![r] = tree]
  /\ GoTo(r, "planned")
  /\ UNCHANGED <<worldVars, job, lockVars, pinned, private, reviewed, approved, applied, tofu>>

-----------------------------------------------------------------------------
(***************************************************************************)
(* From the plan to the apply.                                             *)
(***************************************************************************)

\* planDigest, showPlan and DecideIndependent; an unknown owner ends the command.
Decide(r) ==
  /\ stage[r] = "planned"
  /\ Owned(private[r])
  /\ reviewed' = [reviewed EXCEPT ![r] = private[r]]
  /\ GoTo(r, IF NeedsYes(r, private[r]) THEN "asking" ELSE "approved")
  /\ UNCHANGED <<worldVars, job, lockVars, pinned, before, private, approved, applied, tofu>>

\* confirmMutation, answered yes.
Confirm(r) ==
  /\ stage[r] = "asking"
  /\ approved' = [approved EXCEPT ![r] = TRUE]
  /\ GoTo(r, "approved")
  /\ UNCHANGED <<worldVars, job, lockVars, pinned, before, private, reviewed, applied, tofu>>

\* lockPlannedMutation: a Set of its own, or more hosts for the usable Set that
\* already guards the credential.
LockPlanned(r) ==
  /\ stage[r] = "approved"
  /\ locks[r] = (IF job[r].credential THEN "held" ELSE "none")
  /\ Take(r, LockHosts(reviewed[r]))
  /\ GoTo(r, "locked")
  /\ UNCHANGED <<installed, tree, savedPlan, record, device, job, planVars, tofu>>

\* requireCurrentInstalledSource and requirePlanDigest
RequireCurrent(r) ==
  /\ stage[r] = "locked"
  /\ Current(r)
  /\ private[r] = reviewed[r]
  /\ GoTo(r, "checked")
  /\ UNCHANGED <<worldVars, job, lockVars, planVars, tofu>>

\* Mutant of Prepare: the plan is read where the operator named it.
PrepareNamed(r) ==
  /\ stage[r] = "checked"
  /\ InScope(r)
  /\ applied' = [applied EXCEPT ![r] = IF job[r].saved THEN savedPlan ELSE private[r]]
  /\ GoTo(r, "prepared")
  /\ UNCHANGED <<worldVars, job, lockVars, pinned, before, private, reviewed, approved, tofu>>

\* tofurun prepare: check the scope, copy the plan.
Prepare(r) ==
  /\ stage[r] = "checked"
  /\ InScope(r)
  /\ applied' = [applied EXCEPT ![r] = private[r]]
  /\ GoTo(r, "prepared")
  /\ UNCHANGED <<worldVars, job, lockVars, pinned, before, private, reviewed, approved, tofu>>

\* tofurun execute: check the scope again, start OpenTofu.
StartApply(r) ==
  /\ stage[r] = "prepared"
  /\ InScope(r)
  /\ tofu' = [tofu EXCEPT ![r] = "apply"]
  /\ GoTo(r, "applying")
  /\ UNCHANGED <<worldVars, job, lockVars, planVars>>

-----------------------------------------------------------------------------
(***************************************************************************)
(* How a command ends.                                                     *)
(***************************************************************************)

\* OpenTofu exits by itself: the apply is done, or the child reports an error.
TofuExits(r) ==
  /\ stage[r] \in {"planning", "applying"}
  /\ tofu' = [tofu EXCEPT ![r] = "none"]
  /\ GoTo(r, "ending")
  /\ UNCHANGED <<worldVars, job, lockVars, planVars>>

\* A call returns an error, a check refuses, the operator says no.
Fail(r) ==
  /\ stage[r] \in Calls
  /\ GoTo(r, "ending")
  /\ UNCHANGED <<worldVars, job, lockVars, planVars, tofu>>

\* The context ends by a signal or a lost lock: SIGTERM to the group of OpenTofu.
Interrupt(r) ==
  /\ stage[r] \in {"planning", "applying"}
  /\ tofu' = [tofu EXCEPT ![r] = "stopping"]
  /\ GoTo(r, "ending")
  /\ UNCHANGED <<worldVars, job, lockVars, planVars>>

\* Mutant of Cancel: only OpenTofu is told, the question to the operator stays.
CancelTofu(r) ==
  /\ locks[r] = "lost"
  /\ Interrupt(r)

\* A lost lock ends the context of OpenTofu and of the question to the operator.
Cancel(r) ==
  /\ locks[r] = "lost"
  /\ Interrupt(r) \/ (stage[r] = "asking" /\ Fail(r))

\* The group of OpenTofu is gone, by SIGKILL if it has to; a plan command may
\* have written its file.
TofuStops(r) ==
  /\ tofu[r] = "stopping"
  /\ tofu' = [tofu EXCEPT ![r] = "none"]
  /\ savedPlan' \in {savedPlan} \cup {p \in {private[r]} : job[r].op = "plan"}
  /\ UNCHANGED <<installed, tree, record, owner, device, stage, job, lockVars, planVars>>

\* Nothing in the memory of a finished command is used again.
Forget(r) ==
  /\ scope' = [scope EXCEPT ![r] = {}]
  /\ pinned' = [pinned EXCEPT ![r] = NoSource]
  /\ before' = [before EXCEPT ![r] = NoSource]
  /\ private' = [private EXCEPT ![r] = NoPlan]
  /\ reviewed' = [reviewed EXCEPT ![r] = NoPlan]
  /\ approved' = [approved EXCEPT ![r] = FALSE]
  /\ applied' = [applied EXCEPT ![r] = NoPlan]

\* The deferred calls: release the locks, remove the private directories.
Release(r) ==
  /\ stage[r] = "ending"
  /\ tofu[r] = "none"
  /\ owner' = [h \in Host |-> IF owner[h] = r THEN NoRun ELSE owner[h]]
  /\ locks' = [locks EXCEPT ![r] = "none"]
  /\ Forget(r)
  /\ GoTo(r, "over")
  /\ UNCHANGED <<installed, tree, savedPlan, record, device, job, tofu>>

\* The command and its OpenTofu are killed; the records of its locks stay.
Crash(r) ==
  /\ stage[r] \notin {"new", "over", "dead"}
  /\ locks' = [locks EXCEPT ![r] = IF @ = "none" THEN @ ELSE "lost"]
  /\ tofu' = [tofu EXCEPT ![r] = "none"]
  /\ Forget(r)
  /\ GoTo(r, "dead")
  /\ UNCHANGED <<worldVars, job>>

-----------------------------------------------------------------------------
(***************************************************************************)
(* The world around the commands.                                          *)
(***************************************************************************)

\* A renewal is refused or a deadline passes.
Lose(r) ==
  /\ locks[r] = "held"
  /\ locks' = [locks EXCEPT ![r] = "lost"]
  /\ UNCHANGED <<worldVars, stage, job, scope, planVars, tofu>>

\* The record of a lost Set expires, after the time the command has to stop.
Lapse(h) ==
  /\ \E r \in Run : owner[h] = r /\ locks[r] = "lost" /\ tofu[r] = "none"
  /\ owner' = [owner EXCEPT ![h] = NoRun]
  /\ UNCHANGED <<installed, tree, savedPlan, record, device, stage, job, lockVars, planVars, tofu>>

Planning(r) == stage[r] \in {"inspected", "planning", "drawn"}

\* Somebody changes the checkout, or the installed files.
ChangeTree(t) ==
  /\ t # tree
  /\ ~installed /\ ~ChangesBack => \A r \in Run : Planning(r) => t # before[r]
  /\ tree' = t
  /\ UNCHANGED <<installed, savedPlan, record, owner, device, stage, job, lockVars,
                 planVars, tofu>>

\* An earlier plan command may have left a plan and its record.
Init ==
  /\ installed \in BOOLEAN
  /\ tree \in Source
  /\ savedPlan \in {p \in Plan : installed => p.from \in Clean} \cup {NoPlan}
  /\ record = {[plan |-> p, source |-> p.from] : p \in {savedPlan} \ {NoPlan}}
  /\ owner = [h \in Host |-> NoRun]
  /\ device = NoRun
  /\ stage = [r \in Run |-> "new"]
  /\ job \in Jobs
  /\ locks = [r \in Run |-> "none"]
  /\ scope = [r \in Run |-> {}]
  /\ pinned = [r \in Run |-> NoSource]
  /\ before = [r \in Run |-> NoSource]
  /\ private = [r \in Run |-> NoPlan]
  /\ reviewed = [r \in Run |-> NoPlan]
  /\ approved = [r \in Run |-> FALSE]
  /\ applied = [r \in Run |-> NoPlan]
  /\ tofu = [r \in Run |-> "none"]

-----------------------------------------------------------------------------
(***************************************************************************)
(* The specification.                                                      *)
(***************************************************************************)

\* A call of the command returns: with its result, or with an error.
Return(r) ==
  \/ Open(r) \/ CopySource(r) \/ RequireSource(r) \/ LockCredential(r) \/ Rotate(r)
  \/ InspectSource(r) \/ (\E p \in Plan : StartPlan(r, p)) \/ RecordSource(r)
  \/ CopySaved(r) \/ RequireSaved(r)
  \/ Decide(r) \/ LockPlanned(r) \/ RequireCurrent(r) \/ Prepare(r) \/ StartApply(r)
  \/ (stage[r] # "asking" /\ Fail(r))

\* The operator answers, yes or no, or sends a signal.
Answer(r) == Confirm(r) \/ (stage[r] = "asking" /\ Fail(r))

Step(r) ==
  \/ Return(r) \/ Answer(r) \/ EndPlan(r) \/ TofuExits(r)
  \/ Interrupt(r) \/ Cancel(r) \/ TofuStops(r) \/ Release(r)

Next ==
  \/ \E r \in Run : Step(r) \/ Crash(r) \/ Lose(r)
  \/ \E h \in Host : Lapse(h)
  \/ \E t \in Source : ChangeTree(t)

Spec == Init /\ [][Next]_vars

\* Calls return (requests to hosts and device have timeouts), a cancelled
\* context is noticed, a process group that is killed ends, deferred calls run.
\* OpenTofu and the operator may take forever.
Fairness ==
  \A r \in Run : /\ WF_vars(Return(r)) /\ WF_vars(Cancel(r))
                 /\ WF_vars(TofuStops(r)) /\ WF_vars(Release(r))

FairSpec == Spec /\ Fairness

-----------------------------------------------------------------------------
(***************************************************************************)
(* What must hold.                                                         *)
(***************************************************************************)

\* OpenTofu is given the very plan whose output, hosts and digest the command
\* reviewed, with an owner for each change, and an interactive apply of changes
\* was answered yes (runPlannedMutation, copyPrivateFile, copySavedPlan).
AppliedAsReviewed ==
  \A r \in Run : applied[r] # NoPlan =>
     /\ applied[r] = reviewed[r]
     /\ Owned(applied[r])
     /\ NeedsYes(r, applied[r]) => approved[r]

\* A saved plan that is applied was made from the clean source that the command
\* verified; of an installed source, any plan was made from the copy the command
\* pinned at its start (recordTofuPlanSource, requireTofuPlanSource).
SourceBound ==
  \A r \in Run : applied[r] # NoPlan /\ (installed \/ job[r].saved) =>
     /\ applied[r].from = before[r]
     /\ before[r] \in Clean
     /\ installed => applied[r].from = pinned[r]

\* Stages with a plan that is bound to its source, and with one that was reviewed.
Decided == {"asking", "approved", "locked", "checked", "prepared", "applying"}
Bound == Decided \cup {"planned"}

\* Stages after the rotation of a credential.
Rotated == Bound \cup {"ready", "inspected", "planning", "drawn", "copied"}

\* OpenTofu runs in two stages, and may still stop in a third.
TofuStages(r) ==
  /\ stage[r] = "planning" => tofu[r] = "plan"
  /\ stage[r] = "applying" => tofu[r] = "apply"
  /\ stage[r] \notin {"planning", "applying"} => tofu[r] \in {"none", "stopping"}
  /\ tofu[r] = "stopping" => stage[r] = "ending"

\* A scope whose Set is usable, or whose OpenTofu still runs, has its records.
ScopeBacked(r) ==
  /\ locks[r] = "none" => scope[r] = {}
  /\ stage[r] \in {"new", "verified", "opened", "admitted"} => locks[r] = "none"
  /\ locks[r] = "held" \/ tofu[r] # "none" => \A h \in scope[r] : owner[h] = r

\* The lock of the credential host is taken before the rotation, and as long as
\* it may be used the device has the password of this command.
CredentialGuarded(r) ==
  /\ stage[r] = "guarded" \/ (job[r].credential /\ stage[r] \in Rotated) =>
       locks[r] # "none" /\ CredentialHost \in scope[r]
  /\ job[r].credential /\ tofu[r] # "none" => CredentialHost \in scope[r]
  /\ job[r].credential /\ (tofu[r] # "none" \/ (locks[r] = "held" /\ stage[r] \in Rotated))
       => device = r

\* What was reviewed is what is applied, on hosts of the scope.
PlanKept(r) ==
  /\ stage[r] \in Bound \cup {"planning", "drawn", "copied"} => private[r] # NoPlan
  /\ stage[r] \in Decided =>
       /\ reviewed[r] = private[r] /\ Owned(private[r])
       /\ stage[r] # "asking" /\ NeedsYes(r, private[r]) => approved[r]
  /\ applied[r] # NoPlan =>
       /\ stage[r] \in {"prepared", "applying", "ending"}
       /\ applied[r].touches \subseteq scope[r]

\* The plan of r was made from the source that r looked at, or this will be
\* noticed when the source is looked at again.
SourceKept(r) ==
  /\ stage[r] \in {"inspected", "planning", "drawn"} => ~job[r].saved
  /\ stage[r] \in {"inspected", "drawn"} => Records(r)
  /\ installed /\ stage[r] \notin {"new", "over", "dead"} => pinned[r] \in Clean
  /\ installed /\ stage[r] \in {"inspected", "planning", "drawn"} => before[r] = pinned[r]
  /\ Records(r) /\ stage[r] \in {"planning", "drawn"} /\ (installed \/ tree = before[r]) =>
       private[r].from = before[r]
  /\ job[r].op = "plan" /\ stage[r] = "drawn" => savedPlan = private[r]
  /\ (installed \/ job[r].saved) /\ stage[r] \in Bound =>
       /\ private[r].from = before[r] /\ before[r] \in Clean
       /\ installed => before[r] = pinned[r]

RecordTrue == \A e \in record : e.plan.from = e.source

\* The state of each command agrees with the locks, the device, the checkout and
\* the records it shares with the others (runPlannedMutation, Scope.Check,
\* recordTofuPlanSource).
MutationInv ==
  /\ TypeOK
  /\ RecordTrue
  /\ \A r \in Run : /\ TofuStages(r) /\ ScopeBacked(r) /\ CredentialGuarded(r)
                    /\ PlanKept(r) /\ SourceKept(r)
  /\ AppliedAsReviewed /\ SourceBound

\* While OpenTofu of a command with a credential runs, the device accepts the
\* password of that command: no other command rotates it meanwhile
\* (prepareExplicitCredential, lockCredentialHost).
CredentialInForce ==
  \A r \in Run : job[r].credential /\ tofu[r] # "none" => device = r

\* The commands whose apply may change what the lock of h protects.
Permitted ==
  [h \in Host |->
     {r \in Run : tofu[r] # "none" /\ applied[r] # NoPlan /\ h \in applied[r].touches}]

\* While an apply runs, its command holds the lock of every host that its plan
\* touches, alone: the locks of commands implement the lease of HostLock
\* (lockPlannedMutation, Scope.Check, keepLocksRenewed).
Lease == INSTANCE ExclusiveLease WITH File <- Host, permitted <- Permitted

ImplementsLease == Lease!Spec

\* A command whose locks are lost ends, whatever OpenTofu and the operator do
\* (confirmMutation, RunGroup).
LossEnds ==
  \A r \in Run : locks[r] = "lost" ~> stage[r] \in {"over", "dead"}
=============================================================================
