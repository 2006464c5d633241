-------------------------- MODULE LockGuardProofs ---------------------------
(***************************************************************************)
(* Proofs about LockGuard, on a host whose boot id does not move while it  *)
(* runs.  GuardInv is inductive but for the run of a request, which the    *)
(* refinement needs to name who takes or drops the record.                 *)
(***************************************************************************)
EXTENDS LockGuard, TLAPS

\* Every script that runs serves a request of a run.
OfRun == \A s \in Script : pc[s] # "idle" => job[s].run \in Run

Ind == GuardInv /\ OfRun

USE GuardAssumption

LEMMA StagesDistinct ==
  \A s \in Script : pc[s] \in {"entered", "swept", "writing", "leaving"} <=> s \in Inside
BY DEF Inside

\* What a request would write is a record.
LEMMA ChangedIsRecord ==
  ASSUME TypeOK, NEW s \in Script
  PROVE  Changed(s) \in Record
<1>1. job[s] \in Job /\ record \in Record /\ now \in Nat
  BY DEF TypeOK
<1>2. /\ job[s].run \in Run \cup {NoRun} /\ job[s].lease \in Nat
      /\ record.expiry \in Nat
  BY <1>1 DEF Job, Record
<1>3. [holder |-> job[s].run, expiry |-> now + job[s].lease] \in Record
  BY <1>1, <1>2 DEF Record
<1>4. [holder |-> job[s].run, expiry |-> Later(record.expiry, now + job[s].lease)] \in Record
  BY <1>1, <1>2 DEF Record, Later
<1>5. NoRecord \in Record
  BY DEF NoRecord, Record
<1> QED
  BY <1>3, <1>4, <1>5 DEF Changed

LEMMA NoJobIsJob == NoJob \in Job
BY DEF NoJob, Job, NoRecord, Record, Operations

\* The record that a script decides on, as DecisionStands asks for it.
LEMMA Decided ==
  ASSUME TypeOK, NEW s \in Script, Changes(s)
  PROVE  /\ job[s].op # "acquire" => record.holder = job[s].run
         /\ record.holder \in {NoRun, job[s].run} \/ record.expiry <= now
         /\ \/ Changed(s) = NoRecord /\ job[s].op = "release"
            \/ /\ Changed(s).holder = job[s].run
               /\ job[s].op # "release"
               /\ \/ Changed(s).expiry <= now + MaxLease
                  \/ Changed(s).expiry <= record.expiry
<1>1. /\ job[s].op \in Operations /\ job[s].lease \in 1..MaxLease
      /\ record.expiry \in Nat /\ now \in Nat
  BY DEF TypeOK, Job, Record
<1>2. job[s].op # "acquire" => record.holder = job[s].run
  BY DEF Changes
<1>3. record.holder \in {NoRun, job[s].run} \/ record.expiry <= now
  BY <1>1, <1>2 DEF Changes, HeldByOther
<1>4. CASE job[s].op = "acquire"
  <2>1. Changed(s) = [holder |-> job[s].run, expiry |-> now + job[s].lease]
    BY <1>4 DEF Changed
  <2>2. now + job[s].lease <= now + MaxLease
    BY <1>1
  <2> QED
    BY <1>2, <1>3, <1>4, <2>1, <2>2
<1>5. CASE job[s].op = "renew"
  <2>1. Changed(s) = [holder |-> job[s].run,
                      expiry |-> Later(record.expiry, now + job[s].lease)]
    BY <1>5 DEF Changed
  <2>2. \/ Later(record.expiry, now + job[s].lease) <= now + MaxLease
        \/ Later(record.expiry, now + job[s].lease) <= record.expiry
    BY <1>1 DEF Later
  <2> QED
    BY <1>2, <1>3, <1>5, <2>1, <2>2
<1>6. CASE job[s].op = "release"
  <2>1. Changed(s) = NoRecord
    BY <1>6 DEF Changed
  <2> QED
    BY <1>2, <1>3, <1>6, <2>1
<1> QED
  BY <1>1, <1>4, <1>5, <1>6 DEF Operations

-----------------------------------------------------------------------------
(***************************************************************************)
(* Each step keeps the invariant.                                          *)
(***************************************************************************)

LEMMA StartKeeps ==
  ASSUME Ind, NEW s \in Script, NEW op \in Operations, NEW run \in Run,
         NEW lease \in 1..MaxLease, Start(s, op, run, lease)
  PROVE  Ind'
<1> USE DEF Start, Goto
<1>1. TypeOK'
  BY DEF Ind, GuardInv, TypeOK, Job, Record, NoRecord, Stages
<1>2. Inside' = Inside
  BY DEF Ind, GuardInv, TypeOK, Inside
<1>3. OneInside'
  BY <1>2 DEF Ind, GuardInv, OneInside, TypeOK, Inside
<1>4. GuardOfBoot'
  BY DEF Ind, GuardInv, GuardOfBoot, TypeOK
<1>5. GuardReturned'
  BY <1>2 DEF Ind, GuardInv, GuardReturned
<1>6. DecisionStands'
  BY DEF Ind, GuardInv, DecisionStands, TypeOK
<1>7. OfRun'
  BY DEF Ind, GuardInv, OfRun, TypeOK
<1> QED
  BY <1>1, <1>3, <1>4, <1>5, <1>6, <1>7 DEF Ind, GuardInv

LEMMA TakeGuardKeeps ==
  ASSUME Ind, NEW s \in Script, TakeGuard(s)
  PROVE  Ind'
<1> USE DEF TakeGuard, Goto
<1>1. TypeOK'
  BY DEF Ind, GuardInv, TypeOK, Stages, Job
<1>2. job[s].guard = boot /\ boot \notin guards
  BY DEF Ind, GuardInv, GuardOfBoot
<1>3. Inside = {}
  BY <1>2 DEF Ind, GuardInv, OneInside, GuardOfBoot, Inside
<1>4. Inside' = {s}
  BY <1>3 DEF Ind, GuardInv, TypeOK, Inside
<1>5. OneInside'
  BY <1>4 DEF OneInside
<1>6. GuardOfBoot'
  BY <1>2 DEF Ind, GuardInv, GuardOfBoot, TypeOK
<1>7. GuardReturned'
  BY <1>4 DEF GuardReturned
<1>8. DecisionStands'
  BY DEF Ind, GuardInv, DecisionStands, TypeOK
<1>9. OfRun'
  BY DEF Ind, GuardInv, OfRun, TypeOK
<1> QED
  BY <1>1, <1>5, <1>6, <1>7, <1>8, <1>9 DEF Ind, GuardInv

\* A script that ends keeps the invariant when it gives its guard back, has none,
\* or is killed.
LEMMA ExitKeeps ==
  ASSUME Ind, NEW s \in Script, Exit(s), guards' \subseteq guards,
         UNCHANGED <<boot, record, now>>, killed' \in BOOLEAN, killed => killed',
         \A t \in Inside : t # s => job[t].guard \in guards',
         s \in Inside => boot \notin guards' \/ killed'
  PROVE  Ind'
<1> USE DEF Exit, Goto
<1>1. TypeOK'
  BY NoJobIsJob DEF Ind, GuardInv, TypeOK, Stages
<1>2. Inside' = Inside \ {s}
  BY DEF Ind, GuardInv, TypeOK, Inside
<1>3. OneInside'
  BY <1>2 DEF Ind, GuardInv, OneInside, TypeOK, Inside
<1>4. GuardOfBoot'
  BY DEF Ind, GuardInv, GuardOfBoot, TypeOK
<1>5. GuardReturned'
  BY <1>2 DEF Ind, GuardInv, GuardReturned
<1>6. DecisionStands'
  BY DEF Ind, GuardInv, DecisionStands, TypeOK
<1>7. OfRun'
  BY DEF Ind, GuardInv, OfRun, TypeOK
<1> QED
  BY <1>1, <1>3, <1>4, <1>5, <1>6, <1>7 DEF Ind, GuardInv

LEMMA WaitForGuardKeeps ==
  ASSUME Ind, NEW s \in Script, WaitForGuard(s)
  PROVE  Ind'
<1>1. CASE Exit(s)
  <2>1. s \notin Inside
    BY DEF WaitForGuard, Inside
  <2>2. UNCHANGED <<boot, guards, record, now, killed>> /\ killed \in BOOLEAN
    BY DEF WaitForGuard, Ind, GuardInv, TypeOK
  <2>3. \A t \in Inside : job[t].guard \in guards
    BY DEF Ind, GuardInv, OneInside
  <2> QED
    BY <1>1, <2>1, <2>2, <2>3, ExitKeeps
<1>2. CASE ~Exit(s)
  <2>1. /\ pc[s] = "waiting" /\ job[s].waited < GuardWait
        /\ job' = [job EXCEPT ![s].waited = @ + 1]
        /\ UNCHANGED <<boot, guards, record, now, killed, pc>>
    BY <1>2 DEF WaitForGuard
  <2>2. job[s] \in Job
    BY DEF Ind, GuardInv, TypeOK
  <2>3. job[s].waited + 1 \in 0..GuardWait
    BY <2>1, <2>2 DEF Job
  <2>4. TypeOK'
    BY <2>1, <2>2, <2>3 DEF Ind, GuardInv, TypeOK, Job
  <2>5. Inside' = Inside /\ s \notin Inside
    BY <2>1 DEF Inside
  <2>6. OneInside'
    BY <2>1, <2>5 DEF Ind, GuardInv, OneInside, TypeOK
  <2>7. GuardOfBoot'
    BY <2>1 DEF Ind, GuardInv, GuardOfBoot, TypeOK
  <2>8. GuardReturned'
    BY <2>1, <2>5 DEF Ind, GuardInv, GuardReturned
  <2>9. DecisionStands'
    BY <2>1 DEF Ind, GuardInv, DecisionStands, TypeOK
  <2>10. OfRun'
    BY <2>1 DEF Ind, GuardInv, OfRun, TypeOK
  <2> QED
    BY <2>4, <2>6, <2>7, <2>8, <2>9, <2>10 DEF Ind, GuardInv
<1> QED
  BY <1>1, <1>2

LEMMA SweepKeeps ==
  ASSUME Ind, NEW s \in Script, Sweep(s)
  PROVE  Ind'
<1> USE DEF Sweep, Goto
<1>1. TypeOK'
  BY DEF Ind, GuardInv, TypeOK, Stages
<1>2. Inside' = Inside /\ s \in Inside
  BY DEF Ind, GuardInv, TypeOK, Inside
<1>3. OneInside'
  BY <1>2 DEF Ind, GuardInv, OneInside
<1>4. GuardOfBoot'
  BY DEF Ind, GuardInv, GuardOfBoot, TypeOK
<1>5. GuardReturned'
  BY <1>2 DEF GuardReturned
<1>6. DecisionStands'
  BY DEF Ind, GuardInv, DecisionStands, TypeOK
<1>7. OfRun'
  BY DEF Ind, GuardInv, OfRun, TypeOK
<1> QED
  BY <1>1, <1>3, <1>4, <1>5, <1>6, <1>7 DEF Ind, GuardInv

LEMMA ReadRecordKeeps ==
  ASSUME Ind, NEW s \in Script, ReadRecord(s)
  PROVE  Ind'
<1> USE DEF ReadRecord, Goto
<1>0. TypeOK
  BY DEF Ind, GuardInv
<1>1. TypeOK'
  <2>1. job[s] \in Job /\ record \in Record /\ Changed(s) \in Record
    BY <1>0, ChangedIsRecord DEF TypeOK
  <2>2. [job[s] EXCEPT !.read = record, !.new = Changed(s)] \in Job
    BY <2>1 DEF Job
  <2>3. job' \in [Script -> Job]
    BY <1>0, <2>2 DEF TypeOK
  <2>4. pc' \in [Script -> Stages]
    BY <1>0 DEF TypeOK, Stages
  <2> QED
    BY <1>0, <2>3, <2>4 DEF TypeOK
<1>2. Inside' = Inside /\ s \in Inside
  BY <1>0 DEF TypeOK, Inside
<1>3. \A t \in Script : job'[t].guard = job[t].guard /\ job'[t].run = job[t].run
                        /\ job'[t].op = job[t].op
  BY <1>0 DEF TypeOK, Job
<1>4. OneInside'
  <2>1. guards' = guards /\ Inside \subseteq Script
    BY DEF Inside
  <2>2. OneInside
    BY DEF Ind, GuardInv
  <2> HIDE DEF ReadRecord
  <2>3. \A t, u \in Inside' : t = u
    BY <1>2, <2>2 DEF OneInside
  <2>4. \A t \in Inside' : job'[t].guard \in guards'
    BY <1>2, <1>3, <2>1, <2>2 DEF OneInside
  <2> QED
    BY <2>3, <2>4 DEF OneInside
<1>5. GuardOfBoot'
  BY <1>3 DEF Ind, GuardInv, GuardOfBoot, TypeOK
<1>6. GuardReturned'
  BY <1>2 DEF GuardReturned
<1>7. ASSUME NEW t \in Script, pc'[t] = "writing"
      PROVE  t = s /\ Changes(s)
  BY <1>0, <1>2, <1>7 DEF Ind, GuardInv, OneInside, Inside, TypeOK
<1>8. DecisionStands'
  <2> SUFFICES ASSUME NEW t \in Script, pc'[t] = "writing"
               PROVE  /\ job'[t].read = record'
                      /\ job'[t].op # "acquire" => record'.holder = job'[t].run
                      /\ \/ record'.holder \in {NoRun, job'[t].run}
                         \/ record'.expiry <= now'
                      /\ \/ job'[t].new = NoRecord /\ job'[t].op = "release"
                         \/ /\ job'[t].new.holder = job'[t].run
                            /\ job'[t].op # "release"
                            /\ \/ job'[t].new.expiry <= now' + MaxLease
                               \/ job'[t].new.expiry <= record'.expiry
    BY DEF DecisionStands, NoRecord
  <2>1. t = s /\ Changes(s)
    BY <1>7
  <2>2. job'[s].read = record /\ job'[s].new = Changed(s)
    BY <1>0 DEF TypeOK, Job
  <2> HIDE DEF ReadRecord
  <2>3. record' = record /\ now' = now
    BY DEF ReadRecord
  <2> QED
    BY <1>0, <1>3, <2>1, <2>2, <2>3, Decided
<1>9. OfRun'
  BY <1>0, <1>3 DEF Ind, OfRun, TypeOK
<1> QED
  BY <1>1, <1>4, <1>5, <1>6, <1>8, <1>9 DEF Ind, GuardInv

LEMMA WriteRecordKeeps ==
  ASSUME Ind, NEW s \in Script, WriteRecord(s)
  PROVE  Ind'
<1> USE DEF WriteRecord, Goto
<1>1. TypeOK'
  BY DEF Ind, GuardInv, TypeOK, Stages, Job
<1>2. Inside' = Inside /\ s \in Inside
  BY DEF Ind, GuardInv, TypeOK, Inside
<1>3. OneInside'
  BY <1>2 DEF Ind, GuardInv, OneInside
<1>4. GuardOfBoot'
  BY DEF Ind, GuardInv, GuardOfBoot, TypeOK
<1>5. GuardReturned'
  BY <1>2 DEF GuardReturned
<1>6. \A t \in Script : pc'[t] # "writing"
  BY <1>2 DEF Ind, GuardInv, OneInside, Inside, TypeOK
<1>7. DecisionStands'
  BY <1>6 DEF DecisionStands
<1>8. OfRun'
  BY DEF Ind, GuardInv, OfRun, TypeOK
<1> QED
  BY <1>1, <1>3, <1>4, <1>5, <1>7, <1>8 DEF Ind, GuardInv

LEMMA LeaveGuardKeeps ==
  ASSUME Ind, NEW s \in Script, LeaveGuard(s)
  PROVE  Ind'
<1>1. s \in Inside /\ job[s].guard = boot
  BY DEF LeaveGuard, Inside, Ind, GuardInv, GuardOfBoot
<1>2. /\ Exit(s) /\ guards' = guards \ {boot}
      /\ UNCHANGED <<boot, record, now, killed>> /\ killed \in BOOLEAN
  BY <1>1 DEF LeaveGuard, Ind, GuardInv, TypeOK
<1>3. \A t \in Inside : t = s
  BY <1>1 DEF Ind, GuardInv, OneInside
<1> QED
  BY <1>1, <1>2, <1>3, ExitKeeps

LEMMA KillKeeps ==
  ASSUME Ind, NEW s \in Script, Kill(s)
  PROVE  Ind'
<1>1. /\ Exit(s) /\ UNCHANGED <<boot, guards, record, now>>
      /\ killed' \in BOOLEAN /\ (killed => killed') /\ (s \in Inside => killed')
  BY DEF Kill, Ind, GuardInv, TypeOK
<1>2. \A t \in Inside : job[t].guard \in guards
  BY DEF Ind, GuardInv, OneInside
<1> QED
  BY <1>1, <1>2, ExitKeeps

LEMMA RebootKeeps ==
  ASSUME Ind, Reboot
  PROVE  Ind'
<1> USE DEF Reboot
<1>1. TypeOK'
  <2>1. boot \in Nat /\ boot' = boot + 1
    BY DEF Ind, GuardInv, TypeOK
  <2>2. pc' \in [Script -> Stages] /\ job' \in [Script -> Job] /\ killed' \in BOOLEAN
    BY NoJobIsJob DEF Stages
  <2> QED
    BY <2>1, <2>2 DEF Ind, GuardInv, TypeOK
<1>2. Inside' = {}
  BY DEF Inside
<1>3. OneInside'
  BY <1>2 DEF OneInside
<1>4. guards' \subseteq 0..boot /\ boot \in Nat
  BY DEF Ind, GuardInv, GuardOfBoot, TypeOK
<1>5. GuardOfBoot' /\ boot' \notin guards'
  BY <1>4 DEF GuardOfBoot
<1>6. GuardReturned'
  BY <1>5 DEF GuardReturned
<1>7. DecisionStands' /\ OfRun'
  BY DEF DecisionStands, OfRun
<1> QED
  BY <1>1, <1>3, <1>5, <1>6, <1>7 DEF Ind, GuardInv

LEMMA TickKeeps ==
  ASSUME Ind, Tick, ~BootIdFollowsClock
  PROVE  Ind'
<1>1. /\ now' = now + 1 /\ now \in Nat
      /\ UNCHANGED <<boot, guards, record, pc, job, killed>>
  BY DEF Tick, Ind, GuardInv, TypeOK
<1>2. TypeOK' /\ Inside' = Inside
  BY <1>1 DEF Ind, GuardInv, TypeOK, Inside
<1>3. OneInside' /\ GuardOfBoot' /\ GuardReturned' /\ OfRun'
  BY <1>1, <1>2 DEF Ind, GuardInv, OneInside, GuardOfBoot, GuardReturned, OfRun
<1>4. DecisionStands'
  <2>1. record.expiry \in Nat /\ \A s \in Script : job[s].new.expiry \in Nat
    BY DEF Ind, GuardInv, TypeOK, Job, Record
  <2>2. \A e \in Nat : (e <= now => e <= now + 1)
                       /\ (e <= now + MaxLease => e <= (now + 1) + MaxLease)
    BY <1>1
  <2>3. \A s \in Script : pc[s] = "writing" =>
          /\ job[s].read = record
          /\ job[s].op # "acquire" => record.holder = job[s].run
          /\ record.holder \in {NoRun, job[s].run} \/ record.expiry <= now + 1
          /\ \/ job[s].new = NoRecord /\ job[s].op = "release"
             \/ /\ job[s].new.holder = job[s].run
                /\ job[s].op # "release"
                /\ \/ job[s].new.expiry <= (now + 1) + MaxLease
                   \/ job[s].new.expiry <= record.expiry
    BY <2>1, <2>2 DEF Ind, GuardInv, DecisionStands
  <2> QED
    BY <1>1, <2>3 DEF DecisionStands, NoRecord
<1> QED
  BY <1>2, <1>3, <1>4 DEF Ind, GuardInv

-----------------------------------------------------------------------------
(***************************************************************************)
(* The guard holds.                                                        *)
(***************************************************************************)

LEMMA InitInd == Init => Ind
<1> SUFFICES ASSUME Init PROVE Ind
  OBVIOUS
<1> USE DEF Init
<1>1. TypeOK
  BY NoJobIsJob DEF TypeOK, Stages, Record, NoRecord
<1>2. Inside = {}
  BY DEF Inside
<1> QED
  BY <1>1, <1>2
     DEF Ind, GuardInv, OneInside, GuardOfBoot, GuardReturned, DecisionStands, OfRun

LEMMA NextInd ==
  ASSUME Ind, [Next]_vars, ~BootIdFollowsClock
  PROVE  Ind'
<1>1. CASE UNCHANGED vars
  BY <1>1 DEF vars, Ind, GuardInv, TypeOK, OneInside, GuardOfBoot, GuardReturned,
     DecisionStands, OfRun, Inside
<1>2. CASE Reboot
  BY <1>2, RebootKeeps
<1>3. CASE Tick
  BY <1>3, TickKeeps
<1>4. ASSUME NEW s \in Script, ScriptStep(s)
      PROVE  Ind'
  BY <1>4, StartKeeps, TakeGuardKeeps, WaitForGuardKeeps, SweepKeeps, ReadRecordKeeps,
     WriteRecordKeeps, LeaveGuardKeeps, KillKeeps DEF ScriptStep
<1> QED
  BY <1>1, <1>2, <1>3, <1>4 DEF Next

LEMMA IndHolds == ASSUME ~BootIdFollowsClock PROVE Spec => []Ind
<1>1. Init => Ind
  BY InitInd
<1>2. Ind /\ [Next]_vars => Ind'
  BY NextInd
<1> QED
  BY <1>1, <1>2, PTL DEF Spec

\* However many scripts, kills and restarts there are, one script at a time is
\* between its mkdir and its rmdir, nothing changes the record between its
\* decision and its write, and a guard that stands alone is that of a killed
\* script of this boot.
THEOREM GuardHolds == ASSUME ~BootIdFollowsClock PROVE Spec => []GuardInv
<1>1. Ind => GuardInv
  BY DEF Ind
<1> QED
  BY <1>1, IndHolds, PTL

-----------------------------------------------------------------------------
(***************************************************************************)
(* The lock file seen from outside.                                        *)
(***************************************************************************)

\* The write of a script is a take or a removal by the run of its request.
LEMMA WriteIsStep ==
  ASSUME Ind, NEW s \in Script, WriteRecord(s)
  PROVE  File!Next
<1>1. pc[s] = "writing" /\ record' = job[s].new /\ UNCHANGED now
  BY DEF WriteRecord
<1>2. job[s].run \in Run
  BY <1>1 DEF Ind, OfRun
<1>3. /\ job[s].new \in Record /\ record.expiry \in Nat /\ now \in Nat
      /\ now + MaxLease \in Nat
  BY DEF Ind, GuardInv, TypeOK, Job, Record
<1>4. /\ job[s].op # "acquire" => record.holder = job[s].run
      /\ \/ record.holder \in {NoRun, job[s].run}
         \/ record.expiry <= now
  BY <1>1 DEF Ind, GuardInv, DecisionStands
<1>5. CASE job[s].new = NoRecord /\ job[s].op = "release"
  BY <1>1, <1>2, <1>4, <1>5 DEF File!Next, File!Drop, File!NoRecord, NoRecord
<1>6. CASE /\ job[s].new.holder = job[s].run
           /\ \/ job[s].new.expiry <= now + MaxLease
              \/ job[s].new.expiry <= record.expiry
  <2>1. job[s].new = [holder |-> job[s].run, expiry |-> job[s].new.expiry]
    BY <1>3, <1>6 DEF Record
  <2>2. job[s].new.expiry \in Nat
    BY <1>3 DEF Record
  <2>3. job[s].new.expiry \in 0..(now + MaxLease) \cup 0..record.expiry
    BY <1>3, <1>6, <2>2
  <2>4. File!Take(job[s].run)
    BY <1>1, <1>4, <2>1, <2>3 DEF File!Take
  <2> QED
    BY <1>2, <2>4 DEF File!Next
<1> QED
  BY <1>1, <1>5, <1>6 DEF Ind, GuardInv, DecisionStands

LEMMA StepIsStep ==
  ASSUME Ind, [Next]_vars
  PROVE  [File!Next]_(File!vars)
<1>1. CASE UNCHANGED vars
  BY <1>1 DEF vars, File!vars
<1>2. CASE Reboot
  BY <1>2 DEF Reboot, File!vars
<1>3. CASE Tick
  BY <1>3 DEF Tick, File!Next, File!Tick
<1>4. ASSUME NEW s \in Script, ScriptStep(s)
      PROVE  [File!Next]_(File!vars)
  <2>1. CASE WriteRecord(s)
    BY <2>1, WriteIsStep
  <2>2. CASE ~WriteRecord(s)
    <3>1. UNCHANGED <<record, now>>
      BY <1>4, <2>2 DEF ScriptStep, TakeGuard, WaitForGuard, Sweep, ReadRecord,
         LeaveGuard, Kill, Start
    <3> QED
      BY <3>1 DEF File!vars
  <2> QED
    BY <2>1, <2>2
<1> QED
  BY <1>1, <1>2, <1>3, <1>4 DEF Next

\* Every call of lock.sh is one step of the lock file: nobody's current record is
\* overwritten or removed by another run.
THEOREM RecordImplemented ==
  ASSUME ~BootIdFollowsClock PROVE Spec => ImplementsRecord
<1>1. Init => File!Init
  BY DEF Init, File!Init, NoRecord, File!NoRecord
<1>2. Ind /\ [Next]_vars => [File!Next]_(File!vars)
  BY StepIsStep
<1> QED
  BY <1>1, <1>2, IndHolds, PTL DEF Spec, ImplementsRecord, File!Spec
=============================================================================
