----------------------------- MODULE LockGuard ------------------------------
(***************************************************************************)
(* How hostlock/lock.sh makes one step of a request on a host: HostLock    *)
(* takes each call of the script to read and to change the lock file at    *)
(* once, and here it takes its guard, a directory named after the boot of  *)
(* the host, sweeps the guards of earlier boots, reads the record, decides *)
(* and changes it, and gives the guard back in its EXIT trap.              *)
(*                                                                         *)
(* A script may be killed at any point.  The requests of a run to its own  *)
(* machine are: exec.CommandContext kills bash when the context of the     *)
(* request ends, and a SIGKILL runs no trap.                               *)
(***************************************************************************)
EXTENDS Integers

CONSTANTS
  Script,             \* processes that run lock.sh on the host
  Run, NoRun,         \* the runs that ask, and the holder of no record
  MaxLease,           \* the longest lease of a request, in seconds
  GuardWait,          \* GUARD_WAIT_SECONDS
  BootIdFollowsClock, \* kern.boottime moves when the clock of macOS is set
  MaxTime, MaxBoot    \* bounds of the model: the clock and the boot ids

ASSUME GuardAssumption ==
  /\ NoRun \notin Run
  /\ MaxLease \in Nat \ {0}
  /\ MaxTime \in Nat /\ MaxBoot \in Nat
  /\ GuardWait \in Nat
  /\ BootIdFollowsClock \in BOOLEAN

VARIABLES
  boot,     \* what boot_id prints
  guards,   \* the guard directories that exist, by their boot ids
  record,   \* deploy.lock
  now,      \* date +%s
  pc,       \* pc[s]: how far the script has come
  job,      \* job[s]: the request of the script and what it found
  killed    \* a script was killed inside its guard since the host started

vars == <<boot, guards, record, now, pc, job, killed>>

\* extend changes the record as renew does, and unlock as release does; they
\* differ in what they refuse and report.
Operations == {"acquire", "renew", "release"}
NoRecord == [holder |-> NoRun, expiry |-> 0]
Record == [holder : Run \cup {NoRun}, expiry : Nat]
Job == [op : Operations, run : Run \cup {NoRun}, lease : 1..MaxLease, guard : Nat,
        waited : 0..GuardWait, read : Record, new : Record]
NoJob == [op |-> "acquire", run |-> NoRun, lease |-> 1, guard |-> 0,
          waited |-> 0, read |-> NoRecord, new |-> NoRecord]

Stages == {"idle", "waiting", "entered", "swept", "writing", "leaving"}

\* The scripts that have made their guard directory.
Inside == {s \in Script : pc[s] \in {"entered", "swept", "writing", "leaving"}}

Init ==
  /\ boot = 0 /\ guards = {} /\ record = NoRecord /\ now = 0
  /\ pc = [s \in Script |-> "idle"]
  /\ job = [s \in Script |-> NoJob]
  /\ killed = FALSE

Goto(s, stage) == pc' = [pc EXCEPT ![s] = stage]

Exit(s) ==
  /\ Goto(s, "idle")
  /\ job' = [job EXCEPT ![s] = NoJob]

-----------------------------------------------------------------------------
(***************************************************************************)
(* The script.                                                             *)
(***************************************************************************)

\* A request arrives: GUARD_DIR is fixed before anything else.
Start(s, op, run, lease) ==
  /\ pc[s] = "idle"
  /\ job' = [job EXCEPT ![s] = [op |-> op, run |-> run, lease |-> lease, guard |-> boot,
                               waited |-> 0, read |-> NoRecord, new |-> NoRecord]]
  /\ Goto(s, "waiting")
  /\ UNCHANGED <<boot, guards, record, now, killed>>

\* A bug to be found: a directory that exists is no obstacle (mkdir -p).
TakeGuardShared(s) ==
  /\ pc[s] = "waiting"
  /\ guards' = guards \cup {job[s].guard}
  /\ Goto(s, "entered")
  /\ UNCHANGED <<boot, record, now, job, killed>>

\* take_guard: mkdir
TakeGuard(s) ==
  /\ pc[s] = "waiting" /\ job[s].guard \notin guards
  /\ guards' = guards \cup {job[s].guard}
  /\ Goto(s, "entered")
  /\ UNCHANGED <<boot, record, now, job, killed>>

\* sleep 1; after GUARD_WAIT_SECONDS the script exits with status 5.
WaitForGuard(s) ==
  /\ pc[s] = "waiting" /\ job[s].guard \in guards
  /\ IF job[s].waited < GuardWait
     THEN job' = [job EXCEPT ![s].waited = @ + 1] /\ UNCHANGED pc
     ELSE Exit(s)
  /\ UNCHANGED <<boot, guards, record, now, killed>>

\* A bug to be found: the sweep spares no guard.
SweepAll(s) ==
  /\ pc[s] = "entered"
  /\ guards' = {}
  /\ Goto(s, "swept")
  /\ UNCHANGED <<boot, record, now, job, killed>>

\* remove_stale_guards
Sweep(s) ==
  /\ pc[s] = "entered"
  /\ guards' = guards \cap {job[s].guard}
  /\ Goto(s, "swept")
  /\ UNCHANGED <<boot, record, now, job, killed>>

\* Another run owns a current lock.
HeldByOther(s) ==
  record.holder \notin {NoRun, job[s].run} /\ record.expiry > now

Later(a, b) == IF a > b THEN a ELSE b

\* What the request makes of the record, and whether it does.
Changes(s) ==
  IF job[s].op = "acquire" THEN ~HeldByOther(s) ELSE record.holder = job[s].run

Changed(s) ==
  CASE job[s].op = "acquire" -> [holder |-> job[s].run, expiry |-> now + job[s].lease]
    [] job[s].op = "renew" ->
         [holder |-> job[s].run, expiry |-> Later(record.expiry, now + job[s].lease)]
    [] OTHER -> NoRecord

\* main: the time, the record, and the decision; a refused request and a release
\* of a record that is not the run's own exit without a change.
ReadRecord(s) ==
  /\ pc[s] = "swept"
  /\ job' = [job EXCEPT ![s].read = record, ![s].new = Changed(s)]
  /\ Goto(s, IF Changes(s) THEN "writing" ELSE "leaving")
  /\ UNCHANGED <<boot, guards, record, now, killed>>

\* write_lock: mv of the temporary record; or rm -f
WriteRecord(s) ==
  /\ pc[s] = "writing"
  /\ record' = job[s].new
  /\ Goto(s, "leaving")
  /\ UNCHANGED <<boot, guards, now, job, killed>>

\* The EXIT trap
LeaveGuard(s) ==
  /\ pc[s] = "leaving"
  /\ guards' = guards \ {job[s].guard}
  /\ Exit(s)
  /\ UNCHANGED <<boot, record, now, killed>>

\* The script is killed; a guard that it has made stays.
Kill(s) ==
  /\ pc[s] # "idle"
  /\ killed' = (killed \/ s \in Inside)
  /\ Exit(s)
  /\ UNCHANGED <<boot, guards, record, now>>

-----------------------------------------------------------------------------
(***************************************************************************)
(* The host.                                                               *)
(***************************************************************************)

\* The host restarts: no script survives, guards and record do.
Reboot ==
  /\ boot < MaxBoot
  /\ boot' = boot + 1
  /\ pc' = [s \in Script |-> "idle"]
  /\ job' = [s \in Script |-> NoJob]
  /\ killed' = FALSE
  /\ UNCHANGED <<guards, record, now>>

\* Time passes.  Where boot_id prints the boot time, setting the clock of the
\* host changes it under scripts that go on.
Tick ==
  /\ now < MaxTime
  /\ now' = now + 1
  /\ boot' = boot \/ (BootIdFollowsClock /\ boot < MaxBoot /\ boot' = boot + 1)
  /\ UNCHANGED <<guards, record, pc, job, killed>>

ScriptStep(s) ==
  \/ TakeGuard(s) \/ WaitForGuard(s) \/ Sweep(s) \/ ReadRecord(s) \/ WriteRecord(s)
  \/ LeaveGuard(s) \/ Kill(s)
  \/ \E op \in Operations, run \in Run, lease \in 1..MaxLease : Start(s, op, run, lease)

Next == Reboot \/ Tick \/ \E s \in Script : ScriptStep(s)

Spec == Init /\ [][Next]_vars

-----------------------------------------------------------------------------
(***************************************************************************)
(* Properties.                                                             *)
(***************************************************************************)
TypeOK ==
  /\ boot \in Nat
  /\ guards \in SUBSET Nat
  /\ record \in Record
  /\ now \in Nat
  /\ pc \in [Script -> Stages]
  /\ job \in [Script -> Job]
  /\ killed \in BOOLEAN

\* One script at a time is between its mkdir and its rmdir, and its guard stands.
OneInside ==
  /\ \A s, t \in Inside : s = t
  /\ \A s \in Inside : job[s].guard \in guards

\* Guards of later boots do not exist, and scripts use the guard of this boot.
GuardOfBoot ==
  /\ guards \subseteq 0..boot
  /\ \A s \in Script : pc[s] # "idle" => job[s].guard = boot

\* A guard of this boot without a script means that one was killed: every later
\* request waits and fails until the host restarts, and never longer.
GuardReturned == boot \in guards => Inside # {} \/ killed

\* Nothing changes the record between the decision of a script and its write.
DecisionStands ==
  \A s \in Script : pc[s] = "writing" =>
    /\ job[s].read = record
    /\ job[s].op # "acquire" => record.holder = job[s].run
    /\ \/ record.holder \in {NoRun, job[s].run}
       \/ record.expiry <= now
    /\ \/ job[s].new = NoRecord /\ job[s].op = "release"
       \/ /\ job[s].new.holder = job[s].run
          /\ job[s].op # "release"
          /\ job[s].new.expiry <= now + MaxLease \/ job[s].new.expiry <= record.expiry

\* The guard of lock.sh excludes scripts from one another, survives no restart
\* and is left behind only by a script that was killed inside it.
GuardInv == TypeOK /\ OneInside /\ GuardOfBoot /\ GuardReturned /\ DecisionStands

File == INSTANCE LockRecord

\* Seen from outside, every call of lock.sh changes the lock file in one step, as
\* HostLock takes it to do (RunScript): nobody's current record is overwritten or
\* removed by another run, whatever is killed and whenever the host restarts.
ImplementsRecord == File!Spec
=============================================================================
