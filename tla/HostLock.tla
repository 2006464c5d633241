------------------------------ MODULE HostLock ------------------------------
(***************************************************************************)
(* The deploy lock of hostlock/: a lock file on each target host, changed  *)
(* only by lock.sh, and the Set a run keeps in its own process.  A Set     *)
(* acquires its hosts, renews them in rounds, lets child processes extend  *)
(* a lease, may add hosts once, notices a lost lock, and releases.  A      *)
(* request, once sent, runs on its host at any later time, whether or not  *)
(* its sender still waits for it, or it is lost and never runs.            *)
(*                                                                         *)
(* Time is counted in ticks.  A host reads its clock in whole seconds of   *)
(* ClockStep ticks, rounded down; the seconds of a file's host start       *)
(* Phase[f] ticks before the controller's.  lock.sh runs as one step,      *)
(* which its guard directory provides.                                     *)
(***************************************************************************)
EXTENDS Integers, FiniteSets

CONSTANTS
  Run,                \* run ids; every run id has at most one Set
  Host,               \* host names known to the runs
  File,               \* lock files: endpoint and lock directory
  Target,             \* Target[h]: the lock file behind a host name
  NoRun,              \* the holder of a lock file that does not exist
  NoHost,             \* the Set waits for no acquire or release
  TTL,                \* lease.TTL
  RenewInterval,      \* lease.RenewInterval
  ClockStep,          \* hostClockStep: a second of the host clock
  Phase,              \* Phase[f]: offset of the seconds of the host of f
  MaxExtend,          \* the extend cap of lock.sh
  FirstHosts,         \* the host lists AcquireAll is called with
  MoreHosts,          \* the host lists AcquireAdditional is called with
  Declared,           \* durations that child processes declare
  StrictRenewal,      \* options.StrictRenewal
  OperatorMayUnlock,  \* the operator may unlock a run that still works
  MaxInFlight,        \* bound of the model: requests of a run on their way
  MaxExtends,         \* bound of the model: extends of a run not yet answered
  MaxTime             \* bound of the model: the last tick

ASSUME NamesAssumption ==
  /\ NoRun \notin Run
  /\ NoHost \notin Host
  /\ Target \in [Host -> File]
  /\ FirstHosts \subseteq SUBSET Host
  /\ MoreHosts \subseteq SUBSET Host

ASSUME LeaseAssumption ==
  /\ ClockStep \in Nat \ {0}
  /\ TTL \in Nat /\ TTL >= ClockStep
  /\ RenewInterval \in Nat /\ 0 < RenewInterval /\ RenewInterval < TTL
  /\ MaxExtend \in Nat
  /\ Declared \subseteq Int
  /\ Phase \in [File -> 0 .. ClockStep - 1]
  /\ MaxInFlight \in Nat /\ MaxExtends \in Nat
  /\ MaxTime \in Nat
  /\ StrictRenewal \in BOOLEAN
  /\ OperatorMayUnlock \in BOOLEAN

VARIABLES
  now,        \* the time of the controller
  file,       \* file[f]: the record in the lock file
  net,        \* requests that were sent and have not run on their host
  answers,    \* answers that a process still waits for
  phase,      \* phase[r]: where the Set of r is in its life
  todo,       \* todo[r]: hosts left in the current acquire or release loop
  await,      \* await[r]: the host whose acquire or release is under way
  held,       \* held[r]: the hosts of the Set
  fresh,      \* fresh[r]: hosts AcquireAdditional locked and did not adopt
  deadline,   \* deadline[r][h]: the loss deadline
  declared,   \* declared[r][h]: the deadline in the lease-<index>.json of h
  loop,       \* loop[r]: the state of KeepRenewed
  round,      \* round[r]: hosts whose renewal of this round has no result
  asked,      \* asked[r]: when this round, or KeepRenewed, started
  lost,       \* lost[r]: the Set recorded a lost lock
  unsettled   \* history: hosts whose acquire or release ended in an error

setVars == <<phase, todo, await, held, fresh>>
leaseVars == <<deadline, declared>>
renewVars == <<loop, round, asked, lost>>
vars == <<now, file, net, answers, setVars, leaseVars, renewVars, unsettled>>

Phases == {"new", "acquiring", "held", "adding", "undoing", "settled",
           "releasing", "over", "dead"}

\* acquired is set and released is not.
Acquired == {"held", "adding", "undoing", "settled"}

Request == [run : Run, host : Host, asked : Int, lease : Int,
            op : {"acquire", "renew", "extend", "release"}]

Answer == [run : Run, host : Host, asked : Int, remaining : Int,
           op : {"acquire", "renew", "extend", "release"}, ok : BOOLEAN]

NoRecord == [holder |-> NoRun, expiry |-> 0]

Later(a, b) == IF a >= b THEN a ELSE b

\* A duration in whole seconds, as lock.sh is given it.
WholeSeconds(d) == d - (d % ClockStep)

\* The zero time.Time: earlier than every deadline.
Never == 0 - RenewInterval - ClockStep

-----------------------------------------------------------------------------
(***************************************************************************)
(* lock.sh, run on the host of a request.                                  *)
(***************************************************************************)

\* date +%s on the host of f.
HostClock(f) == now - ((now + Phase[f]) % ClockStep)

\* A process still waits for the answer to q.
Awaited(q) ==
  \/ q.op = "acquire" /\ phase[q.run] \in {"acquiring", "adding"} /\ await[q.run] = q.host
  \/ q.op = "release" /\ phase[q.run] \in {"undoing", "releasing"} /\ await[q.run] = q.host
  \/ q.op = "renew" /\ q.host \in round[q.run] /\ q.asked = asked[q.run]
  \/ q.op = "extend" /\ phase[q.run] \in Acquired

\* What the script prints, with its exit status.
Granted(q, remaining) ==
  [run |-> q.run, host |-> q.host, op |-> q.op, asked |-> q.asked, ok |-> TRUE,
   remaining |-> remaining]

Refusal(q) ==
  [run |-> q.run, host |-> q.host, op |-> q.op, asked |-> q.asked, ok |-> FALSE,
   remaining |-> 0]

\* The script ends: the request is used up and its answer goes to who waits.
Reply(q, a) ==
  /\ net' = net \ {q}
  /\ answers' = IF Awaited(q) THEN answers \cup {a} ELSE answers
  /\ UNCHANGED <<now, setVars, leaseVars, renewVars, unsettled>>

WriteLock(q, expiry) ==
  /\ file' = [file EXCEPT ![Target[q.host]] = [holder |-> q.run, expiry |-> expiry]]
  /\ Reply(q, Granted(q, expiry - HostClock(Target[q.host])))

Refuse(q) ==
  /\ Reply(q, Refusal(q))
  /\ UNCHANGED file

\* acquire refuses while another run owns a current lock.
ScriptAcquire(q) ==
  LET rec == file[Target[q.host]]
      current == HostClock(Target[q.host])
  IN /\ q.op = "acquire"
     /\ IF rec.holder \notin {NoRun, q.run} /\ rec.expiry > current
        THEN Refuse(q)
        ELSE WriteLock(q, current + q.lease)

\* Mutants of ScriptRenew: the new expiry replaces the stored one; the lease is
\* added to the stored expiry.
ScriptRenewReplaces(q) ==
  /\ q.op \in {"renew", "extend"}
  /\ file[Target[q.host]].holder = q.run
  /\ WriteLock(q, HostClock(Target[q.host]) + q.lease)

ScriptRenewAdds(q) ==
  /\ q.op \in {"renew", "extend"}
  /\ file[Target[q.host]].holder = q.run
  /\ WriteLock(q, file[Target[q.host]].expiry + q.lease)

\* renew and extend keep the later of the stored and the new expiry.
ScriptRenew(q) ==
  LET rec == file[Target[q.host]]
      current == HostClock(Target[q.host])
  IN /\ q.op \in {"renew", "extend"}
     /\ IF \/ rec.holder # q.run
           \/ q.op = "extend" /\ q.lease \notin 1 .. MaxExtend
        THEN Refuse(q)
        ELSE WriteLock(q, Later(rec.expiry, current + q.lease))

\* Mutant of ScriptRelease: the holder is not compared.
ScriptReleaseAny(q) ==
  /\ q.op = "release"
  /\ file' = [file EXCEPT ![Target[q.host]] = NoRecord]
  /\ Reply(q, Granted(q, 0))

\* release deletes only the run's own record.
ScriptRelease(q) ==
  LET f == Target[q.host]
  IN /\ q.op = "release"
     /\ file' = IF file[f].holder = q.run
                THEN [file EXCEPT ![f] = NoRecord]
                ELSE file
     /\ Reply(q, Granted(q, 0))

RunScript(q) == ScriptAcquire(q) \/ ScriptRenew(q) \/ ScriptRelease(q)

-----------------------------------------------------------------------------
(***************************************************************************)
(* The Set of a run.                                                       *)
(***************************************************************************)

\* Mutants of LossDeadline: the rounding of the host clock is forgotten; the lease
\* is counted from the answer.
LossDeadlineExact(a) == a.asked + a.remaining - RenewInterval

LossDeadlineLate(a) == now + a.remaining - RenewInterval - ClockStep

\* advance: one RenewInterval and one host second before the granted expiry.
LossDeadline(a) == a.asked + a.remaining - RenewInterval - ClockStep

\* The deadline after readDeclarations.
Effective(r, h) == Later(deadline[r][h], declared[r][h])

\* readDeclarations: the deadlines of the Set advance to the declared ones.
ReadDeclarations(r) ==
  deadline' = [deadline EXCEPT ![r] =
                 [h \in Host |-> IF h \in held[r] THEN Effective(r, h) ELSE @[h]]]

Overdue(r) == \E h \in held[r] : now >= Effective(r, h)

\* Mutant of Usable: only a recorded loss counts, not a deadline.
UsableUntilLost(r) == phase[r] \in Acquired /\ ~lost[r] /\ loop[r] # "ended"

\* usable: Scope and Check accept the Set.
Usable(r) ==
  /\ phase[r] \in Acquired
  /\ ~lost[r]
  /\ loop[r] # "ended"
  /\ ~Overdue(r)

InFlight(r) == {q \in net : q.run = r}

\* Mutant of Send: one request names all hosts.
SendOnce(r, hosts, op, lease) ==
  /\ Cardinality(InFlight(r)) < MaxInFlight
  /\ net' = net \cup {[run |-> r, host |-> hosts, op |-> op, asked |-> now, lease |-> lease]}

Send(r, hosts, op, lease) ==
  /\ Cardinality(InFlight(r)) + Cardinality(hosts) <= MaxInFlight
  /\ net' = net \cup {[run |-> r, host |-> h, op |-> op, asked |-> now,
                       lease |-> WholeSeconds(lease)] : h \in hosts}

\* A released Set is never usable again, so nothing reads what it had noted.
Forget(r) ==
  /\ deadline' = [deadline EXCEPT ![r] = [h \in Host |-> Never]]
  /\ declared' = [declared EXCEPT ![r] = [h \in Host |-> Never]]
  /\ loop' = [loop EXCEPT ![r] = "ended"]
  /\ round' = [round EXCEPT ![r] = {}]
  /\ asked' = [asked EXCEPT ![r] = 0]
  /\ lost' = [lost EXCEPT ![r] = FALSE]

\* The answer to the acquire or release that r waits for.
Answered(r, op, a) ==
  /\ a \in answers
  /\ a.run = r /\ a.op = op /\ a.host = await[r]

\* AcquireAll, or the part of AcquireAdditional that selects pending hosts.
Begin(r, hosts) ==
  /\ phase[r] = "new"
  /\ phase' = [phase EXCEPT ![r] = "acquiring"]
  /\ todo' = [todo EXCEPT ![r] = hosts]
  /\ UNCHANGED <<now, file, net, answers, await, held, fresh, leaseVars, renewVars,
                 unsettled>>

BeginAdditional(r, hosts) ==
  /\ phase[r] = "held"
  /\ Usable(r)
  /\ hosts \ held[r] # {}
  /\ phase' = [phase EXCEPT ![r] = "adding"]
  /\ todo' = [todo EXCEPT ![r] = hosts \ held[r]]
  /\ ReadDeclarations(r)
  /\ UNCHANGED <<now, file, net, answers, await, held, fresh, declared, renewVars,
                 unsettled>>

SendAcquire(r, h) ==
  /\ phase[r] \in {"acquiring", "adding"}
  /\ await[r] = NoHost
  /\ h \in todo[r]
  /\ await' = [await EXCEPT ![r] = h]
  /\ todo' = [todo EXCEPT ![r] = @ \ {h}]
  /\ Send(r, {h}, "acquire", TTL)
  /\ UNCHANGED <<now, file, answers, phase, held, fresh, leaseVars, renewVars, unsettled>>

AcquireGranted(r, a) ==
  /\ phase[r] \in {"acquiring", "adding"}
  /\ Answered(r, "acquire", a)
  /\ a.ok
  /\ answers' = answers \ {a}
  /\ await' = [await EXCEPT ![r] = NoHost]
  /\ deadline' = [deadline EXCEPT ![r][a.host] = LossDeadline(a)]
  /\ IF phase[r] = "acquiring"
     THEN held' = [held EXCEPT ![r] = @ \cup {a.host}] /\ UNCHANGED fresh
     ELSE fresh' = [fresh EXCEPT ![r] = @ \cup {a.host}] /\ UNCHANGED held
  /\ UNCHANGED <<now, file, net, phase, todo, declared, renewVars, unsettled>>

\* Mutants of GiveBack: the failed loop keeps what it took; a failed
\* AcquireAdditional releases the whole Set.
GiveBackNothing(r) ==
  /\ await' = [await EXCEPT ![r] = NoHost]
  /\ phase' = [phase EXCEPT ![r] = IF @ = "acquiring" THEN "releasing" ELSE "undoing"]
  /\ todo' = [todo EXCEPT ![r] = {}]
  /\ held' = [held EXCEPT ![r] = IF phase[r] = "acquiring" THEN {} ELSE @]
  /\ fresh' = [fresh EXCEPT ![r] = {}]
  /\ UNCHANGED <<leaseVars, renewVars>>

GiveBackEverything(r) ==
  /\ await' = [await EXCEPT ![r] = NoHost]
  /\ phase' = [phase EXCEPT ![r] = IF @ = "acquiring" THEN "releasing" ELSE "undoing"]
  /\ todo' = [todo EXCEPT ![r] = held[r] \cup fresh[r]]
  /\ held' = [held EXCEPT ![r] = IF phase[r] = "acquiring" THEN {} ELSE @]
  /\ fresh' = [fresh EXCEPT ![r] = {}]
  /\ UNCHANGED <<leaseVars, renewVars>>

\* Give back what the failed loop took: every host of a failed AcquireAll, the
\* new hosts of a failed AcquireAdditional, whose Set goes on.
GiveBack(r) ==
  /\ await' = [await EXCEPT ![r] = NoHost]
  /\ \/ /\ phase[r] = "acquiring"
        /\ phase' = [phase EXCEPT ![r] = "releasing"]
        /\ todo' = [todo EXCEPT ![r] = held[r]]
        /\ held' = [held EXCEPT ![r] = {}]
        /\ Forget(r)
        /\ UNCHANGED fresh
     \/ /\ phase[r] = "adding"
        /\ phase' = [phase EXCEPT ![r] = "undoing"]
        /\ todo' = [todo EXCEPT ![r] = fresh[r]]
        /\ fresh' = [fresh EXCEPT ![r] = {}]
        /\ ReadDeclarations(r)
        /\ UNCHANGED <<held, declared, renewVars>>

\* The host refused the acquire.
AcquireRefused(r, a) ==
  /\ Answered(r, "acquire", a)
  /\ ~a.ok
  /\ answers' = answers \ {a}
  /\ GiveBack(r)
  /\ UNCHANGED <<now, file, net, unsettled>>

\* The acquire ended in any other error; its script may still run, or has run.
AcquireFailed(r) ==
  /\ await[r] # NoHost
  /\ answers' = {a \in answers : ~(a.run = r /\ a.op = "acquire")}
  /\ unsettled' = [unsettled EXCEPT ![r] = @ \cup {await[r]}]
  /\ GiveBack(r)
  /\ UNCHANGED <<now, file, net>>

\* writeState succeeds and the Set, or the additional hosts, are adopted.
Adopt(r) ==
  /\ await[r] = NoHost
  /\ todo[r] = {}
  /\ \/ /\ phase[r] = "acquiring"
        /\ phase' = [phase EXCEPT ![r] = "held"]
     \/ /\ phase[r] = "adding"
        /\ Usable(r)
        /\ \A h \in fresh[r] : now < deadline[r][h]
        /\ phase' = [phase EXCEPT ![r] = "settled"]
  /\ ReadDeclarations(r)
  /\ held' = [held EXCEPT ![r] = @ \cup fresh[r]]
  /\ fresh' = [fresh EXCEPT ![r] = {}]
  /\ UNCHANGED <<now, file, net, answers, todo, await, declared, renewVars, unsettled>>

\* The check before adoption, or writeState, fails.
AdoptFailed(r) ==
  /\ await[r] = NoHost
  /\ todo[r] = {}
  /\ GiveBack(r)
  /\ UNCHANGED <<now, file, net, answers, unsettled>>

\* ReleaseAll; the commands stop the renewal first.
ReleaseAll(r) ==
  /\ phase[r] \in {"held", "settled"}
  /\ loop[r] \in {"off", "ended"}
  /\ phase' = [phase EXCEPT ![r] = "releasing"]
  /\ todo' = [todo EXCEPT ![r] = held[r]]
  /\ held' = [held EXCEPT ![r] = {}]
  /\ Forget(r)
  /\ UNCHANGED <<now, file, net, answers, await, fresh, unsettled>>

\* Abandon: the scopes end and the lock files stay.
Abandon(r) ==
  /\ phase[r] \in {"held", "settled"}
  /\ phase' = [phase EXCEPT ![r] = "over"]
  /\ held' = [held EXCEPT ![r] = {}]
  /\ Forget(r)
  /\ answers' = {a \in answers : a.run # r}
  /\ unsettled' = [unsettled EXCEPT ![r] = @ \cup held[r]]
  /\ UNCHANGED <<now, file, net, todo, await, fresh>>

SendRelease(r, h) ==
  /\ phase[r] \in {"undoing", "releasing"}
  /\ await[r] = NoHost
  /\ h \in todo[r]
  /\ await' = [await EXCEPT ![r] = h]
  /\ todo' = [todo EXCEPT ![r] = @ \ {h}]
  /\ Send(r, {h}, "release", TTL)
  /\ UNCHANGED <<now, file, answers, phase, held, fresh, leaseVars, renewVars, unsettled>>

ReleaseAnswered(r, a) ==
  /\ Answered(r, "release", a)
  /\ answers' = answers \ {a}
  /\ await' = [await EXCEPT ![r] = NoHost]
  /\ UNCHANGED <<now, file, net, phase, todo, held, fresh, leaseVars, renewVars, unsettled>>

\* Mutant of ReleaseFailed: the host goes back into the loop.
ReleaseRetried(r) ==
  /\ phase[r] \in {"undoing", "releasing"}
  /\ await[r] # NoHost
  /\ answers' = {a \in answers : ~(a.run = r /\ a.op = "release")}
  /\ todo' = [todo EXCEPT ![r] = @ \cup {await[r]}]
  /\ await' = [await EXCEPT ![r] = NoHost]
  /\ UNCHANGED <<now, file, net, phase, held, fresh, leaseVars, renewVars, unsettled>>

\* A failed release is logged and the loop goes on; its script may still run.
ReleaseFailed(r) ==
  /\ phase[r] \in {"undoing", "releasing"}
  /\ await[r] # NoHost
  /\ answers' = {a \in answers : ~(a.run = r /\ a.op = "release")}
  /\ await' = [await EXCEPT ![r] = NoHost]
  /\ unsettled' = [unsettled EXCEPT ![r] = @ \cup {await[r]}]
  /\ UNCHANGED <<now, file, net, phase, todo, held, fresh, leaseVars, renewVars>>

ReleaseDone(r) ==
  /\ phase[r] \in {"undoing", "releasing"}
  /\ await[r] = NoHost
  /\ todo[r] = {}
  /\ phase' = [phase EXCEPT ![r] = IF @ = "undoing" THEN "settled" ELSE "over"]
  /\ UNCHANGED <<now, file, net, answers, todo, await, held, fresh, leaseVars, renewVars,
                 unsettled>>

-----------------------------------------------------------------------------
(***************************************************************************)
(* KeepRenewed: the renewal rounds and the watch of the deadlines.         *)
(***************************************************************************)

StartRenewal(r) ==
  /\ phase[r] = "held"
  /\ loop[r] = "off"
  /\ loop' = [loop EXCEPT ![r] = "on"]
  /\ asked' = [asked EXCEPT ![r] = now]
  /\ UNCHANGED <<now, file, net, answers, setVars, leaseVars, round, lost, unsettled>>

\* RenewAll asks every host of the Set; hosts under acquisition are not renewed.
RenewRound(r) ==
  /\ loop[r] = "on"
  /\ phase[r] \in Acquired
  /\ round[r] = {}
  /\ now >= asked[r] + RenewInterval
  /\ asked' = [asked EXCEPT ![r] = now]
  /\ round' = [round EXCEPT ![r] = held[r]]
  /\ Send(r, held[r], "renew", TTL)
  /\ UNCHANGED <<now, file, answers, setVars, leaseVars, loop, lost, unsettled>>

\* The first loss of a round ends the round.  A strict Set records the loss at
\* once; another Set waits for the results that are still missing.
RoundLost(r, h) ==
  /\ round' = [round EXCEPT ![r] = IF StrictRenewal THEN {} ELSE @ \ {h}]
  /\ loop' = [loop EXCEPT ![r] = IF StrictRenewal THEN "ended" ELSE "draining"]
  /\ lost' = [lost EXCEPT ![r] = @ \/ StrictRenewal]

RenewAnswered(r, a) ==
  /\ a \in answers
  /\ a.run = r /\ a.op = "renew" /\ a.asked = asked[r] /\ a.host \in round[r]
  /\ loop[r] = "on"
  /\ answers' = answers \ {a}
  /\ IF a.ok
     THEN /\ deadline' = [deadline EXCEPT ![r][a.host] = Later(@, LossDeadline(a))]
          /\ round' = [round EXCEPT ![r] = @ \ {a.host}]
          /\ UNCHANGED <<loop, lost>>
     ELSE /\ RoundLost(r, a.host)
          /\ UNCHANGED deadline
  /\ UNCHANGED <<now, file, net, setVars, declared, asked, unsettled>>

\* No answer in RenewTimeout, or another error.
RenewFailed(r, h) ==
  /\ loop[r] = "on"
  /\ h \in round[r]
  /\ answers' = {a \in answers : ~(a.run = r /\ a.op = "renew" /\ a.host = h)}
  /\ ReadDeclarations(r)
  /\ IF StrictRenewal \/ now >= Effective(r, h)
     THEN RoundLost(r, h)
     ELSE /\ round' = [round EXCEPT ![r] = @ \ {h}]
          /\ UNCHANGED <<loop, lost>>
  /\ UNCHANGED <<now, file, net, setVars, declared, asked, unsettled>>

\* report: record the loss, tell the command, end the renewal.
ReportLoss(r) ==
  /\ lost' = [lost EXCEPT ![r] = TRUE]
  /\ loop' = [loop EXCEPT ![r] = "ended"]
  /\ round' = [round EXCEPT ![r] = {}]
  /\ answers' = {a \in answers : ~(a.run = r /\ a.op = "renew")}
  /\ UNCHANGED asked

\* The last result of a round that lost a lock.
RoundDrained(r) ==
  /\ loop[r] = "draining"
  /\ ReportLoss(r)
  /\ UNCHANGED <<now, file, net, setVars, leaseVars, unsettled>>

\* Mutant of WatchDeadlines: a passed deadline is not reported.
WatchOnly(r) ==
  /\ loop[r] \in {"on", "draining"}
  /\ ReadDeclarations(r)
  /\ UNCHANGED <<now, file, net, answers, setVars, declared, renewVars, unsettled>>

\* watchDeadlines wakes, reads the declarations and reports an overdue host.
WatchDeadlines(r) ==
  /\ loop[r] \in {"on", "draining"}
  /\ ReadDeclarations(r)
  /\ IF Overdue(r) THEN ReportLoss(r) ELSE UNCHANGED <<renewVars, answers>>
  /\ UNCHANGED <<now, file, net, setVars, declared, unsettled>>

\* stop: cancel the renewal and wait for its loops, which record a loss they
\* had seen; to a strict Set a cancelled renewal is a loss.
StopRenewal(r) ==
  /\ loop[r] \in {"on", "draining"}
  /\ phase[r] \in {"held", "settled"}
  /\ lost' = [lost EXCEPT ![r] = loop[r] = "draining" \/ (StrictRenewal /\ round[r] # {})]
  /\ loop' = [loop EXCEPT ![r] = "ended"]
  /\ round' = [round EXCEPT ![r] = {}]
  /\ answers' = {a \in answers : ~(a.run = r /\ a.op = "renew")}
  /\ UNCHANGED <<now, file, net, setVars, leaseVars, asked, unsettled>>

-----------------------------------------------------------------------------
(***************************************************************************)
(* Child processes, the operator, crashes and time.                        *)
(***************************************************************************)

\* Extend: a child reads the hosts in run.json and asks for a longer lease.
SendExtend(r, h, lease) ==
  /\ phase[r] \in Acquired
  /\ h \in held[r]
  /\ Cardinality({q \in net \cup answers : q.run = r /\ q.op = "extend"}) < MaxExtends
  /\ Send(r, {h}, "extend", lease)
  /\ UNCHANGED <<now, file, answers, setVars, leaseVars, renewVars, unsettled>>

\* The child writes lease-<index>.json; after release its directory is gone.
ExtendAnswered(r, a) ==
  /\ a \in answers
  /\ a.run = r /\ a.op = "extend"
  /\ answers' = answers \ {a}
  /\ declared' = IF a.ok /\ a.host \in held[r]
                 THEN [declared EXCEPT ![r][a.host] = LossDeadline(a)]
                 ELSE declared
  /\ UNCHANGED <<now, file, net, setVars, deadline, renewVars, unsettled>>

\* gate unlock deletes the record of a run the operator names.
OperatorUnlock(f) ==
  /\ OperatorMayUnlock
  /\ file[f].holder # NoRun
  /\ file' = [file EXCEPT ![f] = NoRecord]
  /\ UNCHANGED <<now, net, answers, setVars, leaseVars, renewVars, unsettled>>

\* The process of r ends: its memory is gone, its requests may still run.
Crash(r) ==
  /\ phase[r] \notin {"new", "over", "dead"}
  /\ phase' = [phase EXCEPT ![r] = "dead"]
  /\ todo' = [todo EXCEPT ![r] = {}]
  /\ await' = [await EXCEPT ![r] = NoHost]
  /\ held' = [held EXCEPT ![r] = {}]
  /\ fresh' = [fresh EXCEPT ![r] = {}]
  /\ Forget(r)
  /\ answers' = {a \in answers : a.run # r}
  /\ unsettled' = [unsettled EXCEPT ![r] = {}]
  /\ UNCHANGED <<now, file, net>>

\* A request is lost, or stops on its host before the script changes anything.
Drop(q) ==
  /\ net' = net \ {q}
  /\ UNCHANGED <<now, file, answers, setVars, leaseVars, renewVars, unsettled>>

Tick ==
  /\ now < MaxTime
  /\ now' = now + 1
  /\ UNCHANGED <<file, net, answers, setVars, leaseVars, renewVars, unsettled>>

-----------------------------------------------------------------------------
Init ==
  /\ now = 0
  /\ file = [f \in File |-> NoRecord]
  /\ net = {}
  /\ answers = {}
  /\ phase = [r \in Run |-> "new"]
  /\ todo = [r \in Run |-> {}]
  /\ await = [r \in Run |-> NoHost]
  /\ held = [r \in Run |-> {}]
  /\ fresh = [r \in Run |-> {}]
  /\ deadline = [r \in Run |-> [h \in Host |-> Never]]
  /\ declared = [r \in Run |-> [h \in Host |-> Never]]
  /\ loop = [r \in Run |-> "off"]
  /\ round = [r \in Run |-> {}]
  /\ asked = [r \in Run |-> 0]
  /\ lost = [r \in Run |-> FALSE]
  /\ unsettled = [r \in Run |-> {}]

AcquireStep(r) ==
  \/ \E hosts \in FirstHosts : Begin(r, hosts)
  \/ \E hosts \in MoreHosts : BeginAdditional(r, hosts)
  \/ \E h \in Host : SendAcquire(r, h)
  \/ \E a \in answers : AcquireGranted(r, a) \/ AcquireRefused(r, a)
  \/ AcquireFailed(r) \/ Adopt(r) \/ AdoptFailed(r)

ReleaseStep(r) ==
  \/ ReleaseAll(r) \/ Abandon(r)
  \/ \E h \in Host : SendRelease(r, h)
  \/ \E a \in answers : ReleaseAnswered(r, a)
  \/ ReleaseFailed(r) \/ ReleaseDone(r)

RenewStep(r) ==
  \/ StartRenewal(r) \/ RenewRound(r)
  \/ \E a \in answers : RenewAnswered(r, a)
  \/ \E h \in Host : RenewFailed(r, h)
  \/ RoundDrained(r) \/ WatchDeadlines(r) \/ StopRenewal(r)

ExtendStep(r) ==
  \/ \E h \in Host, lease \in Declared : SendExtend(r, h, lease)
  \/ \E a \in answers : ExtendAnswered(r, a)

RunStep(r) == AcquireStep(r) \/ ReleaseStep(r) \/ RenewStep(r) \/ ExtendStep(r) \/ Crash(r)

Next ==
  \/ \E r \in Run : RunStep(r)
  \/ \E q \in net : RunScript(q) \/ Drop(q)
  \/ \E f \in File : OperatorUnlock(f)
  \/ Tick

Spec == Init /\ [][Next]_vars

\* The loops of AcquireAll, AcquireAdditional and ReleaseAll: every request ends
\* in an answer or an error, and the loop goes on.
LoopStep(r) ==
  \/ \E h \in Host : SendAcquire(r, h) \/ SendRelease(r, h)
  \/ \E a \in answers : AcquireGranted(r, a) \/ AcquireRefused(r, a) \/ ReleaseAnswered(r, a)
  \/ AcquireFailed(r) \/ Adopt(r) \/ AdoptFailed(r) \/ ReleaseFailed(r) \/ ReleaseDone(r)

\* Time passes, a request runs or is lost, the loops of a Set go on (ssh gives
\* up on a dead host, lock.sh on a busy guard) and the timer of watchDeadlines
\* fires.  Renewals need not be answered and no command needs to end.
Fairness ==
  /\ WF_vars(Tick)
  /\ WF_vars(\E q \in net : RunScript(q) \/ Drop(q))
  /\ \A r \in Run : WF_vars(LoopStep(r)) /\ WF_vars(WatchDeadlines(r))

FairSpec == Spec /\ Fairness

-----------------------------------------------------------------------------
(***************************************************************************)
(* Properties.                                                             *)
(***************************************************************************)

\* The types of the state: requests and answers are well formed, every lock
\* file is absent or names a run, and a Set only names known hosts.
TypeOK ==
  /\ now \in 0 .. MaxTime
  /\ file \in [File -> [holder : Run \cup {NoRun}, expiry : Int]]
  /\ net \subseteq Request
  /\ answers \subseteq Answer
  /\ phase \in [Run -> Phases]
  /\ todo \in [Run -> SUBSET Host]
  /\ await \in [Run -> Host \cup {NoHost}]
  /\ held \in [Run -> SUBSET Host]
  /\ fresh \in [Run -> SUBSET Host]
  /\ deadline \in [Run -> [Host -> Int]]
  /\ declared \in [Run -> [Host -> Int]]
  /\ loop \in [Run -> {"off", "on", "draining", "ended"}]
  /\ round \in [Run -> SUBSET Host]
  /\ asked \in [Run -> Int]
  /\ lost \in [Run -> BOOLEAN]
  /\ unsettled \in [Run -> SUBSET Host]

\* While Scope.Check accepts a Set, every lock file behind its hosts names the
\* run and stays current for more than one RenewInterval: the time the command
\* has to stop OpenTofu when the deadline passes.
ScopeIsBacked ==
  \A r \in Run : Usable(r) =>
    \A h \in held[r] : /\ file[Target[h]].holder = r
                       /\ now + RenewInterval < file[Target[h]].expiry

\* The record in f keeps its run, had expired, or is deleted by its own run.
TakenLawfully(f) ==
  LET r == file[f].holder
  IN r # NoRun /\ file'[f].holder # r =>
       \/ file[f].expiry <= now
       \/ \E q \in net \ net' : q.run = r /\ q.op = "release" /\ Target[q.host] = f

\* A record is taken from the run it names only by that run or after it
\* expired.  (release and renew check the holder, acquire the expiry.)
OnlyExpiredIsTaken ==
  [][\A f \in File : TakenLawfully(f)]_vars

\* While a run keeps its record the expiry never moves to an earlier time, so
\* a renewal does not undo what Extend declared.
ExpiryNeverShrinks ==
  [][\A f \in File :
       file'[f].holder = file[f].holder => file'[f].expiry >= file[f].expiry]_vars

\* No sequence of renewals and extends piles up lease time: a run that died
\* blocks its hosts for at most the longer of TTL and the extend cap.
BlockIsBounded ==
  \A f \in File : file[f].expiry <= now + Later(TTL, MaxExtend)

\* When a Set ended and the acquire and the release of a host both had an
\* answer, no late request puts the run back into the lock file.
ReleasedForGood ==
  \A r \in Run : phase[r] = "over" =>
    \A f \in File : file[f].holder = r => \E h \in unsettled[r] : Target[h] = f

\* A Set that renews and whose record is gone from a lock file notices it: a
\* refused renewal or the deadline ends its renewal, whatever the network does.
LossIsNoticed ==
  \A r \in Run, h \in Host :
    (loop[r] = "on" /\ h \in held[r] /\ file[Target[h]].holder # r
       /\ now + Later(TTL, MaxExtend) <= MaxTime)
      ~> loop[r] = "ended"

\* No acquire or release loop hangs, and a failed acquisition ends with its
\* releases.
SetSettles ==
  \A r \in Run :
    phase[r] \in {"acquiring", "adding", "undoing", "releasing"}
      ~> phase[r] \in {"held", "settled", "over", "dead"}

\* The lock files each run may change, as the scope of its Set reports them.
Permitted ==
  [f \in File |-> {r \in Run : Usable(r) /\ \E h \in held[r] : Target[h] = f}]

Lease == INSTANCE ExclusiveLease WITH permitted <- Permitted

\* The scopes of the Sets implement the exclusive lease: no two runs are
\* permitted on one lock file, and one step gives permissions to one run only.
ImplementsLease == Lease!Spec

\* "A failed acquisition releases the new locks and retains the existing
\* locks" (additional.go): while AcquireAdditional gives its new hosts back,
\* the Set keeps the records of the hosts it held before.
FailureRetainsExisting ==
  [][\A r \in Run, h \in Host :
       phase[r] = "undoing" /\ h \in held[r] /\ file[Target[h]].holder = r
         => file'[Target[h]].holder = r \/ file[Target[h]].expiry <= now]_vars

-----------------------------------------------------------------------------
(***************************************************************************)
(* The inductive invariant behind ScopeIsBacked.                           *)
(***************************************************************************)

\* A deadline d of r on h is backed by a record that outlives it, or over.
Backed(r, h, d) ==
  \/ file[Target[h]].holder = r /\ d + RenewInterval < file[Target[h]].expiry
  \/ d + RenewInterval < now

\* The hosts of a Set, the hosts it still works on and its phase fit together.
SetsFit ==
  \A r \in Run :
    /\ phase[r] \in {"new", "held", "settled"} => await[r] = NoHost
    /\ phase[r] \in {"acquiring", "adding"} =>
         /\ todo[r] \cap (held[r] \cup fresh[r]) = {}
         /\ await[r] \notin held[r] \cup fresh[r] \cup todo[r]
    /\ phase[r] = "undoing" => todo[r] \cap held[r] = {}
    /\ fresh[r] # {} => phase[r] = "adding"
    /\ fresh[r] \cap held[r] = {}
    /\ held[r] # {} => phase[r] \in Acquired \cup {"acquiring"}

\* An acquire or a release under way never concerns a host of the Set: only its
\* renewals and extends do.
RequestsFit ==
  \A q \in net :
    /\ q.asked <= now
    /\ phase[q.run] # "new"
    /\ q.op = "acquire" =>
         /\ phase[q.run] # "held"
         /\ q.host \notin held[q.run] \cup fresh[q.run]
         /\ phase[q.run] \in {"acquiring", "adding"} =>
              /\ q.host = await[q.run]
              /\ \A p \in net : p.run = q.run /\ p.op = "acquire" => p = q
              /\ \A a \in answers : a.run = q.run => a.op # "acquire"
    /\ q.op = "release" =>
         /\ phase[q.run] \notin {"acquiring", "held", "adding"}
         /\ q.host \notin held[q.run]
    /\ q.op \in {"renew", "extend"} =>
         /\ phase[q.run] # "acquiring"
         /\ phase[q.run] \in Acquired => q.host \in held[q.run]

\* An answer that grants a lease is backed until its process has read it.
AnswersFit ==
  \A a \in answers :
    /\ phase[a.run] # "new"
    /\ a.op = "acquire" =>
         /\ phase[a.run] \in {"acquiring", "adding"}
         /\ a.host = await[a.run]
         /\ \A b \in answers : b.run = a.run /\ b.op = "acquire" => b = a
    /\ a.op = "release" => phase[a.run] \notin {"acquiring", "held", "adding"}
    /\ a.op \in {"renew", "extend"} =>
         /\ phase[a.run] # "acquiring"
         /\ phase[a.run] \in Acquired => a.host \in held[a.run]
    /\ (a.ok /\ a.op # "release" /\ phase[a.run] \in Acquired \cup {"acquiring"}) =>
         Backed(a.run, a.host, LossDeadline(a))

\* Every deadline a Set has noted or a child declared is backed.
DeadlinesBacked ==
  \A r \in Run, h \in Host :
    /\ h \in held[r] \cup fresh[r] => Backed(r, h, deadline[r][h])
    /\ h \in held[r] => Backed(r, h, declared[r][h])
    /\ h \notin held[r] => declared[r][h] = Never

\* The deadlines of every Set are backed by the lock files, and what is still
\* under way cannot take that away.  The code of a Set, of lock.sh and of Extend
\* keeps this together; each alone does not.
IInv ==
  /\ TypeOK
  /\ SetsFit
  /\ RequestsFit
  /\ AnswersFit
  /\ DeadlinesBacked
=============================================================================
