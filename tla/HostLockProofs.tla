--------------------------- MODULE HostLockProofs ---------------------------
(* Theorems about HostLock for every value of its constants.               *)
EXTENDS HostLock, TLAPS

(***************************************************************************)
(* The clock of a host.                                                    *)
(***************************************************************************)

\* A host clock is behind the controller by less than one of its seconds.
LEMMA HostClockLag ==
  ASSUME TypeOK, NEW f \in File
  PROVE  /\ HostClock(f) \in Int
         /\ now - ClockStep < HostClock(f)
         /\ HostClock(f) <= now
<1> DEFINE x == now + Phase[f]
<1>1. x \in Int /\ now \in Int
  BY LeaseAssumption DEF TypeOK
<1>2. x % ClockStep \in 0 .. ClockStep - 1
  BY <1>1, LeaseAssumption
<1> QED
  BY <1>1, <1>2, LeaseAssumption DEF HostClock

\* A duration in whole seconds is a duration.
LEMMA WholeSecondsType ==
  ASSUME NEW d \in Int
  PROVE  WholeSeconds(d) \in Int
  BY LeaseAssumption DEF WholeSeconds

LEMMA LossDeadlineType ==
  ASSUME NEW a \in Answer
  PROVE  LossDeadline(a) \in Int
  BY LeaseAssumption DEF LossDeadline, Answer

(***************************************************************************)
(* Type correctness.                                                       *)
(***************************************************************************)

LEMMA InitType == Init => TypeOK
<1> SUFFICES ASSUME Init PROVE TypeOK
  OBVIOUS
<1>1. 0 \in 0 .. MaxTime /\ Never \in Int
  BY LeaseAssumption DEF Never
<1>2. NoRecord \in [holder : Run \cup {NoRun}, expiry : Int]
  BY DEF NoRecord
<1> QED
  BY <1>1, <1>2, NamesAssumption DEF Init, TypeOK, Phases

\* What a script does to the state fits its types.
LEMMA ReplyType ==
  ASSUME TypeOK, net' \subseteq net, answers' \subseteq Answer,
         UNCHANGED <<now, setVars, leaseVars, renewVars, unsettled>>,
         file' \in [File -> [holder : Run \cup {NoRun}, expiry : Int]]
  PROVE  TypeOK'
  BY DEF TypeOK, setVars, leaseVars, renewVars

\* Answers with and without a lease are well formed.
LEMMA AnswerType ==
  ASSUME NEW q \in Request
  PROVE  /\ Refusal(q) \in Answer
         /\ \A remaining \in Int : Granted(q, remaining) \in Answer
<1>1. Refusal(q) \in Answer
  BY SMT DEF Request, Answer, Refusal
<1>2. ASSUME NEW remaining \in Int PROVE Granted(q, remaining) \in Answer
  BY SMT DEF Request, Answer, Granted
<1> QED
  BY <1>1, <1>2

LEMMA WriteLockType ==
  ASSUME TypeOK, NEW q \in net, NEW expiry \in Int, WriteLock(q, expiry)
  PROVE  TypeOK'
<1>1. q \in Request
  BY DEF TypeOK
<1>2. Target[q.host] \in File /\ q.run \in Run
  BY <1>1, NamesAssumption DEF Request
<1>3. Granted(q, expiry - HostClock(Target[q.host])) \in Answer
  BY <1>1, <1>2, AnswerType, HostClockLag
<1>4. file' \in [File -> [holder : Run \cup {NoRun}, expiry : Int]]
  BY <1>2 DEF WriteLock, TypeOK
<1>5. answers' \subseteq Answer
  BY <1>3 DEF WriteLock, Reply, TypeOK
<1> QED
  BY <1>4, <1>5, ReplyType DEF WriteLock, Reply

LEMMA RefuseType ==
  ASSUME TypeOK, NEW q \in net, Refuse(q)
  PROVE  TypeOK'
<1>1. Refusal(q) \in Answer
  BY AnswerType DEF TypeOK
<1>2. answers' \subseteq Answer
  BY <1>1 DEF Refuse, Reply, TypeOK
<1> QED
  BY <1>2, ReplyType DEF Refuse, Reply, TypeOK

LEMMA ScriptType ==
  ASSUME TypeOK, NEW q \in net, RunScript(q)
  PROVE  TypeOK'
<1>1. q \in Request
  BY DEF TypeOK
<1>2. Target[q.host] \in File /\ q.lease \in Int
  BY <1>1, NamesAssumption DEF Request
<1>3. file[Target[q.host]].expiry \in Int
  BY <1>2 DEF TypeOK
<1>4. ASSUME Refuse(q) PROVE TypeOK'
  BY <1>4, RefuseType
<1>5. CASE ScriptAcquire(q)
  <2>1. HostClock(Target[q.host]) + q.lease \in Int
    BY <1>2, HostClockLag
  <2> QED
    BY <1>4, <1>5, <2>1, WriteLockType DEF ScriptAcquire
<1>6. CASE ScriptRenew(q)
  <2>1. Later(file[Target[q.host]].expiry, HostClock(Target[q.host]) + q.lease) \in Int
    BY <1>2, <1>3, HostClockLag DEF Later
  <2> QED
    BY <1>4, <1>6, <2>1, WriteLockType DEF ScriptRenew
<1>7. CASE ScriptRelease(q)
  <2>1. file' \in [File -> [holder : Run \cup {NoRun}, expiry : Int]]
    BY <1>7, <1>2 DEF ScriptRelease, TypeOK, NoRecord
  <2>2. Granted(q, 0) \in Answer
    BY <1>1, AnswerType
  <2>3. answers' \subseteq Answer
    BY <1>7, <2>2 DEF ScriptRelease, Reply, TypeOK
  <2> QED
    BY <1>7, <2>1, <2>3, ReplyType DEF ScriptRelease, Reply
<1> QED
  BY <1>5, <1>6, <1>7 DEF RunScript

LEMMA SendType ==
  ASSUME TypeOK, NEW r \in Run, NEW hosts \in SUBSET Host,
         NEW op \in {"acquire", "renew", "extend", "release"}, NEW lease \in Int,
         Send(r, hosts, op, lease)
  PROVE  net' \subseteq Request
<1>1. now \in Int /\ WholeSeconds(lease) \in Int
  BY WholeSecondsType DEF TypeOK
<1>2. \A h \in hosts : [run |-> r, host |-> h, op |-> op, asked |-> now,
                        lease |-> WholeSeconds(lease)] \in Request
  BY <1>1, SMT DEF Request
<1> QED
  BY <1>2 DEF Send, TypeOK

LEMMA ReadDeclarationsType ==
  ASSUME TypeOK, NEW r \in Run, ReadDeclarations(r)
  PROVE  deadline' \in [Run -> [Host -> Int]]
<1>1. \A h \in Host : Effective(r, h) \in Int
  BY DEF TypeOK, Effective, Later
<1> QED
  BY <1>1 DEF TypeOK, ReadDeclarations

LEMMA ForgetType ==
  ASSUME TypeOK, NEW r \in Run, Forget(r)
  PROVE  /\ deadline' \in [Run -> [Host -> Int]]
         /\ declared' \in [Run -> [Host -> Int]]
         /\ loop' \in [Run -> {"off", "on", "draining", "ended"}]
         /\ round' \in [Run -> SUBSET Host]
         /\ asked' \in [Run -> Int]
         /\ lost' \in [Run -> BOOLEAN]
<1>1. Never \in Int
  BY LeaseAssumption DEF Never
<1> QED
  BY <1>1 DEF TypeOK, Forget

LEMMA GiveBackType ==
  ASSUME TypeOK, NEW r \in Run, GiveBack(r), answers' \subseteq answers,
         UNCHANGED <<now, file, net>>, unsettled' \in [Run -> SUBSET Host]
  PROVE  TypeOK'
<1>1. await' \in [Run -> Host \cup {NoHost}]
  BY DEF GiveBack, TypeOK
<1>2. CASE phase[r] = "acquiring"
  <2>1. Forget(r) /\ UNCHANGED fresh
    BY <1>2 DEF GiveBack
  <2>2. /\ phase' \in [Run -> Phases]
        /\ todo' \in [Run -> SUBSET Host]
        /\ held' \in [Run -> SUBSET Host]
    BY <1>2 DEF GiveBack, TypeOK, Phases
  <2> QED
    BY <1>1, <2>1, <2>2, ForgetType DEF TypeOK
<1>3. CASE phase[r] = "adding"
  <2>1. ReadDeclarations(r) /\ UNCHANGED <<held, declared, renewVars>>
    BY <1>3 DEF GiveBack
  <2>2. /\ phase' \in [Run -> Phases]
        /\ todo' \in [Run -> SUBSET Host]
        /\ fresh' \in [Run -> SUBSET Host]
    BY <1>3 DEF GiveBack, TypeOK, Phases
  <2> QED
    BY <1>1, <2>1, <2>2, ReadDeclarationsType DEF TypeOK, renewVars
<1> QED
  BY <1>2, <1>3 DEF GiveBack

LEMMA AcquireStepType ==
  ASSUME TypeOK, NEW r \in Run, AcquireStep(r)
  PROVE  TypeOK'
<1> USE DEF setVars, leaseVars, renewVars
<1>1. ASSUME NEW hosts \in FirstHosts, Begin(r, hosts) PROVE TypeOK'
  BY <1>1, NamesAssumption DEF Begin, TypeOK, Phases
<1>2. ASSUME NEW hosts \in MoreHosts, BeginAdditional(r, hosts) PROVE TypeOK'
  <2>1. phase' \in [Run -> Phases] /\ todo' \in [Run -> SUBSET Host]
    BY <1>2, NamesAssumption DEF BeginAdditional, TypeOK, Phases
  <2> QED
    BY <1>2, <2>1, ReadDeclarationsType DEF BeginAdditional, TypeOK
<1>3. ASSUME NEW h \in Host, SendAcquire(r, h) PROVE TypeOK'
  <2>1. Send(r, {h}, "acquire", TTL) /\ TTL \in Int
    BY <1>3, LeaseAssumption DEF SendAcquire
  <2>2. net' \subseteq Request
    BY <2>1, SendType
  <2> QED
    BY <1>3, <2>2 DEF SendAcquire, TypeOK
<1>4. ASSUME NEW a \in answers, AcquireGranted(r, a) PROVE TypeOK'
  <2>1. a \in Answer /\ LossDeadline(a) \in Int /\ a.host \in Host
    BY LossDeadlineType DEF TypeOK, Answer
  <2>2. deadline' \in [Run -> [Host -> Int]]
    BY <1>4, <2>1 DEF AcquireGranted, TypeOK
  <2>3. held' \in [Run -> SUBSET Host] /\ fresh' \in [Run -> SUBSET Host]
    <3>1. CASE phase[r] = "acquiring"
      <4>1. held' = [held EXCEPT ![r] = @ \cup {a.host}] /\ fresh' = fresh
        BY <1>4, <3>1 DEF AcquireGranted
      <4> QED
        BY <2>1, <4>1 DEF TypeOK
    <3>2. CASE phase[r] # "acquiring"
      <4>1. fresh' = [fresh EXCEPT ![r] = @ \cup {a.host}] /\ held' = held
        BY <1>4, <3>2 DEF AcquireGranted
      <4> QED
        BY <2>1, <4>1 DEF TypeOK
    <3> QED
      BY <3>1, <3>2
  <2> QED
    BY <1>4, <2>2, <2>3 DEF AcquireGranted, TypeOK
<1>5. ASSUME NEW a \in answers, AcquireRefused(r, a) PROVE TypeOK'
  BY <1>5, GiveBackType DEF AcquireRefused, TypeOK
<1>6. CASE AcquireFailed(r)
  <2>1. unsettled' \in [Run -> SUBSET Host]
    BY <1>6 DEF AcquireFailed, TypeOK
  <2> QED
    BY <1>6, <2>1, GiveBackType DEF AcquireFailed
<1>7. CASE Adopt(r)
  <2>1. phase' \in [Run -> Phases] /\ deadline' \in [Run -> [Host -> Int]]
    BY <1>7, ReadDeclarationsType DEF Adopt, TypeOK, Phases
  <2>2. held' \in [Run -> SUBSET Host] /\ fresh' \in [Run -> SUBSET Host]
    BY <1>7 DEF Adopt, TypeOK
  <2> QED
    BY <1>7, <2>1, <2>2 DEF Adopt, TypeOK
<1>8. CASE AdoptFailed(r)
  BY <1>8, GiveBackType DEF AdoptFailed, TypeOK
<1> QED
  BY <1>1, <1>2, <1>3, <1>4, <1>5, <1>6, <1>7, <1>8 DEF AcquireStep

LEMMA ReleaseStepType ==
  ASSUME TypeOK, NEW r \in Run, ReleaseStep(r)
  PROVE  TypeOK'
<1> USE DEF setVars, leaseVars, renewVars
<1>1. CASE ReleaseAll(r)
  BY <1>1, ForgetType DEF ReleaseAll, TypeOK, Phases
<1>2. CASE Abandon(r)
  <2>1. /\ phase' \in [Run -> Phases]
        /\ held' \in [Run -> SUBSET Host]
        /\ unsettled' \in [Run -> SUBSET Host]
    BY <1>2 DEF Abandon, TypeOK, Phases
  <2> QED
    BY <1>2, <2>1, ForgetType DEF Abandon, TypeOK
<1>3. ASSUME NEW h \in Host, SendRelease(r, h) PROVE TypeOK'
  <2>1. Send(r, {h}, "release", TTL) /\ TTL \in Int
    BY <1>3, LeaseAssumption DEF SendRelease
  <2>2. net' \subseteq Request
    BY <2>1, SendType
  <2> QED
    BY <1>3, <2>2 DEF SendRelease, TypeOK
<1>4. ASSUME NEW a \in answers, ReleaseAnswered(r, a) PROVE TypeOK'
  BY <1>4 DEF ReleaseAnswered, TypeOK
<1>5. CASE ReleaseFailed(r)
  <2>1. unsettled' \in [Run -> SUBSET Host]
    BY <1>5 DEF ReleaseFailed, TypeOK
  <2> QED
    BY <1>5, <2>1 DEF ReleaseFailed, TypeOK
<1>6. CASE ReleaseDone(r)
  <2>1. phase' \in [Run -> Phases]
    BY <1>6 DEF ReleaseDone, TypeOK, Phases
  <2> QED
    BY <1>6, <2>1 DEF ReleaseDone, TypeOK
<1> QED
  BY <1>1, <1>2, <1>3, <1>4, <1>5, <1>6 DEF ReleaseStep

LEMMA ReportLossType ==
  ASSUME TypeOK, NEW r \in Run, ReportLoss(r)
  PROVE  /\ loop' \in [Run -> {"off", "on", "draining", "ended"}]
         /\ round' \in [Run -> SUBSET Host]
         /\ asked' \in [Run -> Int]
         /\ lost' \in [Run -> BOOLEAN]
         /\ answers' \subseteq Answer
  BY DEF ReportLoss, TypeOK

LEMMA RoundLostType ==
  ASSUME TypeOK, NEW r \in Run, NEW h \in Host, RoundLost(r, h)
  PROVE  /\ loop' \in [Run -> {"off", "on", "draining", "ended"}]
         /\ round' \in [Run -> SUBSET Host]
         /\ lost' \in [Run -> BOOLEAN]
<1>1. CASE StrictRenewal
  BY <1>1 DEF RoundLost, TypeOK
<1>2. CASE ~StrictRenewal
  BY <1>2 DEF RoundLost, TypeOK
<1> QED
  BY <1>1, <1>2

LEMMA RenewStepType ==
  ASSUME TypeOK, NEW r \in Run, RenewStep(r)
  PROVE  TypeOK'
<1> USE DEF setVars, leaseVars, renewVars
<1>1. CASE StartRenewal(r)
  BY <1>1 DEF StartRenewal, TypeOK
<1>2. CASE RenewRound(r)
  <2>1. Send(r, held[r], "renew", TTL) /\ TTL \in Int /\ held[r] \in SUBSET Host
    BY <1>2, LeaseAssumption DEF RenewRound, TypeOK
  <2>2. net' \subseteq Request
    BY <2>1, SendType
  <2> QED
    BY <1>2, <2>1, <2>2 DEF RenewRound, TypeOK
<1>3. ASSUME NEW a \in answers, RenewAnswered(r, a) PROVE TypeOK'
  <2>1. a \in Answer /\ LossDeadline(a) \in Int /\ a.host \in Host
    BY LossDeadlineType DEF TypeOK, Answer
  <2>2. CASE a.ok
    <3>1. /\ deadline' = [deadline EXCEPT ![r][a.host] = Later(@, LossDeadline(a))]
          /\ round' = [round EXCEPT ![r] = @ \ {a.host}]
          /\ UNCHANGED <<loop, lost>>
      BY <1>3, <2>2 DEF RenewAnswered
    <3>2. \A d \in Int : Later(d, LossDeadline(a)) \in Int
      BY <2>1 DEF Later
    <3>3. deadline' \in [Run -> [Host -> Int]] /\ round' \in [Run -> SUBSET Host]
      BY <2>1, <3>1, <3>2 DEF TypeOK
    <3> QED
      BY <1>3, <3>1, <3>3 DEF RenewAnswered, TypeOK
  <2>3. CASE ~a.ok
    BY <1>3, <2>1, <2>3, RoundLostType DEF RenewAnswered, TypeOK
  <2> QED
    BY <2>2, <2>3
<1>4. ASSUME NEW h \in Host, RenewFailed(r, h) PROVE TypeOK'
  <2>1. /\ loop' \in [Run -> {"off", "on", "draining", "ended"}]
        /\ round' \in [Run -> SUBSET Host]
        /\ lost' \in [Run -> BOOLEAN]
    <3>1. CASE StrictRenewal \/ now >= Effective(r, h)
      BY <1>4, <3>1, RoundLostType DEF RenewFailed
    <3>2. CASE ~(StrictRenewal \/ now >= Effective(r, h))
      <4>1. round' = [round EXCEPT ![r] = @ \ {h}] /\ UNCHANGED <<loop, lost>>
        BY <1>4, <3>2 DEF RenewFailed
      <4> QED
        BY <4>1 DEF TypeOK
    <3> QED
      BY <3>1, <3>2
  <2> QED
    BY <1>4, <2>1, ReadDeclarationsType DEF RenewFailed, TypeOK
<1>5. CASE RoundDrained(r)
  BY <1>5, ReportLossType DEF RoundDrained, TypeOK
<1>6. CASE WatchDeadlines(r)
  <2>1. CASE Overdue(r)
    BY <1>6, <2>1, ReportLossType, ReadDeclarationsType DEF WatchDeadlines, TypeOK
  <2>2. CASE ~Overdue(r)
    BY <1>6, <2>2, ReadDeclarationsType DEF WatchDeadlines, TypeOK
  <2> QED
    BY <2>1, <2>2
<1>7. CASE StopRenewal(r)
  <2>1. lost' \in [Run -> BOOLEAN]
    BY <1>7 DEF StopRenewal, TypeOK
  <2> QED
    BY <1>7, <2>1 DEF StopRenewal, TypeOK
<1> QED
  BY <1>1, <1>2, <1>3, <1>4, <1>5, <1>6, <1>7 DEF RenewStep

LEMMA ExtendStepType ==
  ASSUME TypeOK, NEW r \in Run, ExtendStep(r)
  PROVE  TypeOK'
<1> USE DEF setVars, leaseVars, renewVars
<1>1. ASSUME NEW h \in Host, NEW lease \in Declared, SendExtend(r, h, lease) PROVE TypeOK'
  <2>1. net' \subseteq Request
    BY <1>1, LeaseAssumption, SendType DEF SendExtend
  <2> QED
    BY <1>1, <2>1 DEF SendExtend, TypeOK
<1>2. ASSUME NEW a \in answers, ExtendAnswered(r, a) PROVE TypeOK'
  <2>1. a \in Answer /\ LossDeadline(a) \in Int
    BY LossDeadlineType DEF TypeOK
  <2>2. declared' \in [Run -> [Host -> Int]]
    BY <1>2, <2>1 DEF ExtendAnswered, TypeOK
  <2> QED
    BY <1>2, <2>2 DEF ExtendAnswered, TypeOK
<1> QED
  BY <1>1, <1>2 DEF ExtendStep

LEMMA CrashType ==
  ASSUME TypeOK, NEW r \in Run, Crash(r)
  PROVE  TypeOK'
<1>1. phase' \in [Run -> Phases] /\ await' \in [Run -> Host \cup {NoHost}]
  BY DEF Crash, TypeOK, Phases
<1>2. /\ todo' \in [Run -> SUBSET Host]
      /\ held' \in [Run -> SUBSET Host]
      /\ fresh' \in [Run -> SUBSET Host]
      /\ unsettled' \in [Run -> SUBSET Host]
  BY DEF Crash, TypeOK
<1> QED
  BY <1>1, <1>2, ForgetType DEF Crash, TypeOK

LEMMA NextType == TypeOK /\ [Next]_vars => TypeOK'
<1> SUFFICES ASSUME TypeOK, [Next]_vars PROVE TypeOK'
  OBVIOUS
<1> USE DEF setVars, leaseVars, renewVars
<1>1. ASSUME NEW r \in Run, RunStep(r) PROVE TypeOK'
  BY <1>1, AcquireStepType, ReleaseStepType, RenewStepType, ExtendStepType, CrashType
     DEF RunStep
<1>2. ASSUME NEW q \in net, RunScript(q) PROVE TypeOK'
  BY <1>2, ScriptType
<1>3. ASSUME NEW q \in net, Drop(q) PROVE TypeOK'
  BY <1>3 DEF Drop, TypeOK
<1>4. ASSUME NEW f \in File, OperatorUnlock(f) PROVE TypeOK'
  <2>1. file' \in [File -> [holder : Run \cup {NoRun}, expiry : Int]]
    BY <1>4 DEF OperatorUnlock, TypeOK, NoRecord
  <2> QED
    BY <1>4, <2>1 DEF OperatorUnlock, TypeOK
<1>5. CASE Tick
  BY <1>5, LeaseAssumption DEF Tick, TypeOK
<1>6. CASE UNCHANGED vars
  BY <1>6 DEF vars, TypeOK
<1> QED
  BY <1>1, <1>2, <1>3, <1>4, <1>5, <1>6 DEF Next

\* In every behaviour the state keeps its types: requests and answers are well
\* formed, every lock file is absent or names a run, and a Set only names known
\* hosts.
THEOREM TypeCorrect == Spec => []TypeOK
  BY InitType, NextType, PTL DEF Spec

(***************************************************************************)
(* The inductive invariant.                                                *)
(***************************************************************************)

\* What IInv adds to the types.
Fits == SetsFit /\ RequestsFit /\ AnswersFit /\ DeadlinesBacked

LEMMA BeginFits ==
  ASSUME IInv, NEW r \in Run, NEW hosts \in FirstHosts, Begin(r, hosts)
  PROVE  Fits'
<1> USE DEF IInv, Begin, leaseVars, renewVars
<1>1. SetsFit'
  BY NamesAssumption DEF TypeOK, SetsFit, Acquired
<1>2. RequestsFit'
  BY DEF TypeOK, SetsFit, RequestsFit, Request
<1>3. AnswersFit'
  BY DEF TypeOK, SetsFit, AnswersFit, Answer, Acquired, Backed, LossDeadline
<1>4. DeadlinesBacked'
  BY DEF TypeOK, DeadlinesBacked, Backed, Never
<1> QED
  BY <1>1, <1>2, <1>3, <1>4 DEF Fits

LEMMA BeginAdditionalFits ==
  ASSUME IInv, NEW r \in Run, NEW hosts \in MoreHosts, BeginAdditional(r, hosts)
  PROVE  Fits'
<1> USE DEF IInv, BeginAdditional, ReadDeclarations, setVars, leaseVars, renewVars
<1>1. SetsFit'
  BY NamesAssumption DEF TypeOK, SetsFit, Acquired, Answer
<1>2. RequestsFit'
  BY DEF TypeOK, SetsFit, RequestsFit, Request, Acquired
<1>3. AnswersFit'
  BY DEF TypeOK, SetsFit, AnswersFit, Answer, Acquired, Backed, LossDeadline
<1>4. DeadlinesBacked'
  BY DEF TypeOK, SetsFit, DeadlinesBacked, Backed, Effective, Later
<1> QED
  BY <1>1, <1>2, <1>3, <1>4 DEF Fits

LEMMA SendAcquireFits ==
  ASSUME IInv, NEW r \in Run, NEW h \in Host, SendAcquire(r, h)
  PROVE  Fits'
<1> USE DEF IInv, SendAcquire, leaseVars, renewVars
<1>1. /\ \A a \in answers : a.run = r => a.op # "acquire"
      /\ \A q \in net : q.run = r => q.op # "acquire"
  BY NamesAssumption DEF TypeOK, AnswersFit, Answer, RequestsFit, Request
<1> DEFINE q == [run |-> r, host |-> h, op |-> "acquire", asked |-> now,
                 lease |-> WholeSeconds(TTL)]
<1>2. net' = net \cup {q}
  BY DEF Send
<1>3. SetsFit'
  BY NamesAssumption DEF TypeOK, SetsFit, Acquired
<1>4. RequestsFit'
  BY <1>1, <1>2 DEF TypeOK, SetsFit, RequestsFit, Request, Acquired
<1>5. AnswersFit'
  BY <1>1 DEF TypeOK, SetsFit, AnswersFit, Answer, Acquired, Backed, LossDeadline
<1>6. DeadlinesBacked'
  BY DEF DeadlinesBacked, Backed
<1> QED
  BY <1>3, <1>4, <1>5, <1>6 DEF Fits

LEMMA AcquireGrantedFits ==
  ASSUME IInv, NEW r \in Run, NEW a \in answers, AcquireGranted(r, a)
  PROVE  Fits'
<1> USE DEF IInv, AcquireGranted, Answered, setVars, leaseVars, renewVars
<1>1. SetsFit'
  BY NamesAssumption DEF TypeOK, SetsFit, Acquired, Answer
<1>2. RequestsFit'
  BY DEF TypeOK, SetsFit, RequestsFit, Request, Acquired
<1>3. AnswersFit'
  BY DEF TypeOK, SetsFit, AnswersFit, Answer, Acquired, Backed, LossDeadline
<1>4. DeadlinesBacked'
  <2>1. /\ a.host \in Host /\ a.host \notin held[r]
        /\ Backed(r, a.host, LossDeadline(a))
    BY DEF TypeOK, SetsFit, AnswersFit, Answer, Acquired
  <2>2. Backed(r, a.host, Never)
    BY LeaseAssumption DEF Backed, Never, TypeOK
  <2>3. deadline'[r][a.host] = LossDeadline(a)
    BY <2>1 DEF TypeOK
  <2>4. \A s \in Run, h \in Host : s # r \/ h # a.host =>
          /\ deadline'[s][h] = deadline[s][h]
          /\ h \in held'[s] <=> h \in held[s]
          /\ h \in fresh'[s] <=> h \in fresh[s]
    BY DEF TypeOK
  <2> QED
    BY <2>1, <2>2, <2>3, <2>4 DEF DeadlinesBacked, Backed
<1> QED
  BY <1>1, <1>2, <1>3, <1>4 DEF Fits

\* Reading the declarations moves every deadline to a backed one.
LEMMA ReadBacked ==
  ASSUME TypeOK, DeadlinesBacked, NEW r \in Run, ReadDeclarations(r)
  PROVE  /\ deadline' \in [Run -> [Host -> Int]]
         /\ \A s \in Run : s # r => deadline'[s] = deadline[s]
         /\ \A h \in held[r] : Backed(r, h, deadline'[r][h])
         /\ \A h \in Host \ held[r] : deadline'[r][h] = deadline[r][h]
<1>1. deadline' \in [Run -> [Host -> Int]]
  BY ReadDeclarationsType
<1>2. ASSUME NEW h \in held[r] PROVE Backed(r, h, deadline'[r][h])
  <2>1. h \in Host /\ Backed(r, h, deadline[r][h]) /\ Backed(r, h, declared[r][h])
    BY DEF TypeOK, DeadlinesBacked
  <2>2. deadline'[r][h] = Effective(r, h)
    BY <2>1 DEF ReadDeclarations, TypeOK
  <2>3. Effective(r, h) \in {deadline[r][h], declared[r][h]}
    BY DEF Effective, Later
  <2> QED
    BY <2>1, <2>2, <2>3
<1>3. \A h \in Host \ held[r] : deadline'[r][h] = deadline[r][h]
  BY DEF ReadDeclarations, TypeOK
<1>4. \A s \in Run : s # r => deadline'[s] = deadline[s]
  BY DEF ReadDeclarations, TypeOK
<1> QED
  BY <1>1, <1>2, <1>3, <1>4

LEMMA GiveBackFits ==
  ASSUME IInv, NEW r \in Run, GiveBack(r), UNCHANGED <<now, file, net>>,
         answers' \subseteq answers,
         \A a \in answers' : a.run = r => a.op # "acquire"
  PROVE  Fits'
<1> USE DEF IInv, leaseVars, renewVars
<1>1. SetsFit'
  BY NamesAssumption DEF GiveBack, Forget, TypeOK, SetsFit, Acquired
<1>2. RequestsFit'
  BY DEF GiveBack, TypeOK, SetsFit, RequestsFit, Request, Acquired
<1>3. AnswersFit'
  BY DEF GiveBack, TypeOK, SetsFit, AnswersFit, Answer, Acquired, Backed, LossDeadline
<1>4. DeadlinesBacked'
  <2>1. CASE phase[r] = "acquiring"
    <3>1. held'[r] = {} /\ fresh'[r] = {} /\ \A h \in Host : declared'[r][h] = Never
      <4>1. Forget(r) /\ held' = [held EXCEPT ![r] = {}] /\ fresh' = fresh
        BY <2>1 DEF GiveBack
      <4>2. fresh[r] = {}
        BY <2>1 DEF SetsFit
      <4> QED
        BY <4>1, <4>2 DEF Forget, TypeOK
    <3>2. \A s \in Run : s # r => /\ held'[s] = held[s] /\ fresh'[s] = fresh[s]
                                 /\ declared'[s] = declared[s]
                                 /\ deadline'[s] = deadline[s]
      BY <2>1 DEF GiveBack, Forget, TypeOK
    <3> QED
      BY <3>1, <3>2 DEF DeadlinesBacked, Backed, Never
  <2>2. CASE phase[r] = "adding"
    <3>1. ReadDeclarations(r) /\ held' = held /\ declared' = declared /\ fresh'[r] = {}
      BY <2>2 DEF GiveBack, TypeOK
    <3>2. \A s \in Run : s # r => fresh'[s] = fresh[s]
      BY <2>2 DEF GiveBack, TypeOK
    <3> QED
      BY <3>1, <3>2, ReadBacked DEF DeadlinesBacked, Backed, Never
  <2> QED
    BY <2>1, <2>2 DEF GiveBack
<1> QED
  BY <1>1, <1>2, <1>3, <1>4 DEF Fits

LEMMA AcquireRefusedFits ==
  ASSUME IInv, NEW r \in Run, NEW a \in answers, AcquireRefused(r, a)
  PROVE  Fits'
<1>1. \A b \in answers' : b.run = r => b.op # "acquire"
  BY DEF IInv, AcquireRefused, Answered, AnswersFit
<1> QED
  BY <1>1, GiveBackFits DEF AcquireRefused

LEMMA AcquireFailedFits ==
  ASSUME IInv, NEW r \in Run, AcquireFailed(r)
  PROVE  Fits'
  BY GiveBackFits DEF AcquireFailed

LEMMA AdoptFits ==
  ASSUME IInv, NEW r \in Run, Adopt(r)
  PROVE  Fits'
<1> USE DEF IInv, renewVars
<1>1. /\ \A a \in answers : a.run = r => a.op # "acquire"
      /\ \A q \in net : q.run = r => q.op # "acquire"
  BY NamesAssumption DEF Adopt, TypeOK, AnswersFit, Answer, RequestsFit, Request
<1>2. SetsFit'
  BY DEF Adopt, TypeOK, SetsFit, Acquired
<1>3. RequestsFit'
  BY <1>1 DEF Adopt, TypeOK, RequestsFit, Request, Acquired
<1>4. AnswersFit'
  BY <1>1 DEF Adopt, TypeOK, AnswersFit, Answer, Acquired, Backed, LossDeadline
<1>5. DeadlinesBacked'
  <2>1. ReadDeclarations(r) /\ UNCHANGED <<now, file, declared>>
    BY DEF Adopt
  <2>2. held'[r] = held[r] \cup fresh[r] /\ fresh'[r] = {}
    BY DEF Adopt, TypeOK
  <2>3. \A s \in Run : s # r => held'[s] = held[s] /\ fresh'[s] = fresh[s]
    BY DEF Adopt, TypeOK
  <2>4. held[r] \subseteq Host /\ fresh[r] \subseteq Host /\ fresh[r] \cap held[r] = {}
    BY DEF TypeOK, SetsFit
  <2>5. \A h \in held'[r] : Backed(r, h, deadline'[r][h])
    BY <2>1, <2>2, <2>4, ReadBacked DEF DeadlinesBacked
  <2>6. \A h \in held'[r] : Backed(r, h, declared[r][h])
    BY <2>2, <2>4, LeaseAssumption DEF DeadlinesBacked, Backed, Never, TypeOK
  <2> QED
    BY <2>1, <2>2, <2>3, <2>4, <2>5, <2>6, ReadBacked DEF DeadlinesBacked, Backed
<1> QED
  BY <1>2, <1>3, <1>4, <1>5 DEF Fits

LEMMA AdoptFailedFits ==
  ASSUME IInv, NEW r \in Run, AdoptFailed(r)
  PROVE  Fits'
<1>1. \A a \in answers' : a.run = r => a.op # "acquire"
  BY NamesAssumption DEF IInv, TypeOK, AdoptFailed, AnswersFit, Answer
<1> QED
  BY <1>1, GiveBackFits DEF AdoptFailed

LEMMA ReleaseAllFits ==
  ASSUME IInv, NEW r \in Run, ReleaseAll(r)
  PROVE  Fits'
<1> USE DEF IInv, ReleaseAll, Forget, setVars, leaseVars, renewVars
<1>1. SetsFit'
  BY NamesAssumption DEF TypeOK, SetsFit, Acquired, Answer
<1>2. RequestsFit'
  BY DEF TypeOK, SetsFit, RequestsFit, Request, Acquired
<1>3. AnswersFit'
  BY DEF TypeOK, SetsFit, AnswersFit, Answer, Acquired, Backed, LossDeadline
<1>4. DeadlinesBacked'
  BY DEF TypeOK, SetsFit, DeadlinesBacked, Backed, Effective, Later
<1> QED
  BY <1>1, <1>2, <1>3, <1>4 DEF Fits

LEMMA AbandonFits ==
  ASSUME IInv, NEW r \in Run, Abandon(r)
  PROVE  Fits'
<1> USE DEF IInv, Abandon, Forget, setVars, leaseVars, renewVars
<1>1. SetsFit'
  BY NamesAssumption DEF TypeOK, SetsFit, Acquired, Answer
<1>2. RequestsFit'
  BY DEF TypeOK, SetsFit, RequestsFit, Request, Acquired
<1>3. AnswersFit'
  BY DEF TypeOK, SetsFit, AnswersFit, Answer, Acquired, Backed, LossDeadline
<1>4. DeadlinesBacked'
  BY DEF TypeOK, SetsFit, DeadlinesBacked, Backed, Effective, Later
<1> QED
  BY <1>1, <1>2, <1>3, <1>4 DEF Fits

LEMMA SendReleaseFits ==
  ASSUME IInv, NEW r \in Run, NEW h \in Host, SendRelease(r, h)
  PROVE  Fits'
<1> USE DEF IInv, SendRelease, Send, setVars, leaseVars, renewVars
<1>1. SetsFit'
  BY NamesAssumption DEF TypeOK, SetsFit, Acquired, Answer
<1>2. RequestsFit'
  BY DEF TypeOK, SetsFit, RequestsFit, Request, Acquired
<1>3. AnswersFit'
  BY DEF TypeOK, SetsFit, AnswersFit, Answer, Acquired, Backed, LossDeadline
<1>4. DeadlinesBacked'
  BY DEF TypeOK, SetsFit, DeadlinesBacked, Backed, Effective, Later
<1> QED
  BY <1>1, <1>2, <1>3, <1>4 DEF Fits

LEMMA ReleaseAnsweredFits ==
  ASSUME IInv, NEW r \in Run, NEW a \in answers, ReleaseAnswered(r, a)
  PROVE  Fits'
<1> USE DEF IInv, ReleaseAnswered, Answered, setVars, leaseVars, renewVars
<1>1. SetsFit'
  BY NamesAssumption DEF TypeOK, SetsFit, Acquired, Answer
<1>2. RequestsFit'
  BY DEF TypeOK, SetsFit, RequestsFit, Request, Acquired, AnswersFit, Answer
<1>3. AnswersFit'
  BY DEF TypeOK, SetsFit, AnswersFit, Answer, Acquired, Backed, LossDeadline
<1>4. DeadlinesBacked'
  BY DEF TypeOK, SetsFit, DeadlinesBacked, Backed, Effective, Later
<1> QED
  BY <1>1, <1>2, <1>3, <1>4 DEF Fits

LEMMA ReleaseFailedFits ==
  ASSUME IInv, NEW r \in Run, ReleaseFailed(r)
  PROVE  Fits'
<1> USE DEF IInv, ReleaseFailed, setVars, leaseVars, renewVars
<1>1. SetsFit'
  BY NamesAssumption DEF TypeOK, SetsFit, Acquired, Answer
<1>2. RequestsFit'
  BY DEF TypeOK, SetsFit, RequestsFit, Request, Acquired
<1>3. AnswersFit'
  BY DEF TypeOK, SetsFit, AnswersFit, Answer, Acquired, Backed, LossDeadline
<1>4. DeadlinesBacked'
  BY DEF TypeOK, SetsFit, DeadlinesBacked, Backed, Effective, Later
<1> QED
  BY <1>1, <1>2, <1>3, <1>4 DEF Fits

LEMMA ReleaseDoneFits ==
  ASSUME IInv, NEW r \in Run, ReleaseDone(r)
  PROVE  Fits'
<1> USE DEF IInv, ReleaseDone, setVars, leaseVars, renewVars
<1>1. SetsFit'
  BY NamesAssumption DEF TypeOK, SetsFit, Acquired, Answer
<1>2. RequestsFit'
  BY DEF TypeOK, SetsFit, RequestsFit, Request, Acquired
<1>3. AnswersFit'
  BY DEF TypeOK, SetsFit, AnswersFit, Answer, Acquired, Backed, LossDeadline
<1>4. DeadlinesBacked'
  BY DEF TypeOK, SetsFit, DeadlinesBacked, Backed, Effective, Later
<1> QED
  BY <1>1, <1>2, <1>3, <1>4 DEF Fits

LEMMA StartRenewalFits ==
  ASSUME IInv, NEW r \in Run, StartRenewal(r)
  PROVE  Fits'
<1> USE DEF IInv, StartRenewal, setVars, leaseVars, renewVars
<1>1. SetsFit'
  BY NamesAssumption DEF TypeOK, SetsFit, Acquired, Answer
<1>2. RequestsFit'
  BY DEF TypeOK, SetsFit, RequestsFit, Request, Acquired
<1>3. AnswersFit'
  BY DEF TypeOK, SetsFit, AnswersFit, Answer, Acquired, Backed, LossDeadline
<1>4. DeadlinesBacked'
  BY DEF TypeOK, SetsFit, DeadlinesBacked, Backed, Effective, Later
<1> QED
  BY <1>1, <1>2, <1>3, <1>4 DEF Fits

LEMMA RenewRoundFits ==
  ASSUME IInv, NEW r \in Run, RenewRound(r)
  PROVE  Fits'
<1> USE DEF IInv, RenewRound, Send, setVars, leaseVars, renewVars
<1>1. SetsFit'
  BY NamesAssumption DEF TypeOK, SetsFit, Acquired, Answer
<1>2. RequestsFit'
  BY DEF TypeOK, SetsFit, RequestsFit, Request, Acquired
<1>3. AnswersFit'
  BY DEF TypeOK, SetsFit, AnswersFit, Answer, Acquired, Backed, LossDeadline
<1>4. DeadlinesBacked'
  BY DEF TypeOK, SetsFit, DeadlinesBacked, Backed, Effective, Later
<1> QED
  BY <1>1, <1>2, <1>3, <1>4 DEF Fits

LEMMA RenewAnsweredFits ==
  ASSUME IInv, NEW r \in Run, NEW a \in answers, RenewAnswered(r, a)
  PROVE  Fits'
<1> USE DEF IInv, RenewAnswered, RoundLost, setVars, leaseVars, renewVars
<1>1. SetsFit'
  BY NamesAssumption DEF TypeOK, SetsFit, Acquired, Answer
<1>2. RequestsFit'
  BY DEF TypeOK, SetsFit, RequestsFit, Request, Acquired
<1>3. AnswersFit'
  BY DEF TypeOK, SetsFit, AnswersFit, Answer, Acquired, Backed, LossDeadline
<1>4. DeadlinesBacked'
  <2>1. CASE a.ok
    <3>1. a.host \in Host /\ LossDeadline(a) \in Int
      BY LossDeadlineType DEF TypeOK, Answer
    <3>2. a.host \in held[r] \cup fresh[r] => Backed(r, a.host, LossDeadline(a))
      BY <2>1 DEF SetsFit, AnswersFit, Acquired
    <3>3. deadline'[r][a.host] \in {deadline[r][a.host], LossDeadline(a)}
      BY <2>1, <3>1 DEF TypeOK, Later
    <3>4. \A s \in Run, h \in Host : s # r \/ h # a.host => deadline'[s][h] = deadline[s][h]
      BY <2>1, <3>1 DEF TypeOK
    <3> QED
      BY <3>1, <3>2, <3>3, <3>4 DEF DeadlinesBacked, Backed
  <2>2. CASE ~a.ok
    BY <2>2 DEF TypeOK, DeadlinesBacked, Backed
  <2> QED
    BY <2>1, <2>2
<1> QED
  BY <1>1, <1>2, <1>3, <1>4 DEF Fits

LEMMA RenewFailedFits ==
  ASSUME IInv, NEW r \in Run, NEW h \in Host, RenewFailed(r, h)
  PROVE  Fits'
<1> USE DEF IInv, RenewFailed, ReadDeclarations, RoundLost, setVars, leaseVars, renewVars
<1>1. SetsFit'
  BY NamesAssumption DEF TypeOK, SetsFit, Acquired, Answer
<1>2. RequestsFit'
  BY DEF TypeOK, SetsFit, RequestsFit, Request, Acquired
<1>3. AnswersFit'
  BY DEF TypeOK, SetsFit, AnswersFit, Answer, Acquired, Backed, LossDeadline
<1>4. DeadlinesBacked'
  BY DEF TypeOK, SetsFit, DeadlinesBacked, Backed, Effective, Later
<1> QED
  BY <1>1, <1>2, <1>3, <1>4 DEF Fits

LEMMA RoundDrainedFits ==
  ASSUME IInv, NEW r \in Run, RoundDrained(r)
  PROVE  Fits'
<1> USE DEF IInv, RoundDrained, ReportLoss, setVars, leaseVars, renewVars
<1>1. SetsFit'
  BY NamesAssumption DEF TypeOK, SetsFit, Acquired, Answer
<1>2. RequestsFit'
  BY DEF TypeOK, SetsFit, RequestsFit, Request, Acquired
<1>3. AnswersFit'
  BY DEF TypeOK, SetsFit, AnswersFit, Answer, Acquired, Backed, LossDeadline
<1>4. DeadlinesBacked'
  BY DEF TypeOK, SetsFit, DeadlinesBacked, Backed, Effective, Later
<1> QED
  BY <1>1, <1>2, <1>3, <1>4 DEF Fits

LEMMA WatchDeadlinesFits ==
  ASSUME IInv, NEW r \in Run, WatchDeadlines(r)
  PROVE  Fits'
<1> USE DEF IInv, WatchDeadlines, ReportLoss, ReadDeclarations, setVars, leaseVars, renewVars
<1>1. SetsFit'
  BY NamesAssumption DEF TypeOK, SetsFit, Acquired, Answer
<1>2. RequestsFit'
  BY DEF TypeOK, SetsFit, RequestsFit, Request, Acquired
<1>3. AnswersFit'
  BY DEF TypeOK, SetsFit, AnswersFit, Answer, Acquired, Backed, LossDeadline
<1>4. DeadlinesBacked'
  BY DEF TypeOK, SetsFit, DeadlinesBacked, Backed, Effective, Later
<1> QED
  BY <1>1, <1>2, <1>3, <1>4 DEF Fits

LEMMA StopRenewalFits ==
  ASSUME IInv, NEW r \in Run, StopRenewal(r)
  PROVE  Fits'
<1> USE DEF IInv, StopRenewal, setVars, leaseVars, renewVars
<1>1. SetsFit'
  BY NamesAssumption DEF TypeOK, SetsFit, Acquired, Answer
<1>2. RequestsFit'
  BY DEF TypeOK, SetsFit, RequestsFit, Request, Acquired
<1>3. AnswersFit'
  BY DEF TypeOK, SetsFit, AnswersFit, Answer, Acquired, Backed, LossDeadline
<1>4. DeadlinesBacked'
  BY DEF TypeOK, SetsFit, DeadlinesBacked, Backed, Effective, Later
<1> QED
  BY <1>1, <1>2, <1>3, <1>4 DEF Fits

LEMMA SendExtendFits ==
  ASSUME IInv, NEW r \in Run, NEW h \in Host, NEW lease \in Declared, SendExtend(r, h, lease)
  PROVE  Fits'
<1> USE DEF IInv, SendExtend, Send, setVars, leaseVars, renewVars
<1>1. SetsFit'
  BY NamesAssumption DEF TypeOK, SetsFit, Acquired, Answer
<1>2. RequestsFit'
  BY DEF TypeOK, SetsFit, RequestsFit, Request, Acquired
<1>3. AnswersFit'
  BY DEF TypeOK, SetsFit, AnswersFit, Answer, Acquired, Backed, LossDeadline
<1>4. DeadlinesBacked'
  BY DEF TypeOK, SetsFit, DeadlinesBacked, Backed, Effective, Later
<1> QED
  BY <1>1, <1>2, <1>3, <1>4 DEF Fits

LEMMA ExtendAnsweredFits ==
  ASSUME IInv, NEW r \in Run, NEW a \in answers, ExtendAnswered(r, a)
  PROVE  Fits'
<1> USE DEF IInv, ExtendAnswered, setVars, leaseVars, renewVars
<1>1. SetsFit'
  BY NamesAssumption DEF TypeOK, SetsFit, Acquired, Answer
<1>2. RequestsFit'
  BY DEF TypeOK, SetsFit, RequestsFit, Request, Acquired
<1>3. AnswersFit'
  BY DEF TypeOK, SetsFit, AnswersFit, Answer, Acquired, Backed, LossDeadline
<1>4. DeadlinesBacked'
  <2>1. CASE a.ok /\ a.host \in held[r]
    <3>1. a.host \in Host /\ Backed(r, a.host, LossDeadline(a))
      BY <2>1 DEF TypeOK, SetsFit, AnswersFit, Answer, Acquired
    <3>2. declared'[r][a.host] = LossDeadline(a)
      BY <2>1, <3>1 DEF TypeOK
    <3>3. \A s \in Run, h \in Host : s # r \/ h # a.host => declared'[s][h] = declared[s][h]
      BY <2>1, <3>1 DEF TypeOK
    <3> QED
      BY <2>1, <3>1, <3>2, <3>3 DEF DeadlinesBacked, Backed
  <2>2. CASE ~(a.ok /\ a.host \in held[r])
    BY <2>2 DEF TypeOK, DeadlinesBacked, Backed
  <2> QED
    BY <2>1, <2>2
<1> QED
  BY <1>1, <1>2, <1>3, <1>4 DEF Fits

LEMMA CrashFits ==
  ASSUME IInv, NEW r \in Run, Crash(r)
  PROVE  Fits'
<1> USE DEF IInv, Crash, Forget, setVars, leaseVars, renewVars
<1>1. SetsFit'
  BY NamesAssumption DEF TypeOK, SetsFit, Acquired, Answer
<1>2. RequestsFit'
  BY DEF TypeOK, SetsFit, RequestsFit, Request, Acquired
<1>3. AnswersFit'
  BY DEF TypeOK, SetsFit, AnswersFit, Answer, Acquired, Backed, LossDeadline
<1>4. DeadlinesBacked'
  BY DEF TypeOK, SetsFit, DeadlinesBacked, Backed, Effective, Later
<1> QED
  BY <1>1, <1>2, <1>3, <1>4 DEF Fits

\* No two host names stand for one lock file.  AcquireAll and AcquireAdditional
\* compare hosts by name only.
OneNamePerFile == \A h, k \in Host : Target[h] = Target[k] => h = k

\* A script takes the backing only from the host of its own acquire or release.
LEMMA ScriptKeepsBacked ==
  ASSUME OneNamePerFile, TypeOK, NEW q \in net, RunScript(q),
         NEW r \in Run, NEW h \in Host, NEW d \in Int, Backed(r, h, d),
         q.op \in {"acquire", "release"} => r # q.run \/ h # q.host
  PROVE  \/ file'[Target[h]].holder = r /\ d + RenewInterval < file'[Target[h]].expiry
         \/ d + RenewInterval < now
<1> DEFINE f == Target[q.host]
<1>1. q \in Request /\ q.host \in Host /\ q.run \in Run /\ f \in File /\ Target[h] \in File
  BY NamesAssumption DEF TypeOK, Request
<1>2. now \in Int /\ file[f].expiry \in Int /\ file[Target[h]].expiry \in Int
  BY <1>1 DEF TypeOK
<1>3. HostClock(f) \in Int /\ HostClock(f) <= now
  BY <1>1, HostClockLag
<1>4. CASE file'[Target[h]] = file[Target[h]]
  BY <1>4 DEF Backed
<1>5. CASE file'[Target[h]] # file[Target[h]]
  <2>1. Target[h] = f
    BY <1>1, <1>5 DEF TypeOK, RunScript, ScriptAcquire, ScriptRenew, ScriptRelease, WriteLock,
       Refuse
  <2>2. h = q.host
    BY <1>1, <2>1 DEF OneNamePerFile
  <2>3. CASE ScriptAcquire(q)
    <3>1. file[f].expiry <= now \/ file[f].holder \in {NoRun, q.run}
      BY <1>2, <1>3, <1>5, <2>1, <2>3 DEF ScriptAcquire, Refuse
    <3> QED
      BY <1>2, <2>1, <2>2, <2>3, <3>1, NamesAssumption, LeaseAssumption DEF Backed, ScriptAcquire
  <2>4. CASE ScriptRenew(q)
    <3>1. PICK e \in Int : /\ file'[f] = [holder |-> q.run, expiry |-> e]
                           /\ e >= file[f].expiry
                           /\ file[f].holder = q.run
      <4> DEFINE e == Later(file[f].expiry, HostClock(f) + q.lease)
      <4>1. e \in Int /\ e >= file[f].expiry
        BY <1>1, <1>2, <1>3 DEF Later, Request
      <4>2. file[f].holder = q.run /\ WriteLock(q, e)
        BY <1>5, <2>1, <2>4 DEF ScriptRenew, Refuse
      <4> QED
        BY <1>1, <4>1, <4>2 DEF WriteLock, TypeOK
    <3> QED
      BY <1>2, <2>1, <3>1, LeaseAssumption DEF Backed
  <2>5. CASE ScriptRelease(q)
    BY <1>2, <1>5, <2>1, <2>2, <2>5 DEF Backed, ScriptRelease
  <2> QED
    BY <2>3, <2>4, <2>5 DEF RunScript
<1> QED
  BY <1>4, <1>5

\* The lease a script grants is backed: the request was sent before the script
\* ran, and the clock of the host is late by less than one of its seconds.
LEMMA GrantBacked ==
  ASSUME TypeOK, NEW q \in net, q.asked <= now, NEW e \in Int, WriteLock(q, e)
  PROVE  LET d == LossDeadline(Granted(q, e - HostClock(Target[q.host])))
         IN /\ file'[Target[q.host]].holder = q.run
            /\ d + RenewInterval < file'[Target[q.host]].expiry
<1> DEFINE f == Target[q.host]
           d == LossDeadline(Granted(q, e - HostClock(f)))
<1>1. q \in Request /\ q.asked \in Int /\ f \in File
  BY NamesAssumption DEF TypeOK, Request
<1>2. HostClock(f) \in Int /\ now - ClockStep < HostClock(f) /\ now \in Int
  BY <1>1, HostClockLag DEF TypeOK
<1>3. d = q.asked + (e - HostClock(f)) - RenewInterval - ClockStep
  BY DEF LossDeadline, Granted
<1>4. d + RenewInterval < e
  BY <1>1, <1>2, <1>3, LeaseAssumption
<1>5. file'[f] = [holder |-> q.run, expiry |-> e]
  BY <1>1 DEF WriteLock, TypeOK
<1> QED
  BY <1>4, <1>5

\* a is what the script of q answers, and what it grants is backed.
Replies(q, a) ==
  /\ a.run = q.run /\ a.host = q.host /\ a.op = q.op
  /\ net' = net \ {q}
  /\ answers' = IF Awaited(q) THEN answers \cup {a} ELSE answers
  /\ UNCHANGED <<now, setVars, leaseVars, renewVars, unsettled>>
  /\ a.ok /\ a.op # "release" =>
       /\ file'[Target[q.host]].holder = q.run
       /\ LossDeadline(a) + RenewInterval < file'[Target[q.host]].expiry

\* Every script uses its request up and answers who waits for it.
LEMMA ScriptReplies ==
  ASSUME TypeOK, NEW q \in net, q.asked <= now, RunScript(q)
  PROVE  \E a \in Answer : Replies(q, a)
<1> DEFINE f == Target[q.host]
<1>1. q \in Request /\ f \in File /\ file[f].expiry \in Int /\ q.lease \in Int
  BY NamesAssumption DEF TypeOK, Request
<1>2. HostClock(f) \in Int
  BY <1>1, HostClockLag
<1>3. CASE Refuse(q)
  <2>1. Refusal(q) \in Answer
    BY <1>1, AnswerType
  <2>2. /\ Refusal(q).run = q.run /\ Refusal(q).host = q.host /\ Refusal(q).op = q.op
        /\ ~Refusal(q).ok
    BY DEF Refusal
  <2> QED
    BY <1>3, <2>1, <2>2 DEF Refuse, Reply, Replies
<1>4. ASSUME NEW e \in Int, WriteLock(q, e) PROVE \E a \in Answer : Replies(q, a)
  <2> DEFINE g == Granted(q, e - HostClock(f))
  <2>1. g \in Answer
    BY <1>1, <1>2, AnswerType
  <2>2. g.run = q.run /\ g.host = q.host /\ g.op = q.op
    BY DEF Granted
  <2>3. /\ file'[f].holder = q.run
        /\ LossDeadline(g) + RenewInterval < file'[f].expiry
    BY <1>4, GrantBacked
  <2> QED
    BY <1>4, <2>1, <2>2, <2>3 DEF WriteLock, Reply, Replies
<1>5. CASE ScriptAcquire(q)
  BY <1>1, <1>2, <1>3, <1>4, <1>5 DEF ScriptAcquire
<1>6. CASE ScriptRenew(q)
  BY <1>1, <1>2, <1>3, <1>4, <1>6 DEF ScriptRenew, Later
<1>7. CASE ScriptRelease(q)
  <2>1. Granted(q, 0) \in Answer
    BY <1>1, AnswerType
  <2>2. /\ Granted(q, 0).run = q.run /\ Granted(q, 0).host = q.host
        /\ Granted(q, 0).op = q.op /\ q.op = "release"
    BY <1>7 DEF Granted, ScriptRelease
  <2> QED
    BY <1>7, <2>1, <2>2 DEF ScriptRelease, Reply, Replies
<1> QED
  BY <1>5, <1>6, <1>7 DEF RunScript

LEMMA ScriptFits ==
  ASSUME OneNamePerFile, IInv, NEW q \in net, RunScript(q)
  PROVE  Fits'
<1> USE DEF IInv, Replies, setVars, leaseVars, renewVars
<1>1. PICK a \in Answer : Replies(q, a)
  BY ScriptReplies DEF RequestsFit
<1>2. SetsFit'
  BY <1>1 DEF SetsFit
<1>3. RequestsFit'
  BY <1>1 DEF TypeOK, RequestsFit, Request, Answer
<1>4. ASSUME NEW b \in answers,
             b.ok, b.op # "release", phase[b.run] \in Acquired \cup {"acquiring"}
      PROVE  Backed(b.run, b.host, LossDeadline(b))'
  <2>1. /\ b.run \in Run /\ b.host \in Host /\ LossDeadline(b) \in Int
        /\ q.run \in Run /\ q.host \in Host
    BY LossDeadlineType DEF TypeOK, Answer, Request
  <2>2. Backed(b.run, b.host, LossDeadline(b))
    BY <1>4 DEF AnswersFit
  <2>3. q.op \in {"acquire", "release"} => b.run # q.run \/ b.host # q.host
    <3>1. CASE b.op = "acquire"
      BY <3>1 DEF AnswersFit, RequestsFit
    <3>2. CASE b.op \in {"renew", "extend"}
      BY <1>4, <3>2 DEF AnswersFit, RequestsFit
    <3> QED
      BY <1>4, <3>1, <3>2 DEF TypeOK, Answer
  <2> QED
    BY <1>1, <2>1, <2>2, <2>3, ScriptKeepsBacked DEF Backed, LossDeadline
<1>5. AnswersFit'
  <2>1. ASSUME NEW b \in answers' PROVE
          /\ phase[b.run] # "new"
          /\ b.op = "acquire" =>
               /\ phase[b.run] \in {"acquiring", "adding"}
               /\ b.host = await[b.run]
               /\ \A c \in answers' : c.run = b.run /\ c.op = "acquire" => c = b
          /\ b.op = "release" => phase[b.run] \notin {"acquiring", "held", "adding"}
          /\ b.op \in {"renew", "extend"} =>
               /\ phase[b.run] # "acquiring"
               /\ phase[b.run] \in Acquired => b.host \in held[b.run]
    BY <1>1 DEF TypeOK, Answer, Request, AnswersFit, RequestsFit, Awaited
  <2>2. ASSUME NEW b \in answers',
               b.ok, b.op # "release", phase[b.run] \in Acquired \cup {"acquiring"}
        PROVE  Backed(b.run, b.host, LossDeadline(b))'
    <3>1. CASE b \in answers
      BY <1>4, <2>2, <3>1
    <3>2. CASE b = a
      BY <1>1, <2>2, <3>2 DEF Backed, LossDeadline
    <3> QED
      BY <1>1, <3>1, <3>2
  <2> QED
    BY <1>1, <2>1, <2>2 DEF AnswersFit
<1>6. DeadlinesBacked'
  <2>1. ASSUME NEW r \in Run, NEW h \in held[r] \cup fresh[r], NEW d \in Int, Backed(r, h, d)
        PROVE  \/ file'[Target[h]].holder = r /\ d + RenewInterval < file'[Target[h]].expiry
               \/ d + RenewInterval < now
    <3>1. h \in Host
      BY DEF TypeOK
    <3>2. q.op \in {"acquire", "release"} => r # q.run \/ h # q.host
      BY DEF TypeOK, SetsFit, RequestsFit
    <3> QED
      BY <2>1, <3>1, <3>2, ScriptKeepsBacked
  <2>2. \A r \in Run, h \in Host : deadline[r][h] \in Int /\ declared[r][h] \in Int
    BY DEF TypeOK
  <2> QED
    BY <1>1, <2>1, <2>2 DEF DeadlinesBacked, Backed
<1> QED
  BY <1>2, <1>3, <1>5, <1>6 DEF Fits

LEMMA DropFits ==
  ASSUME IInv, NEW q \in net, Drop(q)
  PROVE  Fits'
<1> USE DEF IInv, Drop, setVars, leaseVars, renewVars
<1>1. SetsFit' /\ DeadlinesBacked'
  BY DEF SetsFit, DeadlinesBacked, Backed
<1>2. RequestsFit'
  BY DEF RequestsFit
<1>3. AnswersFit'
  BY DEF AnswersFit, Backed, LossDeadline
<1> QED
  BY <1>1, <1>2, <1>3 DEF Fits

LEMMA TickFits ==
  ASSUME IInv, Tick
  PROVE  Fits'
<1> USE DEF IInv, Tick, setVars, leaseVars, renewVars
<1>1. now \in Int /\ now' = now + 1
  BY DEF TypeOK
<1>2. SetsFit'
  BY DEF SetsFit
<1>3. RequestsFit'
  BY <1>1 DEF RequestsFit, TypeOK, Request
<1>4. AnswersFit'
  <2>1. \A a \in answers : LossDeadline(a) \in Int
    BY LossDeadlineType DEF TypeOK
  <2>2. \A a \in answers : LossDeadline(a)' = LossDeadline(a)
    BY DEF LossDeadline
  <2> QED
    BY <1>1, <2>1, <2>2, LeaseAssumption DEF AnswersFit, Backed
<1>5. DeadlinesBacked'
  BY <1>1, LeaseAssumption DEF TypeOK, DeadlinesBacked, Backed
<1> QED
  BY <1>2, <1>3, <1>4, <1>5 DEF Fits

LEMMA StutterFits ==
  ASSUME IInv, UNCHANGED vars
  PROVE  Fits'
<1> USE DEF IInv, vars, setVars, leaseVars, renewVars
<1>1. SetsFit' /\ DeadlinesBacked'
  BY DEF SetsFit, DeadlinesBacked, Backed
<1>2. RequestsFit'
  BY DEF RequestsFit
<1>3. AnswersFit'
  BY DEF AnswersFit, Backed, LossDeadline
<1> QED
  BY <1>1, <1>2, <1>3 DEF Fits

LEMMA RunFits ==
  ASSUME IInv, NEW r \in Run, RunStep(r)
  PROVE  Fits'
<1>1. CASE AcquireStep(r)
  BY <1>1, BeginFits, BeginAdditionalFits, SendAcquireFits, AcquireGrantedFits,
     AcquireRefusedFits, AcquireFailedFits, AdoptFits, AdoptFailedFits DEF AcquireStep
<1>2. CASE ReleaseStep(r)
  BY <1>2, ReleaseAllFits, AbandonFits, SendReleaseFits, ReleaseAnsweredFits,
     ReleaseFailedFits, ReleaseDoneFits DEF ReleaseStep
<1>3. CASE RenewStep(r)
  BY <1>3, StartRenewalFits, RenewRoundFits, RenewAnsweredFits, RenewFailedFits,
     RoundDrainedFits, WatchDeadlinesFits, StopRenewalFits DEF RenewStep
<1>4. CASE ExtendStep(r)
  BY <1>4, SendExtendFits, ExtendAnsweredFits DEF ExtendStep
<1>5. CASE Crash(r)
  BY <1>5, CrashFits
<1> QED
  BY <1>1, <1>2, <1>3, <1>4, <1>5 DEF RunStep

LEMMA InitInv == Init => IInv
<1> SUFFICES ASSUME Init PROVE IInv
  OBVIOUS
<1>1. TypeOK
  BY InitType
<1>2. SetsFit /\ RequestsFit /\ AnswersFit /\ DeadlinesBacked
  BY DEF Init, SetsFit, RequestsFit, AnswersFit, DeadlinesBacked
<1> QED
  BY <1>1, <1>2 DEF IInv

LEMMA NextInv ==
  ASSUME OneNamePerFile, ~OperatorMayUnlock, IInv, [Next]_vars
  PROVE  IInv'
<1>1. TypeOK'
  BY NextType DEF IInv
<1>2. Fits'
  <2>1. ASSUME NEW f \in File, OperatorUnlock(f) PROVE FALSE
    BY <2>1 DEF OperatorUnlock
  <2> QED
    BY <2>1, RunFits, ScriptFits, DropFits, TickFits, StutterFits DEF Next
<1> QED
  BY <1>1, <1>2 DEF IInv, Fits

\* The deadlines of every Set stay backed by the lock files.
THEOREM InvariantHolds ==
  ASSUME OneNamePerFile, ~OperatorMayUnlock
  PROVE  Spec => []IInv
<1>1. IInv /\ [Next]_vars => IInv'
  BY NextInv
<1> QED
  BY <1>1, InitInv, PTL DEF Spec

LEMMA InvImpliesBacked == IInv => ScopeIsBacked
<1> SUFFICES ASSUME IInv, NEW r \in Run, Usable(r), NEW h \in held[r]
             PROVE  /\ file[Target[h]].holder = r
                    /\ now + RenewInterval < file[Target[h]].expiry
  BY DEF ScopeIsBacked
<1>1. h \in Host /\ Target[h] \in File
  BY NamesAssumption DEF IInv, TypeOK
<1>2. /\ now \in Int /\ deadline[r][h] \in Int /\ declared[r][h] \in Int
      /\ file[Target[h]].expiry \in Int
  BY <1>1 DEF IInv, TypeOK
<1>3. now < Effective(r, h)
  BY <1>1, <1>2 DEF Usable, Overdue, Effective, Later
<1>4. Backed(r, h, Effective(r, h))
  BY <1>1 DEF IInv, DeadlinesBacked, Effective, Later
<1> QED
  BY <1>2, <1>3, <1>4, LeaseAssumption DEF Backed, Effective, Later

\* While Scope.Check accepts a Set, every lock file behind its hosts names the
\* run and stays current for more than one RenewInterval, whatever requests and
\* answers are delayed, lost or refused.
THEOREM ScopeBacked ==
  ASSUME OneNamePerFile, ~OperatorMayUnlock
  PROVE  Spec => []ScopeIsBacked
<1>1. Spec => []IInv
  BY InvariantHolds
<1> QED
  BY <1>1, InvImpliesBacked, PTL

(***************************************************************************)
(* A record is taken only after it expired, or by its own run.             *)
(***************************************************************************)

LEMMA ScriptTakesExpired ==
  ASSUME TypeOK, NEW q \in net, RunScript(q), NEW f \in File,
         file[f].holder # NoRun, file'[f].holder # file[f].holder
  PROVE  \/ file[f].expiry <= now
         \/ q.run = file[f].holder /\ q.op = "release" /\ Target[q.host] = f /\ q \notin net'
<1>1. q \in Request /\ q.host \in Host /\ Target[q.host] \in File
  BY NamesAssumption DEF TypeOK, Request
<1>2. now \in Int /\ file[f].expiry \in Int /\ HostClock(f) \in Int /\ HostClock(f) <= now
  BY HostClockLag DEF TypeOK
<1>3. Target[q.host] = f
  BY <1>1 DEF TypeOK, RunScript, ScriptAcquire, ScriptRenew, ScriptRelease, WriteLock, Refuse
<1>4. CASE ScriptAcquire(q)
  <2>1. WriteLock(q, HostClock(f) + q.lease)
    BY <1>3, <1>4 DEF ScriptAcquire, Refuse
  <2>2. file'[f].holder = q.run
    BY <1>1, <1>3, <2>1 DEF WriteLock, TypeOK
  <2> QED
    BY <1>2, <1>3, <1>4, <2>2 DEF ScriptAcquire, Refuse
<1>5. CASE ScriptRenew(q)
  BY <1>1, <1>3, <1>5 DEF ScriptRenew, Refuse, WriteLock, TypeOK
<1>6. CASE ScriptRelease(q)
  BY <1>1, <1>3, <1>6 DEF ScriptRelease, Reply
<1> QED
  BY <1>4, <1>5, <1>6 DEF RunScript

LEMMA RunKeepsFiles ==
  ASSUME NEW r \in Run, RunStep(r)
  PROVE  UNCHANGED <<now, file>>
<1>1. CASE AcquireStep(r)
  BY <1>1 DEF AcquireStep, Begin, BeginAdditional, SendAcquire, AcquireGranted,
     AcquireRefused, AcquireFailed, Adopt, AdoptFailed
<1>2. CASE ReleaseStep(r)
  BY <1>2 DEF ReleaseStep, ReleaseAll, Abandon, SendRelease, ReleaseAnswered, ReleaseFailed,
     ReleaseDone
<1>3. CASE RenewStep(r)
  BY <1>3 DEF RenewStep, StartRenewal, RenewRound, RenewAnswered, RenewFailed, RoundDrained,
     WatchDeadlines, StopRenewal
<1>4. CASE ExtendStep(r)
  BY <1>4 DEF ExtendStep, SendExtend, ExtendAnswered
<1>5. CASE Crash(r)
  BY <1>5 DEF Crash
<1> QED
  BY <1>1, <1>2, <1>3, <1>4, <1>5 DEF RunStep

\* Unless the operator unlocks, a record is taken from the run it names only by
\* a release of that run or after it expired.
THEOREM OnlyExpiredTaken ==
  ASSUME ~OperatorMayUnlock
  PROVE  Spec => OnlyExpiredIsTaken
<1>1. TypeOK /\ [Next]_vars => [\A f \in File : TakenLawfully(f)]_vars
  <2> SUFFICES ASSUME TypeOK, Next, NEW f \in File,
                      file[f].holder # NoRun, file'[f].holder # file[f].holder
               PROVE  \/ file[f].expiry <= now
                      \/ \E q \in net \ net' : /\ q.run = file[f].holder /\ q.op = "release"
                                               /\ Target[q.host] = f
    BY DEF TakenLawfully
  <2>1. ASSUME NEW r \in Run, RunStep(r) PROVE FALSE
    BY <2>1, RunKeepsFiles
  <2>2. PICK q \in net : RunScript(q)
    BY <2>1 DEF Next, Drop, OperatorUnlock, Tick
  <2> QED
    BY <2>2, ScriptTakesExpired
<1>2. Spec => []TypeOK
  BY TypeCorrect
<1> QED
  BY <1>1, <1>2, PTL DEF Spec, OnlyExpiredIsTaken

(***************************************************************************)
(* The block of a dead run is bounded.                                     *)
(***************************************************************************)

\* No request asks for more than the lease of its operation, no record exceeds
\* the longer of the two leases.
BlockInv ==
  /\ TypeOK
  /\ \A q \in net : q.op \in {"acquire", "renew"} => q.lease <= TTL
  /\ BlockIsBounded

LEMMA WholeSecondsBound ==
  ASSUME NEW d \in Int
  PROVE  WholeSeconds(d) <= d
<1>1. d % ClockStep \in 0 .. ClockStep - 1
  BY LeaseAssumption
<1> QED
  BY <1>1, LeaseAssumption DEF WholeSeconds

LEMMA SendBound ==
  ASSUME NEW r, NEW hosts, NEW op, NEW lease, Send(r, hosts, op, lease),
         lease = TTL \/ op \notin {"acquire", "renew"},
         \A q \in net : q.op \in {"acquire", "renew"} => q.lease <= TTL
  PROVE  \A q \in net' : q.op \in {"acquire", "renew"} => q.lease <= TTL
<1>1. WholeSeconds(TTL) <= TTL
  BY WholeSecondsBound, LeaseAssumption
<1> QED
  BY <1>1 DEF Send

LEMMA RunBound ==
  ASSUME BlockInv, NEW r \in Run, RunStep(r)
  PROVE  \A q \in net' : q.op \in {"acquire", "renew"} => q.lease <= TTL
<1> USE DEF BlockInv
<1>1. CASE AcquireStep(r)
  BY <1>1, SendBound DEF AcquireStep, Begin, BeginAdditional, SendAcquire, AcquireGranted,
     AcquireRefused, AcquireFailed, Adopt, AdoptFailed
<1>2. CASE ReleaseStep(r)
  BY <1>2, SendBound DEF ReleaseStep, ReleaseAll, Abandon, SendRelease, ReleaseAnswered,
     ReleaseFailed, ReleaseDone
<1>3. CASE RenewStep(r)
  BY <1>3, SendBound DEF RenewStep, StartRenewal, RenewRound, RenewAnswered, RenewFailed,
     RoundDrained, WatchDeadlines, StopRenewal
<1>4. CASE ExtendStep(r)
  BY <1>4, SendBound DEF ExtendStep, SendExtend, ExtendAnswered
<1>5. CASE Crash(r)
  BY <1>5 DEF Crash
<1> QED
  BY <1>1, <1>2, <1>3, <1>4, <1>5 DEF RunStep

LEMMA ScriptBound ==
  ASSUME BlockInv, NEW q \in net, RunScript(q)
  PROVE  BlockIsBounded'
<1> DEFINE f == Target[q.host]
           cap == Later(TTL, MaxExtend)
<1>1. /\ q \in Request /\ q.lease \in Int /\ f \in File /\ now \in Int
      /\ HostClock(f) \in Int /\ HostClock(f) <= now
      /\ cap \in Int /\ cap >= TTL /\ cap >= MaxExtend /\ cap >= 0
      /\ \A g \in File : file[g].expiry \in Int /\ file[g].expiry <= now + cap
  BY NamesAssumption, LeaseAssumption, HostClockLag
     DEF BlockInv, BlockIsBounded, TypeOK, Request, Later
<1>2. now' = now
  BY DEF RunScript, ScriptAcquire, ScriptRenew, ScriptRelease, WriteLock, Refuse, Reply
<1>3. ASSUME NEW e \in Int, e <= now + cap, WriteLock(q, e) PROVE BlockIsBounded'
  <2>1. \A g \in File : file'[g].expiry \in {file[g].expiry, e}
    BY <1>1, <1>3 DEF WriteLock, BlockInv, TypeOK
  <2> QED
    BY <1>1, <1>2, <1>3, <2>1 DEF BlockIsBounded
<1>4. CASE Refuse(q)
  BY <1>2, <1>4 DEF Refuse, BlockInv, BlockIsBounded
<1>5. CASE ScriptAcquire(q)
  <2>1. /\ HostClock(f) + q.lease \in Int
        /\ HostClock(f) + q.lease <= now + cap
    BY <1>1, <1>5, LeaseAssumption DEF ScriptAcquire, BlockInv
  <2> QED
    BY <1>3, <1>4, <1>5, <2>1 DEF ScriptAcquire
<1>6. CASE ScriptRenew(q)
  <2>1. CASE Refuse(q)
    BY <1>4, <2>1
  <2>2. CASE ~Refuse(q)
    <3>1. WriteLock(q, Later(file[f].expiry, HostClock(f) + q.lease))
      BY <1>6, <2>2 DEF ScriptRenew
    <3>2. q.lease <= cap
      BY <1>1, <1>6, <2>2, LeaseAssumption DEF ScriptRenew, BlockInv
    <3>3. /\ Later(file[f].expiry, HostClock(f) + q.lease) \in Int
          /\ Later(file[f].expiry, HostClock(f) + q.lease) <= now + cap
      <4>1. HostClock(f) + q.lease \in Int /\ HostClock(f) + q.lease <= now + cap
        BY <1>1, <3>2
      <4> QED
        BY <1>1, <4>1 DEF Later
    <3> QED
      BY <1>3, <3>1, <3>3
  <2> QED
    BY <2>1, <2>2
<1>7. CASE ScriptRelease(q)
  <2>1. \A g \in File : file'[g] \in {file[g], NoRecord}
    BY <1>1, <1>7 DEF ScriptRelease, BlockInv, TypeOK
  <2>2. now >= 0
    BY LeaseAssumption DEF BlockInv, TypeOK
  <2> QED
    BY <1>1, <1>2, <2>1, <2>2 DEF BlockIsBounded, NoRecord
<1> QED
  BY <1>5, <1>6, <1>7 DEF RunScript

LEMMA NextBlockInv == BlockInv /\ [Next]_vars => BlockInv'
<1> SUFFICES ASSUME BlockInv, [Next]_vars PROVE BlockInv'
  OBVIOUS
<1>1. TypeOK'
  BY NextType DEF BlockInv
<1>2. \A q \in net' : q.op \in {"acquire", "renew"} => q.lease <= TTL
  <2>1. ASSUME NEW q \in net, RunScript(q) \/ Drop(q) PROVE net' \subseteq net
    BY <2>1 DEF RunScript, ScriptAcquire, ScriptRenew, ScriptRelease, WriteLock, Refuse, Reply,
       Drop
  <2> QED
    BY <2>1, RunBound DEF Next, OperatorUnlock, Tick, vars, BlockInv
<1>3. BlockIsBounded'
  <2>1. ASSUME NEW r \in Run, RunStep(r) PROVE BlockIsBounded'
    BY <2>1, RunKeepsFiles DEF BlockInv, BlockIsBounded
  <2>2. ASSUME NEW q \in net, RunScript(q) PROVE BlockIsBounded'
    BY <2>2, ScriptBound
  <2>3. ASSUME NEW q \in net, Drop(q) PROVE BlockIsBounded'
    BY <2>3 DEF Drop, BlockInv, BlockIsBounded
  <2>4. ASSUME NEW f \in File, OperatorUnlock(f) PROVE BlockIsBounded'
    <3>1. \A g \in File : file'[g] \in {file[g], NoRecord}
      BY <2>4 DEF OperatorUnlock, BlockInv, TypeOK
    <3> QED
      BY <2>4, <3>1, LeaseAssumption
         DEF OperatorUnlock, BlockInv, BlockIsBounded, NoRecord, TypeOK, Later
  <2>5. CASE Tick
    <3>1. now \in Int /\ \A g \in File : file[g].expiry \in Int
      BY DEF BlockInv, TypeOK
    <3> QED
      BY <2>5, <3>1, LeaseAssumption DEF Tick, BlockInv, BlockIsBounded, Later
  <2>6. CASE UNCHANGED vars
    BY <2>6 DEF vars, BlockInv, BlockIsBounded
  <2> QED
    BY <2>1, <2>2, <2>3, <2>4, <2>5, <2>6 DEF Next
<1> QED
  BY <1>1, <1>2, <1>3 DEF BlockInv

\* Whatever renewals and extends follow each other, with or without an operator
\* that unlocks: a run that died blocks its hosts for at most the longer of TTL
\* and the extend cap.
THEOREM BlockBounded == Spec => []BlockIsBounded
<1>1. Init => BlockInv
  <2> SUFFICES ASSUME Init PROVE BlockInv
    OBVIOUS
  <2>1. TypeOK
    BY InitType
  <2> QED
    BY <2>1, LeaseAssumption DEF Init, BlockInv, BlockIsBounded, NoRecord, Later
<1>2. BlockInv => BlockIsBounded
  BY DEF BlockInv
<1> QED
  BY <1>1, <1>2, NextBlockInv, PTL DEF Spec

(***************************************************************************)
(* The scopes implement the exclusive lease.                               *)
(***************************************************************************)

\* A step of r leaves what the scopes of the others depend on alone.
LEMMA RunFrame ==
  ASSUME TypeOK, NEW r \in Run, RunStep(r), NEW s \in Run, s # r
  PROVE  /\ phase'[s] = phase[s] /\ held'[s] = held[s]
         /\ lost'[s] = lost[s] /\ loop'[s] = loop[s]
         /\ deadline'[s] = deadline[s] /\ declared'[s] = declared[s]
<1> USE DEF TypeOK, Forget, ReadDeclarations, setVars, leaseVars, renewVars
<1>1. CASE AcquireStep(r)
  <2>1. CASE GiveBack(r)
    BY <2>1 DEF GiveBack
  <2>2. CASE Adopt(r)
    BY <2>2 DEF Adopt
  <2>3. ASSUME NEW a \in answers, AcquireGranted(r, a) PROVE held'[s] = held[s]
    BY <2>3 DEF AcquireGranted
  <2> QED
    BY <1>1, <2>1, <2>2, <2>3 DEF AcquireStep, Begin, BeginAdditional, SendAcquire,
       AcquireGranted, AcquireRefused, AcquireFailed, AdoptFailed
<1>2. CASE ReleaseStep(r)
  BY <1>2 DEF ReleaseStep, ReleaseAll, Abandon, SendRelease, ReleaseAnswered, ReleaseFailed,
     ReleaseDone
<1>3. CASE RenewStep(r)
  BY <1>3 DEF RenewStep, StartRenewal, RenewRound, RenewAnswered, RenewFailed, RoundDrained,
     WatchDeadlines, StopRenewal, RoundLost, ReportLoss
<1>4. CASE ExtendStep(r)
  BY <1>4 DEF ExtendStep, SendExtend, ExtendAnswered
<1>5. CASE Crash(r)
  BY <1>5 DEF Crash
<1> QED
  BY <1>1, <1>2, <1>3, <1>4, <1>5 DEF RunStep

\* A scope whose Set did not change is not accepted again later.
LEMMA ScopeFades ==
  ASSUME TypeOK, NEW s \in Run, now' \in Int, now' >= now,
         phase'[s] = phase[s], held'[s] = held[s], lost'[s] = lost[s], loop'[s] = loop[s],
         deadline'[s] = deadline[s], declared'[s] = declared[s],
         Usable(s)'
  PROVE  Usable(s)
<1>1. \A h \in held[s] : deadline[s][h] \in Int /\ declared[s][h] \in Int
  BY DEF TypeOK
<1>2. now \in Int
  BY DEF TypeOK
<1>3. Overdue(s) => Overdue(s)'
  BY <1>1, <1>2 DEF Overdue, Effective, Later
<1> QED
  BY <1>3 DEF Usable

LEMMA PermittedIsExclusive ==
  ASSUME ScopeIsBacked
  PROVE  \A f \in File : \A r, s \in Permitted[f] : r = s
  BY DEF ScopeIsBacked, Permitted

LEMMA StepImplements ==
  ASSUME TypeOK, TypeOK', ScopeIsBacked', [Next]_vars
  PROVE  [Lease!Next]_Permitted
<1>1. Permitted \in [File -> SUBSET Run] /\ Permitted' \in [File -> SUBSET Run]
  BY DEF Permitted
<1>2. \A f \in File : Lease!AtMostOne(Permitted'[f])
  <2>1. \A f \in File : \A r, s \in Permitted'[f] : r = s
    BY DEF ScopeIsBacked, Permitted
  <2> QED
    BY <2>1 DEF Lease!AtMostOne
<1>3. ASSUME NEW s \in Run, now' >= now,
             phase'[s] = phase[s], held'[s] = held[s], lost'[s] = lost[s],
             loop'[s] = loop[s], deadline'[s] = deadline[s], declared'[s] = declared[s]
      PROVE  \A f \in File : s \in Permitted'[f] => s \in Permitted[f]
  <2>1. Usable(s)' => Usable(s)
    BY <1>3, ScopeFades DEF TypeOK
  <2> QED
    BY <1>3, <2>1 DEF Permitted
<1>4. ASSUME NEW r \in Run, RunStep(r) PROVE Lease!Grant(r)
  <2>1. \A s \in Run : s # r => \A f \in File : s \in Permitted'[f] => s \in Permitted[f]
    <3> SUFFICES ASSUME NEW s \in Run, s # r
                 PROVE  \A f \in File : s \in Permitted'[f] => s \in Permitted[f]
      OBVIOUS
    <3>1. now' >= now
      BY <1>4, RunKeepsFiles DEF TypeOK
    <3> QED
      BY <1>3, <1>4, <3>1, RunFrame
  <2>2. \A f \in File : Permitted'[f] \subseteq Permitted[f] \cup {r}
    BY <1>1, <2>1
  <2> QED
    BY <1>1, <1>2, <2>2 DEF Lease!Grant
<1>5. ASSUME now' >= now, UNCHANGED <<setVars, leaseVars, renewVars>> PROVE Lease!Revoke
  <2>1. \A s \in Run : \A f \in File : s \in Permitted'[f] => s \in Permitted[f]
    BY <1>3, <1>5 DEF setVars, leaseVars, renewVars
  <2> QED
    BY <1>1, <2>1 DEF Lease!Revoke
<1>6. now \in Int
  BY DEF TypeOK
<1>7. ASSUME NEW q \in net, RunScript(q) PROVE Lease!Revoke
  BY <1>5, <1>6, <1>7 DEF RunScript, ScriptAcquire, ScriptRenew, ScriptRelease, WriteLock,
     Refuse, Reply
<1>8. ASSUME NEW q \in net, Drop(q) PROVE Lease!Revoke
  BY <1>5, <1>6, <1>8 DEF Drop
<1>9. ASSUME NEW f \in File, OperatorUnlock(f) PROVE Lease!Revoke
  BY <1>5, <1>6, <1>9 DEF OperatorUnlock
<1>10. ASSUME Tick PROVE Lease!Revoke
  <2>1. now' >= now
    BY <1>6, <1>10 DEF Tick
  <2>2. UNCHANGED <<setVars, leaseVars, renewVars>>
    BY <1>10 DEF Tick
  <2> QED
    BY <1>5, <2>1, <2>2
<1>11. CASE UNCHANGED vars
  BY <1>5, <1>6, <1>11 DEF vars, Lease!Next
<1> QED
  BY <1>4, <1>7, <1>8, <1>9, <1>10, <1>11 DEF Next, Lease!Next

\* The scopes of the Sets implement the exclusive lease: no two runs are
\* permitted on one lock file, and a step gives permissions to one run only.
THEOREM ScopesImplementLease ==
  ASSUME OneNamePerFile, ~OperatorMayUnlock
  PROVE  Spec => ImplementsLease
<1>1. Init => Lease!Init
  BY DEF Init, Lease!Init, Permitted, Usable, Acquired
<1>2. TypeOK /\ TypeOK' /\ ScopeIsBacked' /\ [Next]_vars => [Lease!Next]_Permitted
  BY StepImplements
<1>3. Spec => []TypeOK
  BY TypeCorrect
<1>4. Spec => []ScopeIsBacked
  BY ScopeBacked
<1> QED
  BY <1>1, <1>2, <1>3, <1>4, PTL DEF Spec, ImplementsLease, Lease!Spec

(***************************************************************************)
(* What is under way, whatever the operator deletes and however many names *)
(* a lock file has.                                                        *)
(***************************************************************************)

\* AnswersFit without the leases that the answers grant.
AnswersAwaited ==
  \A a \in answers :
    /\ phase[a.run] # "new"
    /\ a.op = "acquire" =>
         /\ phase[a.run] \in {"acquiring", "adding"}
         /\ a.host = await[a.run]
         /\ \A b \in answers : b.run = a.run /\ b.op = "acquire" => b = a
    /\ a.op = "release" => phase[a.run] \notin {"acquiring", "held", "adding"}
    /\ a.op \in {"renew", "extend"} =>
         /\ phase[a.run] # "acquiring"
         /\ phase[a.run] \in Acquired => a.host \in held[a.run]

UnderWay == TypeOK /\ SetsFit /\ RequestsFit /\ AnswersAwaited

\* The steps of an acquisition keep what is under way in order.
LEMMA AcquireUnderWay ==
  ASSUME UnderWay, NEW r \in Run, AcquireStep(r)
  PROVE  SetsFit' /\ RequestsFit' /\ AnswersAwaited'
<1> USE DEF UnderWay, setVars, leaseVars, renewVars
<1>1. ASSUME NEW hosts \in FirstHosts, Begin(r, hosts)
      PROVE  SetsFit' /\ RequestsFit' /\ AnswersAwaited'
  <2> USE <1>1 DEF Begin
  <2>1. SetsFit'
    BY NamesAssumption DEF TypeOK, SetsFit, Acquired
  <2>2. RequestsFit'
    BY DEF TypeOK, SetsFit, RequestsFit, Request
  <2>3. AnswersAwaited'
    BY DEF TypeOK, SetsFit, AnswersAwaited, Answer, Acquired
  <2> QED
    BY <2>1, <2>2, <2>3
<1>2. ASSUME NEW hosts \in MoreHosts, BeginAdditional(r, hosts)
      PROVE  SetsFit' /\ RequestsFit' /\ AnswersAwaited'
  <2> USE <1>2 DEF BeginAdditional
  <2>1. SetsFit'
    BY NamesAssumption DEF TypeOK, SetsFit, Acquired, Answer
  <2>2. RequestsFit'
    BY DEF TypeOK, SetsFit, RequestsFit, Request, Acquired
  <2>3. AnswersAwaited'
    BY DEF TypeOK, SetsFit, AnswersAwaited, Answer, Acquired
  <2> QED
    BY <2>1, <2>2, <2>3
<1>3. ASSUME NEW h \in Host, SendAcquire(r, h)
      PROVE  SetsFit' /\ RequestsFit' /\ AnswersAwaited'
  <2> USE <1>3 DEF SendAcquire
  <2>1. /\ \A a \in answers : a.run = r => a.op # "acquire"
        /\ \A q \in net : q.run = r => q.op # "acquire"
    BY NamesAssumption DEF TypeOK, AnswersAwaited, Answer, RequestsFit, Request
  <2> DEFINE q == [run |-> r, host |-> h, op |-> "acquire", asked |-> now,
                   lease |-> WholeSeconds(TTL)]
  <2>2. net' = net \cup {q}
    BY DEF Send
  <2>3. SetsFit'
    BY NamesAssumption DEF TypeOK, SetsFit, Acquired
  <2>4. RequestsFit'
    BY <2>1, <2>2 DEF TypeOK, SetsFit, RequestsFit, Request, Acquired
  <2>5. AnswersAwaited'
    BY <2>1 DEF TypeOK, SetsFit, AnswersAwaited, Answer, Acquired
  <2> QED
    BY <2>3, <2>4, <2>5
<1>4. ASSUME NEW a \in answers, AcquireGranted(r, a)
      PROVE  SetsFit' /\ RequestsFit' /\ AnswersAwaited'
  <2> USE <1>4 DEF AcquireGranted, Answered
  <2>1. SetsFit'
    BY NamesAssumption DEF TypeOK, SetsFit, Acquired, Answer
  <2>2. RequestsFit'
    BY DEF TypeOK, SetsFit, RequestsFit, Request, Acquired
  <2>3. AnswersAwaited'
    BY DEF TypeOK, SetsFit, AnswersAwaited, Answer, Acquired
  <2> QED
    BY <2>1, <2>2, <2>3
<1>5. ASSUME GiveBack(r), UNCHANGED <<now, file, net>>, answers' \subseteq answers,
             \A a \in answers' : a.run = r => a.op # "acquire"
      PROVE  SetsFit' /\ RequestsFit' /\ AnswersAwaited'
  <2> USE <1>5
  <2>1. SetsFit'
    BY NamesAssumption DEF GiveBack, Forget, TypeOK, SetsFit, Acquired
  <2>2. RequestsFit'
    BY DEF GiveBack, TypeOK, SetsFit, RequestsFit, Request, Acquired
  <2>3. AnswersAwaited'
    BY DEF GiveBack, TypeOK, SetsFit, AnswersAwaited, Answer, Acquired
  <2> QED
    BY <2>1, <2>2, <2>3
<1>6. ASSUME NEW a \in answers, AcquireRefused(r, a)
      PROVE  SetsFit' /\ RequestsFit' /\ AnswersAwaited'
  <2>1. \A b \in answers' : b.run = r => b.op # "acquire"
    BY <1>6 DEF AcquireRefused, Answered, AnswersAwaited
  <2> QED
    BY <1>5, <1>6, <2>1 DEF AcquireRefused
<1>7. CASE AcquireFailed(r)
  BY <1>5, <1>7 DEF AcquireFailed
<1>8. CASE Adopt(r)
  <2> USE <1>8 DEF Adopt
  <2>1. /\ \A a \in answers : a.run = r => a.op # "acquire"
        /\ \A q \in net : q.run = r => q.op # "acquire"
    BY NamesAssumption DEF TypeOK, AnswersAwaited, Answer, RequestsFit, Request
  <2>2. SetsFit'
    BY DEF TypeOK, SetsFit, Acquired
  <2>3. RequestsFit'
    BY <2>1 DEF TypeOK, RequestsFit, Request, Acquired
  <2>4. AnswersAwaited'
    BY <2>1 DEF TypeOK, SetsFit, AnswersAwaited, Answer, Acquired
  <2> QED
    BY <2>2, <2>3, <2>4
<1>9. CASE AdoptFailed(r)
  <2>1. \A b \in answers' : b.run = r => b.op # "acquire"
    BY <1>9, NamesAssumption DEF AdoptFailed, TypeOK, AnswersAwaited, Answer
  <2> QED
    BY <1>5, <1>9, <2>1 DEF AdoptFailed
<1> QED
  BY <1>1, <1>2, <1>3, <1>4, <1>6, <1>7, <1>8, <1>9 DEF AcquireStep

\* So do the steps of a release,
LEMMA ReleaseUnderWay ==
  ASSUME UnderWay, NEW r \in Run, ReleaseStep(r)
  PROVE  SetsFit' /\ RequestsFit' /\ AnswersAwaited'
<1> USE DEF UnderWay, setVars, leaseVars, renewVars
<1>1. ASSUME ReleaseAll(r)
      PROVE  SetsFit' /\ RequestsFit' /\ AnswersAwaited'
  <2> USE <1>1 DEF ReleaseAll, Forget
  <2>1. SetsFit'
    BY NamesAssumption DEF TypeOK, SetsFit, Acquired, Answer
  <2>2. RequestsFit'
    BY DEF TypeOK, SetsFit, RequestsFit, Request, Acquired, AnswersAwaited, Answer
  <2>3. AnswersAwaited'
    BY DEF TypeOK, SetsFit, AnswersAwaited, Answer, Acquired
  <2> QED
    BY <2>1, <2>2, <2>3
<1>2. ASSUME Abandon(r)
      PROVE  SetsFit' /\ RequestsFit' /\ AnswersAwaited'
  <2> USE <1>2 DEF Abandon, Forget
  <2>1. SetsFit'
    BY NamesAssumption DEF TypeOK, SetsFit, Acquired, Answer
  <2>2. RequestsFit'
    BY DEF TypeOK, SetsFit, RequestsFit, Request, Acquired, AnswersAwaited, Answer
  <2>3. AnswersAwaited'
    BY DEF TypeOK, SetsFit, AnswersAwaited, Answer, Acquired
  <2> QED
    BY <2>1, <2>2, <2>3
<1>3. ASSUME NEW h \in Host, SendRelease(r, h)
      PROVE  SetsFit' /\ RequestsFit' /\ AnswersAwaited'
  <2> USE <1>3 DEF SendRelease, Send
  <2>1. SetsFit'
    BY NamesAssumption DEF TypeOK, SetsFit, Acquired, Answer
  <2>2. RequestsFit'
    BY DEF TypeOK, SetsFit, RequestsFit, Request, Acquired, AnswersAwaited, Answer
  <2>3. AnswersAwaited'
    BY DEF TypeOK, SetsFit, AnswersAwaited, Answer, Acquired
  <2> QED
    BY <2>1, <2>2, <2>3
<1>4. ASSUME NEW a \in answers, ReleaseAnswered(r, a)
      PROVE  SetsFit' /\ RequestsFit' /\ AnswersAwaited'
  <2> USE <1>4 DEF ReleaseAnswered, Answered
  <2>1. SetsFit'
    BY NamesAssumption DEF TypeOK, SetsFit, Acquired, Answer
  <2>2. RequestsFit'
    BY DEF TypeOK, SetsFit, RequestsFit, Request, Acquired, AnswersAwaited, Answer
  <2>3. AnswersAwaited'
    BY DEF TypeOK, SetsFit, AnswersAwaited, Answer, Acquired
  <2> QED
    BY <2>1, <2>2, <2>3
<1>5. ASSUME ReleaseFailed(r)
      PROVE  SetsFit' /\ RequestsFit' /\ AnswersAwaited'
  <2> USE <1>5 DEF ReleaseFailed
  <2>1. SetsFit'
    BY NamesAssumption DEF TypeOK, SetsFit, Acquired, Answer
  <2>2. RequestsFit'
    BY DEF TypeOK, SetsFit, RequestsFit, Request, Acquired, AnswersAwaited, Answer
  <2>3. AnswersAwaited'
    BY DEF TypeOK, SetsFit, AnswersAwaited, Answer, Acquired
  <2> QED
    BY <2>1, <2>2, <2>3
<1>6. ASSUME ReleaseDone(r)
      PROVE  SetsFit' /\ RequestsFit' /\ AnswersAwaited'
  <2> USE <1>6 DEF ReleaseDone
  <2>1. SetsFit'
    BY NamesAssumption DEF TypeOK, SetsFit, Acquired, Answer
  <2>2. RequestsFit'
    BY DEF TypeOK, SetsFit, RequestsFit, Request, Acquired, AnswersAwaited, Answer
  <2>3. AnswersAwaited'
    BY DEF TypeOK, SetsFit, AnswersAwaited, Answer, Acquired
  <2> QED
    BY <2>1, <2>2, <2>3
<1> QED
  BY <1>1, <1>2, <1>3, <1>4, <1>5, <1>6 DEF ReleaseStep

\* the renewals,
LEMMA RenewUnderWay ==
  ASSUME UnderWay, NEW r \in Run, RenewStep(r)
  PROVE  SetsFit' /\ RequestsFit' /\ AnswersAwaited'
<1> USE DEF UnderWay, setVars, leaseVars, renewVars
<1>1. ASSUME StartRenewal(r)
      PROVE  SetsFit' /\ RequestsFit' /\ AnswersAwaited'
  <2> USE <1>1 DEF StartRenewal
  <2>1. SetsFit'
    BY NamesAssumption DEF TypeOK, SetsFit, Acquired, Answer
  <2>2. RequestsFit'
    BY DEF TypeOK, SetsFit, RequestsFit, Request, Acquired, AnswersAwaited, Answer
  <2>3. AnswersAwaited'
    BY DEF TypeOK, SetsFit, AnswersAwaited, Answer, Acquired
  <2> QED
    BY <2>1, <2>2, <2>3
<1>2. ASSUME RenewRound(r)
      PROVE  SetsFit' /\ RequestsFit' /\ AnswersAwaited'
  <2> USE <1>2 DEF RenewRound, Send
  <2>1. SetsFit'
    BY NamesAssumption DEF TypeOK, SetsFit, Acquired, Answer
  <2>2. RequestsFit'
    BY DEF TypeOK, SetsFit, RequestsFit, Request, Acquired, AnswersAwaited, Answer
  <2>3. AnswersAwaited'
    BY DEF TypeOK, SetsFit, AnswersAwaited, Answer, Acquired
  <2> QED
    BY <2>1, <2>2, <2>3
<1>3. ASSUME NEW a \in answers, RenewAnswered(r, a)
      PROVE  SetsFit' /\ RequestsFit' /\ AnswersAwaited'
  <2> USE <1>3 DEF RenewAnswered
  <2>1. SetsFit'
    BY NamesAssumption DEF TypeOK, SetsFit, Acquired, Answer
  <2>2. RequestsFit'
    BY DEF TypeOK, SetsFit, RequestsFit, Request, Acquired, AnswersAwaited, Answer
  <2>3. AnswersAwaited'
    BY DEF TypeOK, SetsFit, AnswersAwaited, Answer, Acquired
  <2> QED
    BY <2>1, <2>2, <2>3
<1>4. ASSUME NEW h \in Host, RenewFailed(r, h)
      PROVE  SetsFit' /\ RequestsFit' /\ AnswersAwaited'
  <2> USE <1>4 DEF RenewFailed
  <2>1. SetsFit'
    BY NamesAssumption DEF TypeOK, SetsFit, Acquired, Answer
  <2>2. RequestsFit'
    BY DEF TypeOK, SetsFit, RequestsFit, Request, Acquired, AnswersAwaited, Answer
  <2>3. AnswersAwaited'
    BY DEF TypeOK, SetsFit, AnswersAwaited, Answer, Acquired
  <2> QED
    BY <2>1, <2>2, <2>3
<1>5. ASSUME RoundDrained(r)
      PROVE  SetsFit' /\ RequestsFit' /\ AnswersAwaited'
  <2> USE <1>5 DEF RoundDrained, ReportLoss
  <2>1. SetsFit'
    BY NamesAssumption DEF TypeOK, SetsFit, Acquired, Answer
  <2>2. RequestsFit'
    BY DEF TypeOK, SetsFit, RequestsFit, Request, Acquired, AnswersAwaited, Answer
  <2>3. AnswersAwaited'
    BY DEF TypeOK, SetsFit, AnswersAwaited, Answer, Acquired
  <2> QED
    BY <2>1, <2>2, <2>3
<1>6. ASSUME WatchDeadlines(r)
      PROVE  SetsFit' /\ RequestsFit' /\ AnswersAwaited'
  <2> USE <1>6 DEF WatchDeadlines, ReportLoss
  <2>1. SetsFit'
    BY NamesAssumption DEF TypeOK, SetsFit, Acquired, Answer
  <2>2. RequestsFit'
    BY DEF TypeOK, SetsFit, RequestsFit, Request, Acquired, AnswersAwaited, Answer
  <2>3. AnswersAwaited'
    BY DEF TypeOK, SetsFit, AnswersAwaited, Answer, Acquired
  <2> QED
    BY <2>1, <2>2, <2>3
<1>7. ASSUME StopRenewal(r)
      PROVE  SetsFit' /\ RequestsFit' /\ AnswersAwaited'
  <2> USE <1>7 DEF StopRenewal
  <2>1. SetsFit'
    BY NamesAssumption DEF TypeOK, SetsFit, Acquired, Answer
  <2>2. RequestsFit'
    BY DEF TypeOK, SetsFit, RequestsFit, Request, Acquired, AnswersAwaited, Answer
  <2>3. AnswersAwaited'
    BY DEF TypeOK, SetsFit, AnswersAwaited, Answer, Acquired
  <2> QED
    BY <2>1, <2>2, <2>3
<1> QED
  BY <1>1, <1>2, <1>3, <1>4, <1>5, <1>6, <1>7 DEF RenewStep

\* the extends of child processes,
LEMMA ExtendUnderWay ==
  ASSUME UnderWay, NEW r \in Run, ExtendStep(r)
  PROVE  SetsFit' /\ RequestsFit' /\ AnswersAwaited'
<1> USE DEF UnderWay, setVars, leaseVars, renewVars
<1>1. ASSUME NEW h \in Host, NEW lease \in Declared, SendExtend(r, h, lease)
      PROVE  SetsFit' /\ RequestsFit' /\ AnswersAwaited'
  <2> USE <1>1 DEF SendExtend, Send
  <2>1. SetsFit'
    BY NamesAssumption DEF TypeOK, SetsFit, Acquired, Answer
  <2>2. RequestsFit'
    BY DEF TypeOK, SetsFit, RequestsFit, Request, Acquired, AnswersAwaited, Answer
  <2>3. AnswersAwaited'
    BY DEF TypeOK, SetsFit, AnswersAwaited, Answer, Acquired
  <2> QED
    BY <2>1, <2>2, <2>3
<1>2. ASSUME NEW a \in answers, ExtendAnswered(r, a)
      PROVE  SetsFit' /\ RequestsFit' /\ AnswersAwaited'
  <2> USE <1>2 DEF ExtendAnswered
  <2>1. SetsFit'
    BY NamesAssumption DEF TypeOK, SetsFit, Acquired, Answer
  <2>2. RequestsFit'
    BY DEF TypeOK, SetsFit, RequestsFit, Request, Acquired, AnswersAwaited, Answer
  <2>3. AnswersAwaited'
    BY DEF TypeOK, SetsFit, AnswersAwaited, Answer, Acquired
  <2> QED
    BY <2>1, <2>2, <2>3
<1> QED
  BY <1>1, <1>2 DEF ExtendStep

\* a crash,
LEMMA CrashUnderWay ==
  ASSUME UnderWay, NEW r \in Run, Crash(r)
  PROVE  SetsFit' /\ RequestsFit' /\ AnswersAwaited'
<1> USE DEF UnderWay, Crash, Forget
<1>1. SetsFit'
  BY NamesAssumption DEF TypeOK, SetsFit, Acquired, Answer
<1>2. RequestsFit'
  BY DEF TypeOK, SetsFit, RequestsFit, Request, Acquired
<1>3. AnswersAwaited'
  BY DEF TypeOK, SetsFit, AnswersAwaited, Answer, Acquired
<1> QED
  BY <1>1, <1>2, <1>3

\* and every other step.
LEMMA NextUnderWay == UnderWay /\ [Next]_vars => UnderWay'
<1> SUFFICES ASSUME UnderWay, [Next]_vars PROVE SetsFit' /\ RequestsFit' /\ AnswersAwaited'
  BY NextType DEF UnderWay
<1>1. ASSUME NEW r \in Run, RunStep(r) PROVE SetsFit' /\ RequestsFit' /\ AnswersAwaited'
  BY <1>1, AcquireUnderWay, ReleaseUnderWay, RenewUnderWay, ExtendUnderWay, CrashUnderWay DEF RunStep
<1>2. ASSUME NEW q \in net, RunScript(q) PROVE SetsFit' /\ RequestsFit' /\ AnswersAwaited'
  <2> USE DEF UnderWay, Replies, setVars, leaseVars, renewVars
  <2>1. PICK a \in Answer : Replies(q, a)
    BY <1>2, ScriptReplies DEF RequestsFit
  <2>2. SetsFit'
    BY <2>1 DEF SetsFit
  <2>3. RequestsFit'
    BY <2>1 DEF TypeOK, RequestsFit, Request, Answer
  <2>4. AnswersAwaited'
    BY <2>1 DEF TypeOK, Answer, Request, AnswersAwaited, RequestsFit, Awaited
  <2> QED
    BY <2>2, <2>3, <2>4
<1>3. ASSUME NEW q \in net, Drop(q) PROVE SetsFit' /\ RequestsFit' /\ AnswersAwaited'
  BY <1>3 DEF UnderWay, Drop, SetsFit, RequestsFit, AnswersAwaited, setVars, leaseVars, renewVars
<1>4. ASSUME NEW f \in File, OperatorUnlock(f) PROVE SetsFit' /\ RequestsFit' /\ AnswersAwaited'
  BY <1>4 DEF UnderWay, OperatorUnlock, SetsFit, RequestsFit, AnswersAwaited, setVars, leaseVars, renewVars
<1>5. CASE Tick
  <2>1. RequestsFit'
    BY <1>5 DEF UnderWay, Tick, TypeOK, RequestsFit, Request, setVars, leaseVars, renewVars
  <2> QED
    BY <1>5, <2>1 DEF UnderWay, Tick, SetsFit, AnswersAwaited, setVars, leaseVars, renewVars
<1>6. CASE UNCHANGED vars
  BY <1>6 DEF UnderWay, SetsFit, RequestsFit, AnswersAwaited, vars, setVars, leaseVars, renewVars
<1> QED
  BY <1>1, <1>2, <1>3, <1>4, <1>5, <1>6 DEF Next

(***************************************************************************)
(* A Set that ended leaves no record behind.                               *)
(***************************************************************************)

\* The hosts on which a record of r may be, for all that r knows.
Owed(r) ==
  {h \in Host : \/ h \in held[r] \cup fresh[r] \cup unsettled[r] \/ h = await[r]
                \/ h \in todo[r] /\ phase[r] \in {"undoing", "releasing"}}

\* A Set that waits for its command, or ended, has nothing left to do.
Idle ==
  \A r \in Run : phase[r] \in {"held", "settled", "over"} => todo[r] = {} /\ await[r] = NoHost

RecordsOwed ==
  \A r \in Run, f \in File :
    phase[r] # "dead" /\ file[f].holder = r => \E h \in Owed(r) : Target[h] = f

\* An acquire that outlives its loop was given up with an error.
LateAcquires ==
  \A q \in net :
    q.op = "acquire" /\ phase[q.run] # "dead" =>
      q.host \in unsettled[q.run] \/ phase[q.run] \in {"acquiring", "adding"}

\* What an answer says of the record still holds when its process reads it.
AnswersHold ==
  \A a \in answers :
    /\ a.op = "release" => phase[a.run] # "dead"
    /\ a.op = "release" /\ file[Target[a.host]].holder = a.run =>
         \E h \in unsettled[a.run] : Target[h] = Target[a.host]
    /\ a.op = "acquire" /\ ~a.ok => file[Target[a.host]].holder # a.run

Settled == Idle /\ RecordsOwed /\ LateAcquires /\ AnswersHold
ReleaseInv == UnderWay /\ Settled

\* A step of r leaves the Sets of the others alone; it sends in its own name
\* and takes answers away.
Alone(r) ==
  /\ \A s \in Run : s # r =>
       /\ phase'[s] = phase[s] /\ todo'[s] = todo[s] /\ await'[s] = await[s]
       /\ held'[s] = held[s] /\ fresh'[s] = fresh[s] /\ unsettled'[s] = unsettled[s]
  /\ answers' \subseteq answers
  /\ \A q \in net' \ net : q.run = r

LEMMA StepOfOne ==
  ASSUME TypeOK, NEW r \in Run, RunStep(r)
  PROVE  Alone(r)
<1>1. CASE AcquireStep(r)
  <2>1. ASSUME NEW hosts \in FirstHosts, Begin(r, hosts) PROVE Alone(r)
    BY <2>1 DEF Begin, TypeOK, Alone
  <2>2. ASSUME NEW hosts \in MoreHosts, BeginAdditional(r, hosts) PROVE Alone(r)
    BY <2>2 DEF BeginAdditional, TypeOK, Alone
  <2>3. ASSUME NEW h \in Host, SendAcquire(r, h) PROVE Alone(r)
    BY <2>3 DEF SendAcquire, Send, TypeOK, Alone
  <2>4. ASSUME NEW a \in answers, AcquireGranted(r, a) PROVE Alone(r)
    BY <2>4 DEF AcquireGranted, TypeOK, Alone
  <2>5. ASSUME NEW a \in answers, AcquireRefused(r, a) PROVE Alone(r)
    BY <2>5 DEF AcquireRefused, GiveBack, TypeOK, Alone
  <2>6. CASE AcquireFailed(r)
    BY <2>6 DEF AcquireFailed, GiveBack, TypeOK, Alone
  <2>7. CASE Adopt(r)
    BY <2>7 DEF Adopt, TypeOK, Alone
  <2>8. CASE AdoptFailed(r)
    BY <2>8 DEF AdoptFailed, GiveBack, TypeOK, Alone
  <2> QED
    BY <1>1, <2>1, <2>2, <2>3, <2>4, <2>5, <2>6, <2>7, <2>8 DEF AcquireStep
<1>2. CASE ReleaseStep(r)
  <2>1. CASE ReleaseAll(r)
    BY <2>1 DEF ReleaseAll, TypeOK, Alone
  <2>2. CASE Abandon(r)
    BY <2>2 DEF Abandon, TypeOK, Alone
  <2>3. ASSUME NEW h \in Host, SendRelease(r, h) PROVE Alone(r)
    BY <2>3 DEF SendRelease, Send, TypeOK, Alone
  <2>4. ASSUME NEW a \in answers, ReleaseAnswered(r, a) PROVE Alone(r)
    BY <2>4 DEF ReleaseAnswered, TypeOK, Alone
  <2>5. CASE ReleaseFailed(r)
    BY <2>5 DEF ReleaseFailed, TypeOK, Alone
  <2>6. CASE ReleaseDone(r)
    BY <2>6 DEF ReleaseDone, TypeOK, Alone
  <2> QED
    BY <1>2, <2>1, <2>2, <2>3, <2>4, <2>5, <2>6 DEF ReleaseStep
<1>3. CASE RenewStep(r)
  <2>1. UNCHANGED <<setVars, unsettled>> /\ answers' \subseteq answers
    BY <1>3 DEF RenewStep, StartRenewal, RenewRound, RenewAnswered, RenewFailed, RoundDrained,
       WatchDeadlines, StopRenewal, ReportLoss
  <2>2. \A q \in net' \ net : q.run = r
    BY <1>3 DEF RenewStep, StartRenewal, RenewRound, Send, RenewAnswered, RenewFailed, RoundDrained,
       WatchDeadlines, StopRenewal
  <2> QED
    BY <2>1, <2>2 DEF Alone, setVars
<1>4. CASE ExtendStep(r)
  <2>1. UNCHANGED <<setVars, unsettled>> /\ answers' \subseteq answers
    BY <1>4 DEF ExtendStep, SendExtend, ExtendAnswered
  <2>2. \A q \in net' \ net : q.run = r
    <3>1. ASSUME NEW h \in Host, NEW lease \in Declared, SendExtend(r, h, lease)
          PROVE  \A q \in net' \ net : q.run = r
      BY <3>1 DEF SendExtend, Send
    <3>2. ASSUME NEW a \in answers, ExtendAnswered(r, a) PROVE net' = net
      BY <3>2 DEF ExtendAnswered
    <3> QED
      BY <1>4, <3>1, <3>2 DEF ExtendStep
  <2> QED
    BY <2>1, <2>2 DEF Alone, setVars
<1>5. CASE Crash(r)
  BY <1>5 DEF Crash, TypeOK, Alone
<1> QED
  BY <1>1, <1>2, <1>3, <1>4, <1>5 DEF RunStep

\* What a step of r owes: a host leaves the Set only with an answer.
Accounts(r) ==
  /\ phase[r] # "dead"
  /\ \A h \in Owed(r) :
       \/ h \in Owed(r)'
       \/ \E a \in answers : /\ a.run = r /\ a.host = h
                             /\ a.op = "release" \/ (a.op = "acquire" /\ ~a.ok)
  /\ phase'[r] \in {"held", "settled", "over"} => todo'[r] = {} /\ await'[r] = NoHost
  /\ unsettled[r] \subseteq unsettled'[r]
  /\ \A q \in net : q.run = r /\ q.op = "acquire" =>
       q.host \in unsettled'[r] \/ phase'[r] \in {"acquiring", "adding"}
  /\ \A q \in net' \ net : q.op = "acquire" => phase'[r] \in {"acquiring", "adding"}

LEMMA StepAccounts ==
  ASSUME ReleaseInv, NEW r \in Run, RunStep(r), phase'[r] # "dead"
  PROVE  Accounts(r)
<1>0. \A q \in net : q.run = r /\ q.op = "acquire" => q.host \in Host
  BY DEF TypeOK, Request, ReleaseInv, Settled, UnderWay, setVars, Accounts
<1>1. CASE AcquireStep(r)
  <2>1. ASSUME NEW hosts \in FirstHosts, Begin(r, hosts) PROVE Accounts(r)
    BY <2>1 DEF Begin, TypeOK, Owed, RequestsFit, ReleaseInv, Settled, UnderWay, setVars, Accounts
  <2>2. ASSUME NEW hosts \in MoreHosts, BeginAdditional(r, hosts) PROVE Accounts(r)
    BY <2>2 DEF BeginAdditional, TypeOK, Owed, LateAcquires, ReleaseInv, Settled, UnderWay, setVars, Accounts
  <2>3. ASSUME NEW h \in Host, SendAcquire(r, h) PROVE Accounts(r)
    BY <2>3, NamesAssumption DEF SendAcquire, Send, TypeOK, Owed, ReleaseInv, Settled, UnderWay, setVars, Accounts
  <2>4. ASSUME NEW a \in answers, AcquireGranted(r, a) PROVE Accounts(r)
    BY <2>4, NamesAssumption DEF AcquireGranted, Answered, TypeOK, Owed, ReleaseInv, Settled, UnderWay, setVars, Accounts
  <2>5. ASSUME NEW a \in answers, AcquireRefused(r, a) PROVE Accounts(r)
    BY <2>5, NamesAssumption DEF AcquireRefused, Answered, GiveBack, TypeOK, Owed, RequestsFit, SetsFit, ReleaseInv, Settled, UnderWay, setVars, Accounts
  <2>6. CASE AcquireFailed(r)
    BY <2>6, NamesAssumption DEF AcquireFailed, GiveBack, TypeOK, Owed, RequestsFit, SetsFit, ReleaseInv, Settled, UnderWay, setVars, Accounts
  <2>7. CASE Adopt(r)
    BY <2>7, <1>0, NamesAssumption DEF Adopt, TypeOK, Owed, RequestsFit, SetsFit, ReleaseInv, Settled, UnderWay, setVars, Accounts
  <2>8. CASE AdoptFailed(r)
    BY <2>8, <1>0, NamesAssumption DEF AdoptFailed, GiveBack, TypeOK, Owed, RequestsFit, SetsFit, ReleaseInv, Settled, UnderWay, setVars, Accounts
  <2> QED
    BY <1>1, <2>1, <2>2, <2>3, <2>4, <2>5, <2>6, <2>7, <2>8 DEF AcquireStep
<1>2. CASE ReleaseStep(r)
  <2>1. CASE ReleaseAll(r)
    BY <2>1 DEF ReleaseAll, TypeOK, Owed, Idle, LateAcquires, SetsFit, ReleaseInv, Settled, UnderWay, setVars, Accounts
  <2>2. CASE Abandon(r)
    BY <2>2 DEF Abandon, TypeOK, Owed, Idle, LateAcquires, SetsFit, ReleaseInv, Settled, UnderWay, setVars, Accounts
  <2>3. ASSUME NEW h \in Host, SendRelease(r, h) PROVE Accounts(r)
    <3>1. \A g \in Owed(r) : g \in Owed(r)'
      BY <2>3, NamesAssumption DEF SendRelease, TypeOK, Owed, ReleaseInv, UnderWay
    <3>2. phase[r] # "dead" /\ phase'[r] \notin {"held", "settled", "over"}
      BY <2>3 DEF SendRelease
    <3>3. unsettled[r] \subseteq unsettled'[r]
      BY <2>3 DEF SendRelease
    <3>4. \A q \in net : q.run = r /\ q.op = "acquire" => q.host \in unsettled'[r]
      BY <2>3 DEF SendRelease, ReleaseInv, Settled, LateAcquires
    <3>5. \A q \in net' \ net : q.op # "acquire"
      BY <2>3 DEF SendRelease, Send
    <3> QED
      BY <3>1, <3>2, <3>3, <3>4, <3>5 DEF Accounts
  <2>4. ASSUME NEW a \in answers, ReleaseAnswered(r, a) PROVE Accounts(r)
    BY <2>4, NamesAssumption DEF ReleaseAnswered, Answered, TypeOK, Owed, LateAcquires, Idle, AnswersAwaited, AnswersHold, ReleaseInv, Settled, UnderWay, setVars, Accounts
  <2>5. CASE ReleaseFailed(r)
    BY <2>5 DEF ReleaseFailed, TypeOK, Owed, LateAcquires, ReleaseInv, Settled, UnderWay, setVars, Accounts
  <2>6. CASE ReleaseDone(r)
    BY <2>6 DEF ReleaseDone, TypeOK, Owed, LateAcquires, ReleaseInv, Settled, UnderWay, setVars, Accounts
  <2> QED
    BY <1>2, <2>1, <2>2, <2>3, <2>4, <2>5, <2>6 DEF ReleaseStep
<1>3. CASE RenewStep(r)
  <2>1. UNCHANGED <<setVars, unsettled>>
    BY <1>3 DEF RenewStep, StartRenewal, RenewRound, RenewAnswered, RenewFailed, RoundDrained,
       WatchDeadlines, StopRenewal
  <2>2. \A q \in net' \ net : q.op # "acquire"
    BY <1>3 DEF RenewStep, StartRenewal, RenewRound, Send, RenewAnswered, RenewFailed, RoundDrained,
       WatchDeadlines, StopRenewal
  <2> QED
    BY <2>1, <2>2 DEF Owed, Idle, LateAcquires, ReleaseInv, Settled, UnderWay, setVars, Accounts
<1>4. CASE ExtendStep(r)
  <2>1. UNCHANGED <<setVars, unsettled>>
    BY <1>4 DEF ExtendStep, SendExtend, ExtendAnswered
  <2>2. \A q \in net' \ net : q.op # "acquire"
    <3>1. ASSUME NEW h \in Host, NEW lease \in Declared, SendExtend(r, h, lease)
          PROVE  \A q \in net' \ net : q.op # "acquire"
      BY <3>1 DEF SendExtend, Send
    <3>2. ASSUME NEW a \in answers, ExtendAnswered(r, a) PROVE net' = net
      BY <3>2 DEF ExtendAnswered
    <3> QED
      BY <1>4, <3>1, <3>2 DEF ExtendStep
  <2> QED
    BY <2>1, <2>2 DEF Owed, Idle, LateAcquires, ReleaseInv, Settled, UnderWay, setVars, Accounts
<1>5. CASE Crash(r)
  BY <1>5 DEF Crash, TypeOK, ReleaseInv, Settled, UnderWay, setVars, Accounts
<1> QED
  BY <1>1, <1>2, <1>3, <1>4, <1>5 DEF RunStep

\* Only a crash makes a process a dead one, and it takes all its answers along.
LEMMA OnlyCrashKills ==
  ASSUME ReleaseInv, NEW r \in Run, RunStep(r), phase'[r] = "dead"
  PROVE  \A a \in answers' : a.run = r => a.op # "release"
<1>1. CASE phase[r] = "dead"
  <2>1. answers' \subseteq answers
    BY StepOfOne DEF ReleaseInv, UnderWay, Alone
  <2> QED
    BY <1>1, <2>1 DEF ReleaseInv, Settled, AnswersHold
<1>2. CASE Crash(r)
  BY <1>2 DEF Crash
<1>3. CASE phase[r] # "dead" /\ ~Crash(r)
  <2>1. phase \in [Run -> Phases]
    BY DEF ReleaseInv, UnderWay, TypeOK
  <2>2. CASE AcquireStep(r)
    <3>1. ASSUME NEW hosts \in FirstHosts, Begin(r, hosts) PROVE FALSE
      BY <2>1, <3>1 DEF Begin
    <3>2. ASSUME NEW hosts \in MoreHosts, BeginAdditional(r, hosts) PROVE FALSE
      BY <2>1, <3>2 DEF BeginAdditional
    <3>3. ASSUME NEW h \in Host, SendAcquire(r, h) PROVE FALSE
      BY <1>3, <3>3 DEF SendAcquire
    <3>4. ASSUME NEW a \in answers, AcquireGranted(r, a) PROVE FALSE
      BY <1>3, <3>4 DEF AcquireGranted
    <3>5. ASSUME NEW a \in answers, AcquireRefused(r, a) PROVE FALSE
      BY <2>1, <3>5 DEF AcquireRefused, GiveBack
    <3>6. CASE AcquireFailed(r)
      BY <2>1, <3>6 DEF AcquireFailed, GiveBack
    <3>7. CASE Adopt(r)
      BY <2>1, <3>7 DEF Adopt
    <3>8. CASE AdoptFailed(r)
      BY <2>1, <3>8 DEF AdoptFailed, GiveBack
    <3> QED
      BY <2>2, <3>1, <3>2, <3>3, <3>4, <3>5, <3>6, <3>7, <3>8 DEF AcquireStep
  <2>3. CASE ReleaseStep(r)
    <3>1. CASE ReleaseAll(r)
      BY <2>1, <3>1 DEF ReleaseAll
    <3>2. CASE Abandon(r)
      BY <2>1, <3>2 DEF Abandon
    <3>3. ASSUME NEW h \in Host, SendRelease(r, h) PROVE FALSE
      BY <1>3, <3>3 DEF SendRelease
    <3>4. ASSUME NEW a \in answers, ReleaseAnswered(r, a) PROVE FALSE
      BY <1>3, <3>4 DEF ReleaseAnswered
    <3>5. CASE ReleaseFailed(r)
      BY <1>3, <3>5 DEF ReleaseFailed
    <3>6. CASE ReleaseDone(r)
      BY <2>1, <3>6 DEF ReleaseDone
    <3> QED
      BY <2>3, <3>1, <3>2, <3>3, <3>4, <3>5, <3>6 DEF ReleaseStep
  <2>4. CASE RenewStep(r)
    <3>1. UNCHANGED setVars
      BY <2>4 DEF RenewStep, StartRenewal, RenewRound, RenewAnswered, RenewFailed, RoundDrained,
         WatchDeadlines, StopRenewal
    <3> QED
      BY <1>3, <3>1 DEF setVars
  <2>5. CASE ExtendStep(r)
    <3>1. UNCHANGED setVars
      BY <2>5 DEF ExtendStep, SendExtend, ExtendAnswered
    <3> QED
      BY <1>3, <3>1 DEF setVars
  <2> QED
    BY <1>3, <2>2, <2>3, <2>4, <2>5 DEF RunStep
<1> QED
  BY <1>1, <1>2, <1>3

\* A step of a Set keeps the account of what it owes.
LEMMA RunSettled ==
  ASSUME ReleaseInv, NEW r \in Run, RunStep(r)
  PROVE  Settled'
<1>1. Alone(r)
  BY StepOfOne DEF ReleaseInv, UnderWay
<1>2. phase'[r] # "dead" => Accounts(r)
  BY StepAccounts
<1>3. file' = file
  BY RunKeepsFiles
<1>4. phase'[r] = "dead" => \A a \in answers' : a.run = r => a.op # "release"
  BY OnlyCrashKills
<1>5. Idle'
  BY <1>1, <1>2 DEF ReleaseInv, Settled, Idle, Alone, Accounts
<1>6. RecordsOwed'
  <2> SUFFICES ASSUME NEW s \in Run, NEW f \in File, phase'[s] # "dead", file[f].holder = s
               PROVE  \E h \in Owed(s)' : Target[h] = f
    BY <1>3 DEF RecordsOwed
  <2>1. CASE s # r
    <3>1. PICK h \in Owed(s) : Target[h] = f
      BY <1>1, <2>1 DEF ReleaseInv, Settled, RecordsOwed, Alone
    <3>2. h \in Owed(s)'
      BY <1>1, <2>1 DEF Owed, Alone
    <3> QED
      BY <3>1, <3>2
  <2>2. CASE s = r
    <3>1. Accounts(r)
      BY <1>2, <2>2
    <3>2. PICK h \in Owed(r) : Target[h] = f
      BY <2>2, <3>1 DEF ReleaseInv, Settled, RecordsOwed, Accounts
    <3>3. CASE h \in Owed(r)'
      BY <2>2, <3>2, <3>3
    <3>4. CASE h \notin Owed(r)'
      <4>1. PICK a \in answers : /\ a.run = r /\ a.host = h
                                 /\ a.op = "release" \/ (a.op = "acquire" /\ ~a.ok)
        BY <3>1, <3>4 DEF Accounts
      <4>2. PICK g \in unsettled[r] : Target[g] = f
        BY <2>2, <3>2, <4>1 DEF ReleaseInv, Settled, AnswersHold
      <4>3. g \in unsettled'[r] /\ g \in Host
        BY <3>1 DEF Accounts, ReleaseInv, UnderWay, TypeOK
      <4> QED
        BY <2>2, <4>2, <4>3 DEF Owed
    <3> QED
      BY <3>3, <3>4
  <2> QED
    BY <2>1, <2>2
<1>7. LateAcquires'
  <2> SUFFICES ASSUME NEW q \in net', q.op = "acquire", phase'[q.run] # "dead"
               PROVE  q.host \in unsettled'[q.run] \/ phase'[q.run] \in {"acquiring", "adding"}
    BY DEF LateAcquires
  <2>1. CASE q.run = r
    BY <1>2, <2>1 DEF Accounts
  <2>2. CASE q.run # r
    <3>1. q \in net /\ q.run \in Run
      BY <1>1, <2>2 DEF Alone, ReleaseInv, UnderWay, TypeOK, Request
    <3> QED
      BY <1>1, <2>2, <3>1 DEF ReleaseInv, Settled, LateAcquires, Alone
  <2> QED
    BY <2>1, <2>2
<1>8. AnswersHold'
  <2> SUFFICES ASSUME NEW a \in answers'
               PROVE  /\ a.op = "release" => phase'[a.run] # "dead"
                      /\ a.op = "release" /\ file[Target[a.host]].holder = a.run =>
                           \E h \in unsettled'[a.run] : Target[h] = Target[a.host]
                      /\ a.op = "acquire" /\ ~a.ok => file[Target[a.host]].holder # a.run
    BY <1>3 DEF AnswersHold
  <2>1. /\ a \in answers /\ a.run \in Run
        /\ a.op = "release" => phase[a.run] # "dead"
        /\ a.op = "release" /\ file[Target[a.host]].holder = a.run =>
             \E h \in unsettled[a.run] : Target[h] = Target[a.host]
        /\ a.op = "acquire" /\ ~a.ok => file[Target[a.host]].holder # a.run
    BY <1>1 DEF Alone, ReleaseInv, UnderWay, TypeOK, Answer, Settled, AnswersHold
  <2>2. a.op = "release" => phase'[a.run] # "dead" /\ unsettled[a.run] \subseteq unsettled'[a.run]
    <3>1. CASE a.run = r
      BY <1>2, <1>4, <3>1 DEF Accounts
    <3>2. CASE a.run # r
      BY <1>1, <2>1, <3>2 DEF Alone
    <3> QED
      BY <3>1, <3>2
  <2> QED
    BY <2>1, <2>2
<1> QED
  BY <1>5, <1>6, <1>7, <1>8 DEF Settled

\* What lock.sh changes: only the lock file of its host, and only an acquire
\* puts a run into it.
Records(q) ==
  /\ \A f \in File : file'[f].holder \in Run =>
       \/ file'[f].holder = file[f].holder
       \/ q.op = "acquire" /\ f = Target[q.host] /\ file'[f].holder = q.run
  /\ \A a \in answers' \ answers :
       /\ a.run = q.run /\ a.host = q.host /\ a.op = q.op /\ Awaited(q)
       /\ q.op = "release" => file'[Target[q.host]].holder # q.run
       /\ q.op = "acquire" /\ ~a.ok => file'[Target[q.host]].holder # q.run
  /\ net' \subseteq net
  /\ UNCHANGED <<phase, todo, await, held, fresh, unsettled>>

LEMMA ScriptRecords ==
  ASSUME TypeOK, NEW q \in net, RunScript(q)
  PROVE  Records(q)
<1>1. /\ q.run \in Run /\ q.host \in Host /\ Target[q.host] \in File
      /\ file \in [File -> [holder : Run \cup {NoRun}, expiry : Int]]
      /\ NoRun \notin Run
  BY NamesAssumption DEF TypeOK, Request
<1>2. ASSUME NEW e, WriteLock(q, e)
      PROVE  /\ \A f \in File : f # Target[q.host] => file'[f] = file[f]
             /\ file'[Target[q.host]].holder = q.run
             /\ \A a \in answers' \ answers :
                  a.run = q.run /\ a.host = q.host /\ a.op = q.op /\ a.ok /\ Awaited(q)
             /\ net' \subseteq net
             /\ UNCHANGED <<phase, todo, await, held, fresh, unsettled>>
  BY <1>1, <1>2 DEF WriteLock, Reply, Granted, setVars
<1>3. ASSUME Refuse(q)
      PROVE  /\ file' = file
             /\ \A a \in answers' \ answers :
                  a.run = q.run /\ a.host = q.host /\ a.op = q.op /\ Awaited(q)
             /\ net' \subseteq net
             /\ UNCHANGED <<phase, todo, await, held, fresh, unsettled>>
  BY <1>1, <1>3 DEF Refuse, Reply, Refusal, setVars
<1>4. CASE ScriptAcquire(q)
  <2>1. q.op = "acquire"
    BY <1>4 DEF ScriptAcquire
  <2>2. CASE Refuse(q) /\ file[Target[q.host]].holder \notin {NoRun, q.run}
    BY <1>3, <2>1, <2>2 DEF Records
  <2>3. ASSUME NEW e, WriteLock(q, e) PROVE Records(q)
    BY <1>2, <2>1, <2>3 DEF Records
  <2> QED
    BY <1>4, <2>2, <2>3 DEF ScriptAcquire
<1>5. CASE ScriptRenew(q)
  <2>1. q.op \in {"renew", "extend"}
    BY <1>5 DEF ScriptRenew
  <2>2. CASE Refuse(q)
    BY <1>3, <2>1, <2>2 DEF Records
  <2>3. ASSUME NEW e, WriteLock(q, e), file[Target[q.host]].holder = q.run PROVE Records(q)
    BY <1>2, <2>1, <2>3 DEF Records
  <2> QED
    BY <1>5, <2>2, <2>3 DEF ScriptRenew
<1>6. CASE ScriptRelease(q)
  <2>1. q.op = "release"
    BY <1>6 DEF ScriptRelease
  <2>2. /\ \A f \in File : f # Target[q.host] => file'[f] = file[f]
        /\ file'[Target[q.host]].holder # q.run
        /\ file'[Target[q.host]].holder \in {file[Target[q.host]].holder, NoRun}
    BY <1>1, <1>6 DEF ScriptRelease, NoRecord
  <2>3. /\ \A a \in answers' \ answers :
                  a.run = q.run /\ a.host = q.host /\ a.op = q.op /\ Awaited(q)
        /\ net' \subseteq net
        /\ UNCHANGED <<phase, todo, await, held, fresh, unsettled>>
    BY <1>1, <1>6 DEF ScriptRelease, Reply, Granted, setVars
  <2> QED
    BY <1>1, <2>1, <2>2, <2>3 DEF Records
<1> QED
  BY <1>4, <1>5, <1>6 DEF RunScript

\* A script keeps the account of what its Set owes.
LEMMA ScriptSettled ==
  ASSUME ReleaseInv, NEW q \in net, RunScript(q)
  PROVE  Settled'
<1>1. Records(q)
  BY ScriptRecords DEF ReleaseInv, UnderWay
<1>2. \A s \in Run : Owed(s)' = Owed(s)
  BY <1>1 DEF Records, Owed
<1>3. /\ q.run \in Run /\ q.host \in Host
      /\ \A a \in answers' : a.run \in Run /\ a.host \in Host
      /\ \A h \in Host : Target[h] \in File
  <2>1. answers' \subseteq Answer
    BY ScriptType DEF TypeOK, ReleaseInv, UnderWay
  <2> QED
    BY <2>1, NamesAssumption DEF ReleaseInv, UnderWay, TypeOK, Request, Answer
<1>4. q.op = "acquire" /\ phase[q.run] # "dead" =>
        \/ q.host \in unsettled[q.run]
        \/ phase[q.run] \in {"acquiring", "adding"} /\ q.host = await[q.run]
  BY DEF ReleaseInv, Settled, LateAcquires, UnderWay, RequestsFit
<1>5. Idle'
  BY <1>1 DEF ReleaseInv, Settled, Idle, Records
<1>6. RecordsOwed'
  <2> SUFFICES ASSUME NEW s \in Run, NEW f \in File, phase[s] # "dead", file'[f].holder = s
               PROVE  \E h \in Owed(s) : Target[h] = f
    BY <1>1, <1>2 DEF RecordsOwed, Records
  <2>1. CASE file[f].holder = s
    BY <2>1 DEF ReleaseInv, Settled, RecordsOwed
  <2>2. CASE q.op = "acquire" /\ f = Target[q.host] /\ s = q.run
    <3>1. q.host \in Owed(s)
      BY <1>3, <1>4, <2>2 DEF Owed
    <3> QED
      BY <2>2, <3>1
  <2> QED
    BY <1>1, <2>1, <2>2 DEF Records
<1>7. LateAcquires'
  BY <1>1 DEF ReleaseInv, Settled, LateAcquires, Records
<1>8. AnswersHold'
  <2> SUFFICES ASSUME NEW a \in answers'
               PROVE  /\ a.op = "release" => phase[a.run] # "dead"
                      /\ a.op = "release" /\ file'[Target[a.host]].holder = a.run =>
                           \E h \in unsettled[a.run] : Target[h] = Target[a.host]
                      /\ a.op = "acquire" /\ ~a.ok => file'[Target[a.host]].holder # a.run
    BY <1>1 DEF AnswersHold, Records
  <2>1. CASE a \in answers
    <3>1. /\ a.op = "release" => /\ phase[a.run] # "dead"
                                 /\ phase[a.run] \notin {"acquiring", "adding"}
          /\ a.op = "release" /\ file[Target[a.host]].holder = a.run =>
               \E h \in unsettled[a.run] : Target[h] = Target[a.host]
          /\ a.op = "acquire" /\ ~a.ok => file[Target[a.host]].holder # a.run
          /\ a.op = "acquire" => phase[a.run] \in {"acquiring", "adding"}
      BY <2>1 DEF ReleaseInv, Settled, AnswersHold, UnderWay, AnswersAwaited
    <3>2. CASE file'[Target[a.host]].holder = a.run /\ file[Target[a.host]].holder # a.run
      <4>1. q.op = "acquire" /\ Target[a.host] = Target[q.host] /\ a.run = q.run
        BY <1>1, <1>3, <3>2 DEF Records
      <4>2. CASE a.op = "release"
        BY <1>4, <3>1, <4>1, <4>2
      <4>3. CASE a.op = "acquire"
        <5>1. phase[q.run] \in {"acquiring", "adding"} => \A b \in answers : b.run = q.run => b.op # "acquire"
          BY <4>1 DEF ReleaseInv, UnderWay, RequestsFit
        <5> QED
          BY <2>1, <3>1, <4>1, <4>3, <5>1
      <4> QED
        BY <3>1, <4>2, <4>3
    <3> QED
      BY <3>1, <3>2
  <2>2. CASE a \notin answers
    BY <1>1, <2>2 DEF Records, Awaited
  <2> QED
    BY <2>1, <2>2
<1> QED
  BY <1>5, <1>6, <1>7, <1>8 DEF Settled

\* A step that changes no Set, answers nobody, sends nothing and puts no run
\* into a lock file.
Quiet ==
  /\ UNCHANGED <<setVars, unsettled, answers>>
  /\ net' \subseteq net
  /\ \A f \in File : file'[f].holder \in Run => file'[f].holder = file[f].holder

\* Every step keeps the account.
LEMMA NextReleaseInv == ReleaseInv /\ [Next]_vars => ReleaseInv'
<1> SUFFICES ASSUME ReleaseInv, [Next]_vars PROVE ReleaseInv'
  OBVIOUS
<1>1. UnderWay'
  BY NextUnderWay DEF ReleaseInv
<1>2. ASSUME NEW r \in Run, RunStep(r) PROVE Settled'
  BY <1>2, RunSettled
<1>3. ASSUME NEW q \in net, RunScript(q) PROVE Settled'
  BY <1>3, ScriptSettled
<1>4. ASSUME Quiet PROVE Settled'
  <2>1. \A s \in Run : Owed(s)' = Owed(s)
    BY <1>4 DEF Quiet, Owed, setVars
  <2>2. \A a \in answers : a.run \in Run /\ Target[a.host] \in File
    BY NamesAssumption DEF ReleaseInv, UnderWay, TypeOK, Answer
  <2>3. Idle'
    BY <1>4 DEF Quiet, ReleaseInv, Settled, Idle, setVars
  <2>4. RecordsOwed'
    BY <1>4, <2>1 DEF Quiet, ReleaseInv, Settled, RecordsOwed, setVars
  <2>5. LateAcquires'
    BY <1>4 DEF Quiet, ReleaseInv, Settled, LateAcquires, setVars
  <2>6. AnswersHold'
    BY <1>4, <2>2 DEF Quiet, ReleaseInv, Settled, AnswersHold, setVars
  <2> QED
    BY <2>3, <2>4, <2>5, <2>6 DEF Settled
<1>5. ASSUME NEW q \in net, Drop(q) PROVE Quiet
  BY <1>5 DEF Drop, Quiet
<1>6. ASSUME NEW f \in File, OperatorUnlock(f) PROVE Quiet
  <2>1. \A g \in File : file'[g].holder \in {file[g].holder, NoRun}
    BY <1>6 DEF OperatorUnlock, NoRecord, ReleaseInv, UnderWay, TypeOK
  <2> QED
    BY <1>6, <2>1, NamesAssumption DEF OperatorUnlock, Quiet
<1>7. ASSUME Tick PROVE Quiet
  BY <1>7 DEF Tick, Quiet
<1>8. ASSUME UNCHANGED vars PROVE Quiet
  BY <1>8 DEF vars, Quiet
<1>9. ASSUME Next PROVE Settled'
  BY <1>2, <1>3, <1>4, <1>5, <1>6, <1>7, <1>9 DEF Next
<1> QED
  BY <1>1, <1>4, <1>8, <1>9 DEF ReleaseInv

\* No run has a record at first.
LEMMA InitReleaseInv == Init => ReleaseInv
<1> SUFFICES ASSUME Init PROVE ReleaseInv
  OBVIOUS
<1>1. TypeOK
  BY InitType
<1>2. SetsFit /\ RequestsFit /\ AnswersAwaited
  BY NamesAssumption DEF Init, SetsFit, RequestsFit, AnswersAwaited
<1>3. Settled
  BY NamesAssumption DEF Init, Settled, Idle, RecordsOwed, LateAcquires, AnswersHold, NoRecord
<1> QED
  BY <1>1, <1>2, <1>3 DEF ReleaseInv, UnderWay

\* A Set that ended owes nothing but what it could not settle.
LEMMA ReleasedByAccount == ReleaseInv => ReleasedForGood
<1> SUFFICES ASSUME ReleaseInv, NEW r \in Run, phase[r] = "over",
                    NEW f \in File, file[f].holder = r
             PROVE  \E h \in unsettled[r] : Target[h] = f
  BY DEF ReleasedForGood
<1>1. PICK h \in Owed(r) : Target[h] = f
  BY DEF ReleaseInv, Settled, RecordsOwed
<1>2. held[r] = {} /\ fresh[r] = {}
  BY DEF ReleaseInv, UnderWay, SetsFit, Acquired
<1>3. todo[r] = {} /\ await[r] = NoHost
  BY DEF ReleaseInv, Settled, Idle
<1>4. h \in unsettled[r]
  BY <1>1, <1>2, <1>3, NamesAssumption DEF Owed
<1> QED
  BY <1>1, <1>4

\* ReleasedForGood holds in every reachable state, also when the operator
\* deletes records and when one lock file has several names.
THEOREM ReleasedStays == Spec => []ReleasedForGood
<1>1. Spec => []ReleaseInv
  BY InitReleaseInv, NextReleaseInv, PTL DEF Spec
<1> QED
  BY <1>1, ReleasedByAccount, PTL

\* r has not asked for a lock on h since it started, and may still do so.
Untouched(r, h) ==
  /\ phase[r] \in {"new", "acquiring", "held", "adding"}
  /\ h \notin held[r] \cup fresh[r] /\ h # await[r]

NotYet ==
  \A r \in Run, h \in Host : Untouched(r, h) =>
    /\ file[Target[h]].holder # r
    /\ \A q \in net : ~(q.run = r /\ q.host = h /\ q.op = "acquire")

\* A run asks for a lock once, and has none before the request runs.
Once ==
  \A q \in net : q.op = "acquire" =>
    /\ file[Target[q.host]].holder # q.run
    /\ \A p \in net : p.run = q.run /\ p.host = q.host /\ p.op = "acquire" => p = q

OnceInv == UnderWay /\ NotYet /\ Once

\* A step of r touches a host with the one acquire it sends.
Touches(r) ==
  /\ \A h \in Host : Untouched(r, h)' => Untouched(r, h)
  /\ \A q \in net' \ net : q.op = "acquire" =>
       /\ q.run = r /\ q.host \in Host
       /\ Untouched(r, q.host) /\ ~Untouched(r, q.host)'
       /\ \A p \in net' \ net : p = q

LEMMA StepTouches ==
  ASSUME UnderWay, NEW r \in Run, RunStep(r)
  PROVE  Touches(r)
<1> USE DEF UnderWay
<1>1. CASE AcquireStep(r)
  <2>1. ASSUME NEW hosts \in FirstHosts, Begin(r, hosts) PROVE Touches(r)
    BY <2>1 DEF Begin, TypeOK, Untouched, Touches
  <2>2. ASSUME NEW hosts \in MoreHosts, BeginAdditional(r, hosts) PROVE Touches(r)
    BY <2>2 DEF BeginAdditional, TypeOK, Untouched, Touches
  <2>3. ASSUME NEW h \in Host, SendAcquire(r, h) PROVE Touches(r)
    <3>1. Untouched(r, h) /\ ~Untouched(r, h)'
      BY <2>3, NamesAssumption DEF SendAcquire, TypeOK, Untouched, SetsFit
    <3>2. \A g \in Host : Untouched(r, g)' => Untouched(r, g)
      BY <2>3, NamesAssumption DEF SendAcquire, TypeOK, Untouched
    <3>3. \A q \in net' \ net : q = [run |-> r, host |-> h, op |-> "acquire", asked |-> now,
                                    lease |-> WholeSeconds(TTL)]
      BY <2>3 DEF SendAcquire, Send
    <3> QED
      BY <3>1, <3>2, <3>3 DEF Touches
  <2>4. ASSUME NEW a \in answers, AcquireGranted(r, a) PROVE Touches(r)
    BY <2>4 DEF AcquireGranted, Answered, TypeOK, Untouched, Touches
  <2>5. ASSUME NEW a \in answers, AcquireRefused(r, a) PROVE Touches(r)
    BY <2>5 DEF AcquireRefused, GiveBack, TypeOK, Untouched, Touches
  <2>6. CASE AcquireFailed(r)
    BY <2>6 DEF AcquireFailed, GiveBack, TypeOK, Untouched, Touches
  <2>7. CASE Adopt(r)
    BY <2>7 DEF Adopt, TypeOK, Untouched, Touches
  <2>8. CASE AdoptFailed(r)
    BY <2>8 DEF AdoptFailed, GiveBack, TypeOK, Untouched, Touches
  <2> QED
    BY <1>1, <2>1, <2>2, <2>3, <2>4, <2>5, <2>6, <2>7, <2>8 DEF AcquireStep
<1>2. CASE ReleaseStep(r)
  <2>1. CASE ReleaseAll(r)
    BY <2>1 DEF ReleaseAll, TypeOK, Untouched, Touches
  <2>2. CASE Abandon(r)
    BY <2>2 DEF Abandon, TypeOK, Untouched, Touches
  <2>3. ASSUME NEW h \in Host, SendRelease(r, h) PROVE Touches(r)
    <3>1. \A g \in Host : ~Untouched(r, g)'
      BY <2>3 DEF SendRelease, Untouched
    <3>2. \A q \in net' \ net : q.op # "acquire"
      BY <2>3 DEF SendRelease, Send
    <3> QED
      BY <3>1, <3>2 DEF Touches
  <2>4. ASSUME NEW a \in answers, ReleaseAnswered(r, a) PROVE Touches(r)
    BY <2>4 DEF ReleaseAnswered, Answered, TypeOK, Untouched, Touches, AnswersAwaited
  <2>5. CASE ReleaseFailed(r)
    BY <2>5 DEF ReleaseFailed, TypeOK, Untouched, Touches
  <2>6. CASE ReleaseDone(r)
    BY <2>6 DEF ReleaseDone, TypeOK, Untouched, Touches
  <2> QED
    BY <1>2, <2>1, <2>2, <2>3, <2>4, <2>5, <2>6 DEF ReleaseStep
<1>3. CASE RenewStep(r)
  <2>1. UNCHANGED setVars
    BY <1>3 DEF RenewStep, StartRenewal, RenewRound, RenewAnswered, RenewFailed, RoundDrained,
       WatchDeadlines, StopRenewal
  <2>2. \A q \in net' \ net : q.op # "acquire"
    BY <1>3 DEF RenewStep, StartRenewal, RenewRound, Send, RenewAnswered, RenewFailed, RoundDrained,
       WatchDeadlines, StopRenewal
  <2> QED
    BY <2>1, <2>2 DEF Untouched, Touches, setVars
<1>4. CASE ExtendStep(r)
  <2>1. UNCHANGED setVars
    BY <1>4 DEF ExtendStep, SendExtend, ExtendAnswered
  <2>2. \A q \in net' \ net : q.op # "acquire"
    <3>1. ASSUME NEW h \in Host, NEW lease \in Declared, SendExtend(r, h, lease)
          PROVE  \A q \in net' \ net : q.op # "acquire"
      BY <3>1 DEF SendExtend, Send
    <3>2. ASSUME NEW a \in answers, ExtendAnswered(r, a) PROVE net' = net
      BY <3>2 DEF ExtendAnswered
    <3> QED
      BY <1>4, <3>1, <3>2 DEF ExtendStep
  <2> QED
    BY <2>1, <2>2 DEF Untouched, Touches, setVars
<1>5. CASE Crash(r)
  BY <1>5 DEF Crash, TypeOK, Untouched, Touches
<1> QED
  BY <1>1, <1>2, <1>3, <1>4, <1>5 DEF RunStep

\* A step of a Set asks for no lock twice.
LEMMA RunOnce ==
  ASSUME OnceInv, NEW r \in Run, RunStep(r)
  PROVE  NotYet' /\ Once'
<1>1. Alone(r)
  BY StepOfOne DEF OnceInv, UnderWay
<1>2. Touches(r)
  BY StepTouches DEF OnceInv
<1>3. file' = file
  BY RunKeepsFiles
<1>4. \A s \in Run, h \in Host : Untouched(s, h)' => Untouched(s, h)
  <2> SUFFICES ASSUME NEW s \in Run, NEW h \in Host, Untouched(s, h)' PROVE Untouched(s, h)
    OBVIOUS
  <2>1. CASE s = r
    BY <1>2, <2>1 DEF Touches
  <2>2. CASE s # r
    BY <1>1, <2>2 DEF Alone, Untouched
  <2> QED
    BY <2>1, <2>2
<1>5. NotYet'
  <2> SUFFICES ASSUME NEW s \in Run, NEW h \in Host, Untouched(s, h)'
               PROVE  /\ file[Target[h]].holder # s
                      /\ \A q \in net' : ~(q.run = s /\ q.host = h /\ q.op = "acquire")
    BY <1>3 DEF NotYet
  <2>1. Untouched(s, h)
    BY <1>4
  <2>2. /\ file[Target[h]].holder # s
        /\ \A q \in net : ~(q.run = s /\ q.host = h /\ q.op = "acquire")
    BY <2>1 DEF OnceInv, NotYet
  <2>3. \A q \in net' \ net : ~(q.run = s /\ q.host = h /\ q.op = "acquire")
    BY <1>2 DEF Touches
  <2> QED
    BY <2>2, <2>3
<1>6. Once'
  <2> SUFFICES ASSUME NEW q \in net', q.op = "acquire"
               PROVE  /\ file[Target[q.host]].holder # q.run
                      /\ \A p \in net' : p.run = q.run /\ p.host = q.host /\ p.op = "acquire" => p = q
    BY <1>3 DEF Once
  <2>1. \A p \in net' \ net : p.op = "acquire" =>
          /\ file[Target[p.host]].holder # p.run
          /\ \A o \in net : ~(o.run = p.run /\ o.host = p.host /\ o.op = "acquire")
          /\ \A o \in net' \ net : o = p
    BY <1>2 DEF Touches, OnceInv, NotYet
  <2>2. CASE q \in net
    BY <2>1, <2>2 DEF OnceInv, Once
  <2>3. CASE q \notin net
    BY <2>1, <2>3
  <2> QED
    BY <2>2, <2>3
<1> QED
  BY <1>5, <1>6

\* A script that takes a lock uses up the one request for it.
LEMMA ScriptOnce ==
  ASSUME OneNamePerFile, OnceInv, NEW q \in net, RunScript(q)
  PROVE  NotYet' /\ Once'
<1>1. Records(q)
  BY ScriptRecords DEF OnceInv, UnderWay
<1>2. net' = net \ {q}
  BY DEF RunScript, ScriptAcquire, ScriptRenew, ScriptRelease, WriteLock, Refuse, Reply
<1>3. \A p \in net : p.run \in Run /\ p.host \in Host
  BY DEF OnceInv, UnderWay, TypeOK, Request
<1>4. \A s \in Run, h \in Host : Untouched(s, h)' = Untouched(s, h)
  BY <1>1 DEF Records, Untouched
<1>5. \A s \in Run, h \in Host : file'[Target[h]].holder = s =>
        file[Target[h]].holder = s \/ (q.op = "acquire" /\ q.run = s /\ q.host = h)
  BY <1>1, <1>3, NamesAssumption DEF Records, OneNamePerFile
<1>6. NotYet'
  BY <1>2, <1>4, <1>5 DEF OnceInv, NotYet
<1>7. Once'
  BY <1>2, <1>3, <1>5 DEF OnceInv, Once
<1> QED
  BY <1>6, <1>7

\* Every step keeps it.
LEMMA NextOnceInv ==
  ASSUME OneNamePerFile, OnceInv, [Next]_vars
  PROVE  OnceInv'
<1>1. UnderWay'
  BY NextUnderWay DEF OnceInv
<1>2. ASSUME NEW r \in Run, RunStep(r) PROVE NotYet' /\ Once'
  BY <1>2, RunOnce
<1>3. ASSUME NEW q \in net, RunScript(q) PROVE NotYet' /\ Once'
  BY <1>3, ScriptOnce
<1>4. ASSUME Quiet PROVE NotYet' /\ Once'
  <2>1. \A s \in Run, h \in Host : Untouched(s, h)' = Untouched(s, h)
    BY <1>4 DEF Quiet, setVars, Untouched
  <2>2. \A s \in Run, h \in Host : file'[Target[h]].holder = s => file[Target[h]].holder = s
    BY <1>4, NamesAssumption DEF Quiet
  <2>3. net' \subseteq net /\ \A p \in net : p.run \in Run /\ p.host \in Host
    BY <1>4 DEF Quiet, OnceInv, UnderWay, TypeOK, Request
  <2>4. NotYet'
    BY <2>1, <2>2, <2>3 DEF OnceInv, NotYet
  <2>5. Once'
    BY <2>2, <2>3 DEF OnceInv, Once
  <2> QED
    BY <2>4, <2>5
<1>5. ASSUME NEW q \in net, Drop(q) PROVE Quiet
  BY <1>5 DEF Drop, Quiet
<1>6. ASSUME NEW f \in File, OperatorUnlock(f) PROVE Quiet
  <2>1. \A g \in File : file'[g].holder \in {file[g].holder, NoRun}
    BY <1>6 DEF OperatorUnlock, NoRecord, OnceInv, UnderWay, TypeOK
  <2> QED
    BY <1>6, <2>1, NamesAssumption DEF OperatorUnlock, Quiet
<1>7. ASSUME Tick PROVE Quiet
  BY <1>7 DEF Tick, Quiet
<1>8. ASSUME UNCHANGED vars PROVE Quiet
  BY <1>8 DEF vars, Quiet
<1>9. ASSUME Next PROVE NotYet' /\ Once'
  BY <1>2, <1>3, <1>4, <1>5, <1>6, <1>7, <1>9 DEF Next
<1> QED
  BY <1>1, <1>4, <1>8, <1>9 DEF OnceInv

\* No run has asked for a lock at first.
LEMMA InitOnceInv == Init => OnceInv
<1> SUFFICES ASSUME Init PROVE OnceInv
  OBVIOUS
<1>1. UnderWay
  BY InitReleaseInv DEF ReleaseInv
<1>2. NotYet /\ Once
  BY NamesAssumption DEF Init, NotYet, Once, NoRecord
<1> QED
  BY <1>1, <1>2 DEF OnceInv

\* A record that keeps its run is written by its renewals only, which keep the
\* later expiry: the acquire of the run came first and is used up.
LEMMA StepShrinksNot ==
  ASSUME OnceInv, Next, NEW f \in File, file'[f].holder = file[f].holder
  PROVE  file'[f].expiry >= file[f].expiry
<1>1. file \in [File -> [holder : Run \cup {NoRun}, expiry : Int]]
  BY DEF OnceInv, UnderWay, TypeOK
<1>2. file[f].expiry \in Int
  BY <1>1
<1>3. file'[f] = file[f] => file'[f].expiry >= file[f].expiry
  BY <1>2
<1>4. ASSUME NEW r \in Run, RunStep(r) PROVE file' = file
  BY <1>4, RunKeepsFiles
<1>5. ASSUME NEW q \in net, RunScript(q) PROVE file'[f].expiry >= file[f].expiry
  <2>1. /\ q.run \in Run /\ q.host \in Host /\ q.lease \in Int /\ Target[q.host] \in File
        /\ NoRun \notin Run
    BY NamesAssumption DEF OnceInv, UnderWay, TypeOK, Request
  <2>2. CASE ScriptAcquire(q)
    <3>1. file[Target[q.host]].holder # q.run
      BY <2>2 DEF ScriptAcquire, OnceInv, Once
    <3>2. CASE Refuse(q)
      BY <1>3, <3>2 DEF Refuse
    <3>3. ASSUME NEW e, WriteLock(q, e) PROVE file'[f] = file[f]
      BY <1>1, <2>1, <3>1, <3>3 DEF WriteLock
    <3> QED
      BY <1>3, <2>2, <3>2, <3>3 DEF ScriptAcquire
  <2>3. CASE ScriptRenew(q)
    <3>1. CASE Refuse(q)
      BY <1>3, <3>1 DEF Refuse
    <3>2. CASE WriteLock(q, Later(file[Target[q.host]].expiry, HostClock(Target[q.host]) + q.lease))
      <4>1. CASE f = Target[q.host]
        <5>1. HostClock(f) \in Int
          BY HostClockLag DEF OnceInv, UnderWay
        <5>2. file'[f].expiry = Later(file[f].expiry, HostClock(f) + q.lease)
          BY <1>1, <3>2, <4>1 DEF WriteLock
        <5> QED
          BY <1>2, <2>1, <5>1, <5>2 DEF Later
      <4>2. CASE f # Target[q.host]
        BY <1>1, <1>3, <3>2, <4>2 DEF WriteLock
      <4> QED
        BY <4>1, <4>2
    <3> QED
      BY <2>3, <3>1, <3>2 DEF ScriptRenew
  <2>4. CASE ScriptRelease(q)
    BY <1>1, <1>3, <2>1, <2>4 DEF ScriptRelease, NoRecord
  <2> QED
    BY <1>5, <2>2, <2>3, <2>4 DEF RunScript
<1>6. ASSUME NEW q \in net, Drop(q) PROVE file' = file
  BY <1>6 DEF Drop
<1>7. ASSUME NEW g \in File, OperatorUnlock(g) PROVE file'[f] = file[f]
  BY <1>1, <1>7 DEF OperatorUnlock, NoRecord
<1>8. ASSUME Tick PROVE file' = file
  BY <1>8 DEF Tick
<1> QED
  BY <1>3, <1>4, <1>5, <1>6, <1>7, <1>8 DEF Next

\* ExpiryNeverShrinks holds of every step, also when the operator deletes
\* records, as long as no lock file has two names.
THEOREM ExpiryGrows ==
  ASSUME OneNamePerFile
  PROVE  Spec => ExpiryNeverShrinks
<1>1. OnceInv /\ [Next]_vars => OnceInv'
  BY NextOnceInv
<1>2. Spec => []OnceInv
  BY <1>1, InitOnceInv, PTL DEF Spec
<1>3. OnceInv /\ [Next]_vars =>
        [\A f \in File : file'[f].holder = file[f].holder => file'[f].expiry >= file[f].expiry]_vars
  BY StepShrinksNot
<1> QED
  BY <1>2, <1>3, PTL DEF Spec, ExpiryNeverShrinks

=========================
