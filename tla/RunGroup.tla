------------------------------ MODULE RunGroup ------------------------------
(***************************************************************************)
(* One command that configsctl runs as a process group, and its output     *)
(* (internal/procgroup, tofurun, internal/runlog).  RunGroup starts the    *)
(* command with a pipe for its output, waits for it, stops what is left of *)
(* its group and waits for the copy.  The copier writes each chunk to the  *)
(* run log and to the console, through a redactor of each.  Standard error *)
(* has a pipe, a copier and redactors of its own, which do the same.       *)
(***************************************************************************)
EXTENDS Redact

CONSTANTS
  Proc,             \* processes
  Leader,           \* the command itself
  Mode,             \* which of Modes the configsctl command uses
  MaxBytes,         \* bound of the model: bytes of output
  Capacity,         \* bytes that fit in the pipe
  ForksDuringScan,  \* a process may fork while the list of processes is read
  NoChunk           \* the copier has nothing to write

Modes == {"RunGroup", "Run", "Run on a terminal"}
Destination == {"log", "console"}

ASSUME RunGroupAssumption ==
  /\ Leader \in Proc
  /\ Mode \subseteq Modes
  /\ MaxBytes \in Nat /\ Capacity \in Nat \ {0}
  /\ ForksDuringScan \in BOOLEAN
  /\ NoChunk \notin [out : Seq([at : Nat, label : Nat]), upto : Nat]

VARIABLES
  mode,       \* the function that runs the command
  pc,         \* how far it has come
  canceled,   \* the context has ended
  proc,       \* proc[p]: "none", "live", "foreign" (it lives and runs as another
              \* user), "zero", "nonzero" or "signal"
  outside,    \* processes that have left the group
  waitErr,    \* the error of cmd.Wait: "none", "status" or "interrupted"
  unread,     \* processes whose stat the scan has still to read
  found,      \* the scan has found a member that lives
  stream,     \* what the processes have written
  taken,      \* how many bytes of it the copier has read
  reading,    \* the read end of the pipe is open
  copier,     \* "read", "log", "console" or "ended"
  chunk,      \* what the copier passes on, and where its buffer begins then
  base,       \* base[d]: offset of the first byte in the buffer of a redactor
  got,        \* got[d]: offset behind the last one
  shown,      \* shown[d]: the pieces a destination has
  closed,     \* the destinations that are closed
  copyErr,    \* the copier has recorded an error
  closeErr,   \* a redactor could not be flushed
  cut,        \* the read end was closed under the copier
  failed,     \* a destination has refused a write
  result      \* "none", "exit" with a status, or "incomplete"

groupVars == <<proc, outside>>
scanVars == <<unread, found>>
pipeVars == <<stream, taken, reading>>
writerVars == <<base, got, shown, closed>>
vars == <<mode, pc, canceled, waitErr, groupVars, scanVars, pipeVars, copier, chunk, writerVars,
          copyErr, closeErr, cut, failed, result>>

Live(p) == proc[p] \in {"live", "foreign"}
Members == {p \in Proc : Live(p) /\ p \notin outside}

\* The members that configsctl may send a signal.
Ours == {p \in Members : proc[p] = "live"}
Started == pc \notin {"start", "not started"}
Buffer(d) == SubSeq(stream, base[d] + 1, got[d])

Init ==
  /\ mode \in Mode
  /\ pc = "start" /\ canceled = FALSE /\ waitErr = "none"
  /\ proc = [p \in Proc |-> "none"] /\ outside = {}
  /\ unread = {} /\ found = FALSE
  /\ stream = <<>> /\ taken = 0 /\ reading = TRUE
  /\ copier = "read" /\ chunk = NoChunk
  /\ base = [d \in Destination |-> 0] /\ got = [d \in Destination |-> 0]
  /\ shown = [d \in Destination |-> <<>>] /\ closed = {}
  /\ copyErr = FALSE /\ closeErr = FALSE /\ cut = FALSE /\ failed = FALSE
  /\ result = "none"

-----------------------------------------------------------------------------
(***************************************************************************)
(* The processes.                                                          *)
(***************************************************************************)
Processes == UNCHANGED <<mode, pc, canceled, waitErr, scanVars, taken, reading, copier, chunk,
                         writerVars, copyErr, closeErr, cut, failed, result>>

\* With exec, perhaps of a program that runs as another user, and stays so.
Fork(p, q) ==
  /\ Live(p) /\ proc[q] = "none"
  /\ ForksDuringScan \/ pc \notin {"scan", "scan again"}
  /\ \E user \in {proc[p], "foreign"} : proc' = [proc EXCEPT ![q] = user]
  /\ outside' = IF p \in outside THEN outside \cup {q} ELSE outside
  /\ stream' = stream /\ Processes

\* setsid, or setpgid by a shell with job control; the pipe stays open.
Escape(p) ==
  /\ Live(p) /\ p \notin outside /\ p # Leader
  /\ outside' = outside \cup {p}
  /\ UNCHANGED <<proc, stream>> /\ Processes

\* Also the answer to SIGTERM, SIGINT or SIGPIPE, which a process may ignore.
Exit(p, status) ==
  /\ Live(p)
  /\ proc' = [proc EXCEPT ![p] = status]
  /\ UNCHANGED <<outside, stream>> /\ Processes

WriteByte(p, b) ==
  /\ Live(p) /\ mode = "RunGroup" /\ reading /\ copier # "ended"
  /\ Len(stream) < MaxBytes /\ Len(stream) - taken < Capacity
  /\ stream' = Append(stream, b)
  /\ UNCHANGED groupVars /\ Processes

\* SIGKILL to the group; the kernel lets no fork escape it.
KillMembers == proc' = [p \in Proc |-> IF p \in Ours THEN "signal" ELSE proc[p]]

-----------------------------------------------------------------------------
(***************************************************************************)
(* RunGroup.                                                               *)
(***************************************************************************)
Group == UNCHANGED <<mode, pipeVars, copier, chunk, writerVars, copyErr, closeErr, cut, failed>>

Cancel ==
  /\ ~canceled /\ result = "none"
  /\ canceled' = TRUE
  /\ UNCHANGED <<pc, waitErr, groupVars, scanVars, result>> /\ Group

\* openOutput: the log or the private file cannot be opened, or the scope of
\* a mutation is lost when its command is about to start.
OpenFails ==
  /\ pc = "start" /\ mode = "RunGroup"
  /\ pc' = "returned" /\ result' = "incomplete"
  /\ UNCHANGED <<canceled, waitErr, groupVars, scanVars>> /\ Group

Start ==
  /\ pc = "start"
  /\ proc' = [proc EXCEPT ![Leader] = "live"] /\ pc' = "wait"
  /\ UNCHANGED <<canceled, waitErr, outside, scanVars, result>> /\ Group

\* output.abort; the copier meets the end of the pipe.
StartFails ==
  /\ pc = "start"
  /\ pc' = "not started" /\ reading' = FALSE
  /\ UNCHANGED <<mode, canceled, waitErr, groupVars, scanVars, stream, taken, copier, chunk, writerVars,
                 copyErr, closeErr, cut, failed, result>>

Aborted ==
  /\ pc = "not started" /\ copier = "ended"
  /\ pc' = IF mode = "RunGroup" THEN "close console" ELSE "returned"
  /\ result' = "incomplete"
  /\ UNCHANGED <<canceled, waitErr, groupVars, scanVars>> /\ Group

\* os/exec kills the command StopGrace after the cancellation.
KillLeader ==
  /\ pc = "wait" /\ canceled /\ Live(Leader)
  /\ proc' = [proc EXCEPT ![Leader] = "signal"]
  /\ UNCHANGED <<pc, canceled, waitErr, outside, scanVars, result>> /\ Group

\* cmd.Wait returns.  When the command and its context have ended, os/exec may
\* have met either first, and has called Cancel only in the second case.
Waited ==
  /\ pc = "wait" /\ ~Live(Leader)
  /\ pc' = IF mode = "RunGroup" THEN "look" ELSE "ran"
  /\ waitErr' \in {IF proc[Leader] = "zero" THEN "none" ELSE "status"}
                  \cup {x \in {"interrupted"} : canceled}
  /\ UNCHANGED <<canceled, groupVars, scanVars, result>> /\ Group

\* Run: SIGKILL to the group, if Cancel was called.
EndRun ==
  /\ pc = "ran"
  /\ IF mode = "Run" /\ waitErr = "interrupted" THEN KillMembers ELSE proc' = proc
  /\ pc' = "returned"
  /\ result' = IF waitErr = "none" THEN "exit" ELSE "incomplete"
  /\ UNCHANGED <<canceled, waitErr, outside, scanVars>> /\ Group

\* liveMembers: the list of the processes, then the stat of each.
List ==
  /\ pc \in {"look", "poll"}
  /\ unread' = {p \in Proc : Live(p)} /\ found' = FALSE
  /\ pc' = IF pc = "look" THEN "scan" ELSE "scan again"
  /\ UNCHANGED <<canceled, waitErr, groupVars, result>> /\ Group

ReadStat(p) ==
  /\ pc \in {"scan", "scan again"} /\ p \in unread
  /\ unread' = unread \ {p}
  /\ found' = (found \/ p \in Members)
  /\ UNCHANGED <<pc, canceled, waitErr, groupVars, result>> /\ Group

\* The list cannot be read: kill with signal 0, which a zombie answers too.
AskKernel ==
  /\ pc \in {"look", "poll"}
  /\ \/ found' = TRUE
     \/ found' = FALSE /\ Members = {}
  /\ unread' = {}
  /\ pc' = IF pc = "look" THEN "scan" ELSE "scan again"
  /\ UNCHANGED <<canceled, waitErr, groupVars, result>> /\ Group

\* SIGTERM; an error ends the stop: the group has gone meanwhile, or all that
\* is left of it runs as another user.
Looked ==
  /\ pc = "scan" /\ unread = {}
  /\ pc' \in (IF found THEN {"select"} ELSE {"drain"})
               \cup {x \in {"drain"} : found /\ Ours = {}}
  /\ UNCHANGED <<canceled, waitErr, groupVars, scanVars, result>> /\ Group

Polled ==
  /\ pc = "scan again" /\ unread = {}
  /\ pc' = IF found THEN "select" ELSE "drain"
  /\ UNCHANGED <<canceled, waitErr, groupVars, scanVars, result>> /\ Group

\* The select of stopGroup: the next tick, or the end of the grace.
Tick ==
  /\ pc = "select"
  /\ pc' = "poll"
  /\ UNCHANGED <<canceled, waitErr, groupVars, scanVars, result>> /\ Group

\* A bug to be found: what outlives the grace is left to the next command.
LeaveGroup ==
  /\ pc = "select"
  /\ pc' = "drain"
  /\ UNCHANGED <<canceled, waitErr, groupVars, scanVars, result>> /\ Group

KillGroup ==
  /\ pc = "select"
  /\ KillMembers
  /\ pc' = "drain"
  /\ UNCHANGED <<canceled, waitErr, outside, scanVars, result>> /\ Group

-----------------------------------------------------------------------------
(***************************************************************************)
(* output.wait, and what Execute and Run make of the end.                  *)
(***************************************************************************)
Output == UNCHANGED <<mode, canceled, waitErr, groupVars, scanVars, stream, taken, copier, chunk, writerVars,
                      copyErr, closeErr, failed>>

\* StopGrace is over and the pipe is still open.
Abandon ==
  /\ pc = "drain" /\ copier # "ended"
  /\ pc' = "abandoned" /\ reading' = FALSE /\ cut' = TRUE
  /\ result' = result /\ Output

\* Execute and Run: an exit status counts if the command has one and the
\* context has not ended; a lost output hides behind a status.
Outcome(lost) ==
  IF \/ waitErr = "none" /\ ~lost
     \/ waitErr = "status" /\ ~canceled /\ proc[Leader] = "nonzero"
  THEN "exit" ELSE "incomplete"

\* A bug to be found: the end of the command is taken for that of its output.
CopiedEarly ==
  /\ pc \in {"drain", "abandoned"}
  /\ pc' = "close console" /\ reading' = FALSE
  /\ result' = Outcome(copyErr)
  /\ cut' = cut /\ Output

Copied ==
  /\ pc \in {"drain", "abandoned"} /\ copier = "ended"
  /\ pc' = "close console" /\ reading' = FALSE
  /\ result' = Outcome(copyErr)
  /\ cut' = cut /\ Output

\* A bug to be found: a copier in a write is waited for without a limit.
GiveUpNever ==
  /\ pc = "abandoned" /\ copier = "ended"
  /\ pc' = "close console"
  /\ result' = Outcome(TRUE)
  /\ UNCHANGED <<reading, cut>> /\ Output

\* The copier is still in a write 2 s later: errOutputOpen.
GiveUp ==
  /\ pc = "abandoned" /\ copier # "ended"
  /\ pc' = "close console"
  /\ result' = Outcome(TRUE)
  /\ UNCHANGED <<reading, cut>> /\ Output

\* output.close: the redactors give away what they hold, first the console's.
Closing(d) == pc = IF d = "console" THEN "close console" ELSE "close log"

Close(d) ==
  LET out == Rest(base[d], Buffer(d))
  IN /\ Closing(d)
     /\ closed' = closed \cup {d}
     /\ base' = [base EXCEPT ![d] = got[d]]
     /\ \/ /\ shown' = [shown EXCEPT ![d] = @ \o out]
           /\ UNCHANGED <<closeErr, failed>>
        \/ \E n \in 0..(Len(out) - 1) :
             /\ shown' = [shown EXCEPT ![d] = @ \o SubSeq(out, 1, n)]
             /\ closeErr' = TRUE /\ failed' = TRUE
     /\ pc' = IF d = "console" THEN "close log" ELSE "returned"
     /\ UNCHANGED <<mode, canceled, waitErr, groupVars, scanVars, pipeVars, copier, chunk, got,
                    copyErr, cut, result>>

-----------------------------------------------------------------------------
(***************************************************************************)
(* The copier.                                                             *)
(***************************************************************************)
Copy == UNCHANGED <<mode, pc, canceled, waitErr, groupVars, scanVars, stream, closed, closeErr, cut, result>>

\* redact.Writer.Write takes the bytes into its buffer and begins to pass on.
Begin(d, upto) ==
  LET data == SubSeq(stream, base[d] + 1, upto)
  IN /\ got' = [got EXCEPT ![d] = upto]
     /\ chunk' = [out |-> Emission(base[d], data), upto |-> base[d] + EmitEnd(data)]
     /\ copier' = d

TakeChunk ==
  /\ copier = "read" /\ reading
  /\ \E n \in (taken + 1)..Len(stream) : taken' = n /\ Begin("log", n)
  /\ UNCHANGED <<reading, base, shown, copyErr, failed>> /\ Copy

\* The end of the pipe: the processes have ended or closed their output, and
\* nobody writes to it again.
MeetsEnd ==
  /\ copier = "read" /\ taken = Len(stream) /\ Started
  /\ copier' = "ended"
  /\ UNCHANGED <<taken, reading, chunk, base, got, shown, copyErr, failed>> /\ Copy

\* configsctl has closed the read end: no error of the copy.
MeetsClosed ==
  /\ copier = "read" /\ ~reading
  /\ copier' = "ended"
  /\ UNCHANGED <<taken, reading, chunk, base, got, shown, copyErr, failed>> /\ Copy

\* The destination has taken the chunk.  If the redactor was closed meanwhile,
\* two goroutines use its buffer: the copier panics, or goes on.
Written ==
  /\ copier \in Destination
  /\ pc # "returned"
  /\ shown' = [shown EXCEPT ![copier] = @ \o chunk.out]
  /\ \/ /\ base' = IF copier \in closed THEN base ELSE [base EXCEPT ![copier] = chunk.upto]
        /\ IF copier = "log" THEN Begin("console", taken)
           ELSE copier' = "read" /\ chunk' = NoChunk /\ got' = got
        /\ UNCHANGED <<reading, copyErr>>
     \/ /\ copier \in closed
        /\ copier' = "ended" /\ chunk' = NoChunk /\ reading' = FALSE /\ copyErr' = TRUE
        /\ UNCHANGED <<base, got>>
  /\ UNCHANGED <<taken, failed>> /\ Copy

\* A bug to be found: an error of the destination that says "file already
\* closed" is taken for the closed read end.
RefusedQuietly(kind) ==
  /\ copier \in Destination /\ chunk.out # <<>>
  /\ \E n \in 0..(Len(chunk.out) - 1) :
       shown' = [shown EXCEPT ![copier] = @ \o SubSeq(chunk.out, 1, n)]
  /\ copier' = "ended" /\ chunk' = NoChunk /\ reading' = FALSE
  /\ copyErr' = (copyErr \/ kind # "closed") /\ failed' = TRUE
  /\ UNCHANGED <<taken, base, got>> /\ Copy

\* The destination fails or panics, perhaps after a part of the chunk; the
\* redactor keeps the whole of it.
Refused(kind) ==
  /\ copier \in Destination /\ chunk.out # <<>>
  /\ \E n \in 0..(Len(chunk.out) - 1) :
       shown' = [shown EXCEPT ![copier] = @ \o SubSeq(chunk.out, 1, n)]
  /\ copier' = "ended" /\ chunk' = NoChunk /\ reading' = FALSE
  /\ copyErr' = TRUE /\ failed' = TRUE
  /\ UNCHANGED <<taken, base, got>> /\ Copy
-----------------------------------------------------------------------------
Command ==
  \/ \E p \in Proc :
       \/ Escape(p)
       \/ \E q \in Proc : Fork(p, q)
       \/ \E status \in {"zero", "nonzero", "signal"} : Exit(p, status)
       \/ \E b \in Byte : WriteByte(p, b)

Main ==
  \/ OpenFails \/ Start \/ StartFails \/ Aborted \/ KillLeader \/ Waited \/ EndRun
  \/ List \/ (\E p \in Proc : ReadStat(p)) \/ AskKernel \/ Looked \/ Polled
  \/ Abandon \/ Copied \/ GiveUp

Copier ==
  \/ TakeChunk \/ MeetsEnd \/ MeetsClosed \/ Written
  \/ \E kind \in {"error", "closed"} : Refused(kind)

Next ==
  \/ Command \/ Cancel \/ Main \/ Tick \/ KillGroup \/ Copier
  \/ \E d \in Destination : Close(d)

Spec == Init /\ [][Next]_vars

\* configsctl goes on and its timers fire.  The select between the tick and
\* the timer that has fired takes the timer at some time.  Nothing is assumed
\* of the processes, nor of a destination: a write may never return.
FairSpec == Spec /\ WF_vars(Main) /\ WF_vars(MeetsClosed) /\ WF_vars(Tick) /\ SF_vars(KillGroup)

-----------------------------------------------------------------------------
(***************************************************************************)
(* Properties.                                                             *)
(***************************************************************************)
TypeOK ==
  /\ mode \in Modes
  /\ pc \in {"start", "not started", "wait", "ran", "look", "scan", "select", "poll", "scan again",
             "drain", "abandoned", "close console", "close log", "returned"}
  /\ canceled \in BOOLEAN /\ waitErr \in {"none", "status", "interrupted"}
  /\ proc \in [Proc -> {"none", "live", "foreign", "zero", "nonzero", "signal"}]
  /\ outside \subseteq Proc /\ unread \subseteq Proc /\ found \in BOOLEAN
  /\ stream \in Seq(Byte) /\ taken \in 0..Len(stream) /\ reading \in BOOLEAN
  /\ copier \in Destination \cup {"read", "ended"}
  /\ base \in [Destination -> Nat] /\ got \in [Destination -> Nat]
  /\ closed \subseteq Destination
  /\ copyErr \in BOOLEAN /\ closeErr \in BOOLEAN /\ cut \in BOOLEAN /\ failed \in BOOLEAN
  /\ result \in {"none", "exit", "incomplete"}

Stopped == pc \in {"drain", "abandoned", "close console", "close log", "returned"}

\* "A Writer is not safe for concurrent use": no redactor is closed under the
\* copier, except after an abandoned copy.
OneUser == copier \in closed => cut

\* Each redactor has a part of what the copier has read, and the log is ahead.
Accounted ==
  /\ got["console"] <= got["log"] /\ got["log"] <= taken
  /\ \A d \in Destination : base[d] <= got[d]

\* What a command leaves behind when it returns is outside of its group or runs
\* as another user: for RunGroup always, if no process forks while the list of
\* processes is read, and for Run after a cancellation, if it has a group.
NoMemberLeft ==
  /\ mode = "RunGroup" /\ Stopped /\ ~ForksDuringScan => Ours = {}
  /\ mode = "Run" /\ pc = "returned" /\ waitErr = "interrupted" => Ours = {}

GroupInv == TypeOK /\ OneUser /\ Accounted

-----------------------------------------------------------------------------
\* No byte of a secret is shown, however the stream is cut into chunks and
\* whichever write fails, unless a redactor goes on after an abandoned copy.
NothingLeaks ==
  \A d \in Destination : (d \in closed /\ cut) \/
    \A i \in DOMAIN shown[d] :
      shown[d][i].label = 0 => ~Secret(SubSeq(stream, 1, got[d]), shown[d][i].at)

\* "Ordinary output is emitted whole": a redactor at rest holds only the
\* beginning of a secret, and the secrets that reach into it.
HeldBack ==
  \A d \in Destination : copier = "read" /\ d \notin closed =>
    Settled(SubSeq(stream, 1, got[d]), base[d])

Redacts == NothingLeaks /\ HeldBack

\* A command that is reported to have ended has its output in the log and on
\* the console, whole and in order, unless its copy was abandoned, or a
\* destination refused it and the status of the command hides that.
OutputWhole ==
  pc = "returned" /\ mode = "RunGroup" /\ result = "exit" /\ ~closeErr /\ ~cut
    /\ (failed => waitErr = "none")
    => \A d \in Destination : shown[d] = Redacted(stream)

\* RunGroup returns when the command has ended or the context has, whatever
\* the descendants do and whether or not a destination takes the output.
GroupReturns ==
  mode = "RunGroup" /\ pc = "wait" /\ (canceled \/ ~Live(Leader))
    ~> pc \in {"close console", "close log", "returned"}
=============================================================================
