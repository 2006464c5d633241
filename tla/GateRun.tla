------------------------------ MODULE GateRun -------------------------------
(***************************************************************************)
(* internal/gate: the forced command of a requester key on a controller.   *)
(* A call of configsctl gate reads one request.  A deploy or tofu request  *)
(* makes a run: a directory, a record, a worktree and a systemd unit; the  *)
(* call ends when the unit is up.  gate-finish, which systemd runs when the *)
(* unit stops, records the end.  Other calls read the records of runs and  *)
(* their logs, and every call leaves a line in the request journal.        *)
(*                                                                         *)
(* The call that starts a run and gate-finish of its unit write the same   *)
(* record through the same temporary file.  A run is named by its call.    *)
(***************************************************************************)
EXTENDS Integers, FiniteSets, Sequences

CONSTANTS
  Call,               \* calls of configsctl gate
  Asks,               \* Asks[c]: the requests that c may bring
  Labels,             \* subcommands of a run that open a run log of their own
  MaxFiles,           \* bound of the model: run logs of one run
  MaxOutput,          \* bound of the model: pieces of output in one run log
  StartErrorIsFinal,  \* systemd-run reports an error only when no unit is left
  NoRequest           \* the request of a call that has none

VARIABLES
  at,        \* at[c]: how far the call has come
  request,   \* request[c]: the request as it was sent
  stored,    \* stored[c]: the request as records and journal keep it
  err,       \* err[c]: the text of the error the call has met
  journal,   \* journal[c]: the line of c in requests.jsonl
  runDir,    \* the runs whose directory exists
  file,      \* file[r]: the contents of record.json and record.json.tmp
  pen,       \* pen[r]: where the open file of each writer is found now
  worktree,  \* the runs whose worktree exists
  unit,      \* unit[r]: the systemd unit
  result,    \* result[r]: what systemd says of it
  fin,       \* fin[r]: how far gate-finish has come
  finRec,    \* finRec[r]: the record in its memory
  logs,      \* logs[r]: the run logs in the order they were opened
  offset,    \* offset[c]: how many pieces a reader of logs has copied
  wrote,     \* wrote[c]: how many of them in its last copy
  shown,     \* shown[c]: which pieces, of which run log
  late       \* history: what was written after that copy and before its look

callVars == <<at, request, stored, err, journal>>
recordVars == <<runDir, file, pen>>
unitVars == <<unit, result, fin, finRec, logs, worktree>>
readVars == <<offset, wrote, shown, late>>
vars == <<callVars, recordVars, unitVars, readVars>>

-----------------------------------------------------------------------------
(***************************************************************************)
(* Requests.                                                               *)
(***************************************************************************)
Kind == {"deploy", "tofu", "status", "logs", "unlock", "runs"}
Starts == {"deploy", "tofu"}
Field == {"playbook", "commit", "limit", "extra_vars", "session", "workspace",
          "action", "targets", "run", "follow", "host", "reason"}

\* Fields that a kind uses, and those of them that it does not do without.
Uses(kind) ==
  CASE kind = "deploy" -> {"playbook", "commit", "limit", "extra_vars", "session"}
    [] kind = "tofu" -> {"workspace", "action", "commit", "targets", "session"}
    [] kind = "status" -> {"run"}
    [] kind = "logs" -> {"run", "follow"}
    [] kind = "unlock" -> {"host", "run", "reason"}
    [] OTHER -> {}

Needs(kind) == Uses(kind) \ {"limit", "extra_vars", "targets", "follow"}

\* fields: what is set; bad: what does not match its pattern; vars: whether
\* extra_vars holds the value of a secret, as it is or with \uXXXX escapes;
\* lines: extra_vars has a line break, or another byte that is not printable
\* ASCII; run: the run it asks about.
Request == [kind : Kind, fields : SUBSET Field, bad : SUBSET Field,
            vars : {"none", "plain", "secret", "escaped"}, lines : BOOLEAN, run : Call]

Unread == [kind |-> "unread", fields |-> {}, bad |-> {}, vars |-> "none",
           lines |-> FALSE, run |-> NoRequest]

Validate(q) ==
  /\ q.fields \subseteq Uses(q.kind)
  /\ Needs(q.kind) \subseteq q.fields
  /\ q.bad \cap q.fields = {}

\* The patterns do not match a value that is escaped.
MaskedRequest(q) == IF q.vars = "secret" THEN [q EXCEPT !.vars = "plain"] ELSE q

\* checkedArgs takes the arguments of the unit; only extra_vars may fail.
Printable(q) == q.vars = "none" \/ ~q.lines

\* What the text of an error holds: no error, no part of extra_vars, or the
\* argument with extra_vars as the request had them.
Text == {"none", "other", "quote"}

ASSUME GateAssumption ==
  /\ Asks \in [Call -> SUBSET Request]
  /\ NoRequest \notin Call /\ NoRequest \notin Request
  /\ Labels \subseteq Nat
  /\ MaxFiles \in Nat /\ MaxOutput \in Nat
  /\ StartErrorIsFinal \in BOOLEAN

-----------------------------------------------------------------------------
(***************************************************************************)
(* Records.  WriteFile empties the temporary file when it opens it, then   *)
(* writes it as a whole; a writer goes on in the file that it opened       *)
(* when somebody else has renamed that.                                    *)
(***************************************************************************)
Results == {"none", "success", "exit-code", "exec"}
Content == [is : {"absent", "empty", "torn", "whole"}, ended : BOOLEAN,
            result : Results, error : Text]
Record == {x \in Content : x.is = "whole"}
Writers == {"gate", "finish"}

Holding(what) == [is |-> what, ended |-> FALSE, result |-> "none", error |-> "none"]
NoFile == Holding("absent")
FirstRecord == Holding("whole")
\* fail writes the record that start made, not the one in the file, with the
\* text of the error.
FailedRecord(c) == [FirstRecord EXCEPT !.ended = TRUE, !.error = err[c]]

Readable(r) == file[r].record.is = "whole"
Ended(r) == Readable(r) /\ file[r].record.ended

\* What a file may hold when rec is written to it from the start.
Over(old, rec) == IF old.is = "empty" \/ old = rec THEN {rec} ELSE {rec, Holding("torn")}

\* A bug to be found: the record itself is opened and emptied.
OpenRecord(r, w) ==
  /\ file' = [file EXCEPT ![r].record = Holding("empty")]
  /\ pen' = [pen EXCEPT ![r][w] = "record"]

OpenTmp(r, w) ==
  /\ file' = [file EXCEPT ![r].tmp = Holding("empty")]
  /\ pen' = [pen EXCEPT ![r][w] = "tmp"]

PutRecord(r, w, rec) ==
  /\ CASE pen[r][w] = "tmp" ->
            \E x \in Over(file[r].tmp, rec) : file' = [file EXCEPT ![r].tmp = x]
       [] pen[r][w] = "record" ->
            \E x \in Over(file[r].record, rec) : file' = [file EXCEPT ![r].record = x]
       [] OTHER -> file' = file
  /\ pen' = [pen EXCEPT ![r][w] = "closed"]

\* The write fails: nothing or a part of the record is there.
SpoilRecord(r, w) ==
  /\ \E x \in {Holding("empty"), Holding("torn")} :
       file' = CASE pen[r][w] = "tmp" -> [file EXCEPT ![r].tmp = x]
                 [] pen[r][w] = "record" -> [file EXCEPT ![r].record = x]
                 [] OTHER -> file
  /\ pen' = [pen EXCEPT ![r][w] = "closed"]

\* The files that other writers hold open change their names too.
RenameTmp(r) ==
  /\ file[r].tmp # NoFile
  /\ file' = [file EXCEPT ![r] = [record |-> file[r].tmp, tmp |-> NoFile]]
  /\ pen' = [pen EXCEPT ![r] = [w \in Writers |->
               CASE @[w] = "record" -> "replaced"
                 [] @[w] = "tmp" -> "record"
                 [] OTHER -> @[w]]]

\* The temporary file cannot be opened or renamed; perhaps it is gone.
WriteFails == UNCHANGED <<file, pen>>

\* What openJournal and Create leave when nothing has happened yet.
Init ==
  /\ at = [c \in Call |-> "idle"]
  /\ request = [c \in Call |-> NoRequest]
  /\ stored = [c \in Call |-> Unread]
  /\ err = [c \in Call |-> "none"]
  /\ journal = [c \in Call |-> <<>>]
  /\ runDir = {}
  /\ file = [r \in Call |-> [record |-> NoFile, tmp |-> NoFile]]
  /\ pen = [r \in Call |-> [w \in Writers |-> "closed"]]
  /\ worktree = {}
  /\ unit = [r \in Call |-> "none"]
  /\ result = [r \in Call |-> "none"]
  /\ fin = [r \in Call |-> "none"]
  /\ finRec = [r \in Call |-> FirstRecord]
  /\ logs = [r \in Call |-> <<>>]
  /\ offset = [c \in Call |-> 0]
  /\ wrote = [c \in Call |-> 0]
  /\ shown = [c \in Call |-> {}]
  /\ late = [c \in Call |-> 0]

-----------------------------------------------------------------------------
(***************************************************************************)
(* A call.  Serve opens the journal first and writes its line last.        *)
(***************************************************************************)
Goto(c, s) ==
  /\ at' = [at EXCEPT ![c] = s]
  /\ UNCHANGED <<request, stored, err, journal>>

\* errors.Join: what a call has met first stays in its text.
Met(c, text) == err' = [err EXCEPT ![c] = IF @ = "none" THEN text ELSE @]

Error(c, s) ==
  /\ at' = [at EXCEPT ![c] = s]
  /\ Met(c, "other")
  /\ UNCHANGED <<request, stored, journal>>

\* A bug to be found: the request is kept as it came.
WithheldNothing(q) == q

\* What handle keeps of a request when the vault has no patterns; it keeps
\* nothing of one that it cannot read or mask.
Withheld(q) == [q EXCEPT !.vars = "none", !.lines = FALSE, !.fields = @ \ {"extra_vars"}]

Refuse(c, kept) ==
  /\ stored' = [stored EXCEPT ![c] = kept]
  /\ Met(c, "other")
  /\ at' = [at EXCEPT ![c] = "answered"]

\* Serve and handle, up to the dispatch.
Receive(c, q) ==
  /\ at[c] = "idle"
  /\ request' = [request EXCEPT ![c] = q]
  /\ \/ Refuse(c, Unread)
     \/ Refuse(c, Withheld(q))
     \/ ~Validate(q) /\ Refuse(c, MaskedRequest(q))
     \/ /\ Validate(q)
        /\ stored' = [stored EXCEPT ![c] = MaskedRequest(q)]
        /\ at' = [at EXCEPT ![c] = "accepted"]
        /\ err' = err
  /\ UNCHANGED <<journal, recordVars, unitVars, readVars>>

\* journal.record closes the file; a failed write makes the call fail.
RecordRequest(c) ==
  /\ at[c] = "answered"
  /\ at' = [at EXCEPT ![c] = "over"]
  /\ \/ /\ journal' = [journal EXCEPT ![c] = <<[stored |-> stored[c], error |-> err[c]]>>]
        /\ err' = err
     \/ journal' = journal /\ Met(c, "other")
  /\ UNCHANGED <<request, stored, recordVars, unitVars, readVars>>

\* The ssh session or the process of the call ends anywhere.
Kill(c) ==
  /\ at[c] \notin {"idle", "over", "gone"}
  /\ Goto(c, "gone")
  /\ pen' = [pen EXCEPT ![c].gate = "closed"]
  /\ UNCHANGED <<runDir, file, unitVars, readVars>>

-----------------------------------------------------------------------------
(***************************************************************************)
(* start and launch.                                                       *)
(***************************************************************************)
Starting(c, s) == at[c] = s /\ request[c] # NoRequest /\ request[c].kind \in Starts

\* Fetch, then the commit must be reachable from origin/main.
RequireOnMain(c) ==
  /\ Starting(c, "accepted")
  /\ Goto(c, "merged") \/ Error(c, "answered")
  /\ UNCHANGED <<recordVars, unitVars, readVars>>

\* A new run id and the directories of the run, of which the first may stay
\* alone.
Create(c) ==
  /\ at[c] = "merged"
  /\ \/ Error(c, "answered") /\ runDir' \in {runDir, runDir \cup {c}}
     \/ Goto(c, "created") /\ runDir' = runDir \cup {c}
  /\ UNCHANGED <<file, pen, unitVars, readVars>>

\* Write: the record may not be encoded, when a mask broke the JSON of
\* extra_vars, or its file not be opened, written or renamed; then the run
\* directory stays without a record, or with the one it has.
OpenRecordTmp(c) ==
  /\ at[c] \in {"created", "failing"}
  /\ \/ Error(c, "answered") /\ WriteFails
     \/ Goto(c, IF at[c] = "created" THEN "open" ELSE "fail open") /\ OpenTmp(c, "gate")
  /\ UNCHANGED <<runDir, unitVars, readVars>>

WriteRecord(c) ==
  /\ at[c] \in {"open", "fail open"}
  /\ \/ /\ PutRecord(c, "gate", IF at[c] = "open" THEN FirstRecord ELSE FailedRecord(c))
        /\ Goto(c, IF at[c] = "open" THEN "put" ELSE "fail put")
     \/ SpoilRecord(c, "gate") /\ Error(c, "answered")
  /\ UNCHANGED <<runDir, unitVars, readVars>>

RenameRecord(c) ==
  /\ at[c] \in {"put", "fail put"}
  /\ \/ /\ RenameTmp(c)
        /\ Goto(c, IF at[c] = "put" THEN "recorded" ELSE "answered")
     \/ WriteFails /\ Error(c, "answered")
  /\ UNCHANGED <<runDir, unitVars, readVars>>

\* AddWorktree, then the playbook of a deploy must exist.
AddWorktree(c) ==
  /\ at[c] = "recorded"
  /\ \/ Error(c, "failing") /\ worktree' = worktree
     \/ /\ worktree' = worktree \cup {c}
        /\ \/ Goto(c, "prepared")
           \/ request[c].kind = "deploy" /\ Error(c, "failing")
  /\ UNCHANGED <<recordVars, unit, result, fin, finRec, logs, readVars>>

\* A bug to be found: systemd-run is not asked to wait for the command.
StartUnitBlindly(c) ==
  /\ at[c] = "prepared" /\ Printable(request[c])
  /\ unit' = [unit EXCEPT ![c] = "running"]
  /\ \/ Goto(c, "answered")
     \/ Error(c, "failing")
  /\ UNCHANGED <<recordVars, result, fin, finRec, logs, worktree, readVars>>

\* startUnit refuses an argument that is not printable, and quotes it.
RefuseArgument(c) ==
  /\ at[c] = "prepared" /\ ~Printable(request[c])
  /\ at' = [at EXCEPT ![c] = "failing"]
  /\ Met(c, "quote")
  /\ UNCHANGED <<request, stored, journal, recordVars, unitVars, readVars>>

\* systemd-run: the unit runs, or its command cannot be executed and
\* ExecStopPost is due, or there is no unit.
StartUnit(c) ==
  /\ at[c] = "prepared" /\ Printable(request[c])
  /\ \/ /\ unit' = [unit EXCEPT ![c] = "running"]
        /\ result' = result
        /\ \/ Goto(c, "answered")
           \/ ~StartErrorIsFinal /\ Error(c, "failing")
     \/ /\ unit' = [unit EXCEPT ![c] = "stopping"]
        /\ result' = [result EXCEPT ![c] = "exec"]
        /\ Error(c, IF StartErrorIsFinal THEN "waiting" ELSE "failing")
     \/ Error(c, "failing") /\ UNCHANGED <<unit, result>>
  /\ UNCHANGED <<recordVars, fin, finRec, logs, worktree, readVars>>

\* systemd-run reports a command that could not be executed when its unit is
\* gone.
UnitFailed(c) ==
  /\ at[c] = "waiting" /\ unit[c] = "gone"
  /\ Goto(c, "failing")
  /\ UNCHANGED <<recordVars, unitVars, readVars>>

-----------------------------------------------------------------------------
(***************************************************************************)
(* The unit of a run, and gate-finish.                                     *)
(***************************************************************************)

\* A subcommand of the run opens a run log; names are a label and a stamp.
OpenLog(r, label) ==
  /\ unit[r] = "running"
  /\ Len(logs[r]) < MaxFiles
  /\ logs' = [logs EXCEPT ![r] = Append(@, [label |-> label, output |-> 0])]
  /\ UNCHANGED <<callVars, recordVars, unit, result, fin, finRec, worktree, readVars>>

Output(r) ==
  /\ unit[r] = "running"
  /\ logs[r] # <<>>
  /\ logs[r][Len(logs[r])].output < MaxOutput
  /\ logs' = [logs EXCEPT ![r][Len(logs[r])].output = @ + 1]
  /\ late' = [c \in Call |-> IF at[c] = "looking" /\ stored[c].run = r THEN late[c] + 1
                                                                     ELSE late[c]]
  /\ UNCHANGED <<callVars, recordVars, unit, result, fin, finRec, worktree, offset, wrote, shown>>

CommandExits(r) ==
  /\ unit[r] = "running"
  /\ unit' = [unit EXCEPT ![r] = "stopping"]
  /\ \E x \in {"success", "exit-code"} : result' = [result EXCEPT ![r] = x]
  /\ UNCHANGED <<callVars, recordVars, fin, finRec, logs, worktree, readVars>>

FinVars(r, s) ==
  /\ fin' = [fin EXCEPT ![r] = s]
  /\ UNCHANGED <<callVars, result, logs, readVars>>

\* runGateFinish and Finish: the secret patterns may not load, or the record
\* may not be read; then the end stays unrecorded.
FinishRead(r) ==
  /\ unit[r] = "stopping" /\ fin[r] = "none"
  /\ \/ /\ Readable(r)
        /\ finRec' = [finRec EXCEPT ![r] =
                        [file[r].record EXCEPT !.ended = TRUE, !.result = result[r]]]
        /\ FinVars(r, "read") /\ unit' = unit
     \/ finRec' = finRec /\ FinVars(r, "cut") /\ unit' = [unit EXCEPT ![r] = "gone"]
  /\ UNCHANGED <<recordVars, worktree>>

\* A bug to be found: the worktree is removed first, and an error ends it.
FinishOpenLate(r) ==
  /\ fin[r] = "read"
  /\ \/ /\ worktree' = worktree \ {r}
        /\ OpenTmp(r, "finish") /\ FinVars(r, "open") /\ unit' = unit
     \/ /\ unit' = [unit EXCEPT ![r] = "gone"]
        /\ FinVars(r, "over") /\ UNCHANGED <<file, pen, worktree>>
  /\ UNCHANGED <<runDir, finRec>>

\* gate-finish goes on to s, or ends with an error of its own.
FinishGoes(r, s) == FinVars(r, s) /\ unit' = unit
FinishEnds(r) == FinVars(r, "cut") /\ unit' = [unit EXCEPT ![r] = "gone"]

FinishOpen(r) ==
  /\ fin[r] = "read"
  /\ \/ OpenTmp(r, "finish") /\ FinishGoes(r, "open")
     \/ WriteFails /\ FinishEnds(r)
  /\ UNCHANGED <<runDir, finRec, worktree>>

FinishWrite(r) ==
  /\ fin[r] = "open"
  /\ \/ PutRecord(r, "finish", finRec[r]) /\ FinishGoes(r, "put")
     \/ SpoilRecord(r, "finish") /\ FinishEnds(r)
  /\ UNCHANGED <<runDir, finRec, worktree>>

FinishRename(r) ==
  /\ fin[r] = "put"
  /\ \/ RenameTmp(r) /\ FinishGoes(r, "recorded")
     \/ WriteFails /\ FinishEnds(r)
  /\ UNCHANGED <<runDir, finRec, worktree>>

\* RemoveWorktree: an error is only logged.
RemoveWorktree(r) ==
  /\ fin[r] = "recorded"
  /\ worktree' \in {worktree, worktree \ {r}}
  /\ unit' = [unit EXCEPT ![r] = "gone"]
  /\ FinVars(r, "over") /\ UNCHANGED <<recordVars, finRec>>

\* systemd kills a gate-finish that takes too long.
FinishKilled(r) ==
  /\ fin[r] \in {"read", "open", "put"}
  /\ pen' = [pen EXCEPT ![r].finish = "closed"]
  /\ unit' = [unit EXCEPT ![r] = "gone"]
  /\ FinVars(r, "cut") /\ UNCHANGED <<runDir, file, finRec, worktree>>

\* The controller stops: nothing runs gate-finish afterwards.
Reboot ==
  /\ \E r \in Call : unit[r] \in {"running", "stopping"}
  /\ at' = [c \in Call |-> IF at[c] \in {"idle", "over"} THEN at[c] ELSE "gone"]
  /\ unit' = [r \in Call |-> IF unit[r] = "none" THEN "none" ELSE "gone"]
  /\ fin' = [r \in Call |-> IF unit[r] \in {"none", "gone"} THEN fin[r] ELSE "cut"]
  /\ pen' = [r \in Call |-> [w \in Writers |-> "closed"]]
  /\ UNCHANGED <<request, stored, err, journal, runDir, file, result, finRec, logs, worktree,
                 readVars>>

-----------------------------------------------------------------------------
(***************************************************************************)
(* Calls that read.                                                        *)
(***************************************************************************)
Reading(c, kind) == at[c] = "accepted" /\ stored[c].kind = kind
Quiet == UNCHANGED <<recordVars, unitVars, readVars>>

Status(c) ==
  /\ Reading(c, "status")
  /\ IF Readable(stored[c].run) THEN Goto(c, "answered") ELSE Error(c, "answered")
  /\ Quiet

\* List stops at the first directory whose record it cannot read.
List(c) ==
  /\ Reading(c, "runs")
  /\ IF \A r \in runDir : Readable(r) THEN Goto(c, "answered") ELSE Error(c, "answered")
  /\ Quiet

\* The host lock of the run is deleted (operator unlock in HostLock).
Unlock(c) ==
  /\ Reading(c, "unlock")
  /\ \/ Readable(stored[c].run) /\ Goto(c, "answered")
     \/ Error(c, "answered")
  /\ Quiet

Logs(c) ==
  /\ Reading(c, "logs")
  /\ IF Readable(stored[c].run) THEN Goto(c, "copying") ELSE Error(c, "answered")
  /\ Quiet

\* PlayLog: the name that sorts last, the label first, then the stamp.
PlayLog(r) ==
  CHOOSE i \in DOMAIN logs[r] :
    \A j \in DOMAIN logs[r] :
      \/ logs[r][j].label < logs[r][i].label
      \/ logs[r][j].label = logs[r][i].label /\ j <= i

\* copyLogFrom: from the offset, wherever that came from, to the end.
CopyLog(c) ==
  /\ at[c] = "copying"
  /\ LET r == stored[c].run
         end == IF logs[r] = <<>> THEN 0 ELSE logs[r][PlayLog(r)].output
         more == IF offset[c] < end THEN end - offset[c] ELSE 0
     IN /\ wrote' = [wrote EXCEPT ![c] = more]
        /\ offset' = [offset EXCEPT ![c] = @ + more]
        /\ shown' = [shown EXCEPT ![c] =
                       @ \cup {<<PlayLog(r), n>> : n \in offset[c] + 1 .. end}]
        /\ late' = [late EXCEPT ![c] = 0]
  /\ Goto(c, IF "follow" \in stored[c].fields THEN "looking" ELSE "answered")
  /\ UNCHANGED <<recordVars, unitVars>>

\* A bug to be found: silence is taken for the end.
LookAtSilence(c) ==
  /\ at[c] = "looking"
  /\ Goto(c, IF wrote[c] = 0 THEN "answered" ELSE "copying")
  /\ Quiet

\* A bug to be found: a follower waits for a record without an error.
LookForSuccess(c) ==
  /\ at[c] = "looking"
  /\ LET r == stored[c].run
     IN Goto(c, IF Ended(r) /\ file[r].record.result = "success" /\ wrote[c] = 0
                THEN "answered" ELSE "copying")
  /\ Quiet

\* The end of the loop of logs: the run is over and the last copy was empty.
LookAtRecord(c) ==
  /\ at[c] = "looking"
  /\ LET r == stored[c].run
     IN CASE ~Readable(r) -> Error(c, "answered")
          [] Ended(r) /\ wrote[c] = 0 -> Goto(c, "answered")
          [] OTHER -> Goto(c, "copying")
  /\ Quiet

-----------------------------------------------------------------------------
CallGoesOn(c) ==
  \/ RecordRequest(c)
  \/ RequireOnMain(c) \/ Create(c) \/ OpenRecordTmp(c) \/ WriteRecord(c) \/ RenameRecord(c)
  \/ AddWorktree(c) \/ RefuseArgument(c) \/ StartUnit(c) \/ UnitFailed(c)
  \/ Status(c) \/ List(c) \/ Unlock(c)
  \/ Logs(c) \/ CopyLog(c) \/ LookAtRecord(c)

FinishGoesOn(r) ==
  \/ FinishRead(r) \/ FinishOpen(r) \/ FinishWrite(r) \/ FinishRename(r)
  \/ RemoveWorktree(r)

CallStep(c) ==
  \/ CallGoesOn(c)
  \/ \E q \in Asks[c] : Receive(c, q)
  \/ Kill(c)

UnitStep(r) ==
  \/ FinishGoesOn(r)
  \/ \E label \in Labels : OpenLog(r, label)
  \/ Output(r)
  \/ CommandExits(r)
  \/ FinishKilled(r)

Next ==
  \/ \E c \in Call : CallStep(c) \/ UnitStep(c)
  \/ Reboot

Spec == Init /\ [][Next]_vars

\* A call that runs goes on, and so does gate-finish: systemd and git answer.
\* Nothing says that the command of a run exits or that a request comes.
FairSpec ==
  /\ Spec
  /\ \A c \in Call : WF_vars(CallGoesOn(c)) /\ WF_vars(FinishGoesOn(c))

-----------------------------------------------------------------------------
(***************************************************************************)
(* Properties.                                                             *)
(***************************************************************************)
CallStates ==
  {"idle", "accepted", "merged", "created", "open", "put", "recorded", "prepared", "waiting",
   "failing", "fail open", "fail put", "copying", "looking", "answered", "over", "gone"}

TypeOK ==
  /\ at \in [Call -> CallStates]
  /\ request \in [Call -> Request \cup {NoRequest}]
  /\ stored \in [Call -> Request \cup {Unread}]
  /\ err \in [Call -> Text]
  /\ runDir \subseteq Call
  /\ file \in [Call -> [record : Content, tmp : Content]]
  /\ pen \in [Call -> [Writers -> {"closed", "tmp", "record", "replaced"}]]
  /\ worktree \subseteq Call
  /\ unit \in [Call -> {"none", "running", "stopping", "gone"}]
  /\ result \in [Call -> Results]
  /\ fin \in [Call -> {"none", "read", "open", "put", "recorded", "over", "cut"}]
  /\ finRec \in [Call -> Record]
  /\ logs \in [Call -> Seq([label : Labels, output : Nat])]

\* Steps of a call before its unit may exist, and while it reports that there
\* is none.
Making == {"created", "open", "put", "recorded", "prepared"}
Early == {"idle", "accepted", "merged"} \cup Making
Failing == {"failing", "fail open", "fail put"}

\* One process at a time writes the record of a run.
OneWriter(r) ==
  /\ at[r] \in Early => unit[r] = "none"
  /\ at[r] \in Failing => unit[r] \in {"none", "gone"} /\ result[r] \in {"none", "exec"}
  /\ at[r] = "waiting" => unit[r] \in {"stopping", "gone"} /\ result[r] = "exec"
  /\ unit[r] \in {"none", "running"} => fin[r] = "none" /\ result[r] = "none"
  /\ unit[r] = "stopping" => fin[r] \notin {"over", "cut"}
  /\ unit[r] = "gone" => fin[r] \in {"over", "cut"}

\* What each step of a writer finds in its file.
PenInTmp(r) ==
  /\ at[r] \in {"open", "fail open"} => pen[r].gate = "tmp" /\ file[r].tmp = Holding("empty")
  /\ at[r] \in {"put", "fail put"} => file[r].tmp =
       IF at[r] = "put" THEN FirstRecord ELSE FailedRecord(r)
  /\ fin[r] = "open" => pen[r].finish = "tmp" /\ file[r].tmp = Holding("empty")
  /\ fin[r] = "put" => file[r].tmp = finRec[r]
  /\ at[r] \notin {"open", "fail open"} => pen[r].gate = "closed"
  /\ fin[r] # "open" => pen[r].finish = "closed"

\* record.go: "Write stores rec atomically": a reader finds a whole record or
\* none.
RecordWhole(r) == file[r].record \in Record \cup {NoFile}

\* Only a run without a unit, or whose gate-finish has recorded the end, is
\* recorded as ended, also when the call that started it gives up.
EndedIsOver(r) ==
  Ended(r) => /\ at[r] \notin Early
              /\ unit[r] \in {"none", "gone"} \/ fin[r] = "recorded"

\* Only a start request that was found valid makes a run.
Admitted(r) ==
  /\ at[r] \notin {"idle", "answered", "over", "gone"} =>
       request[r] # NoRequest /\ Validate(request[r]) /\ stored[r] = MaskedRequest(request[r])
  /\ r \in runDir =>
       /\ request[r] # NoRequest
       /\ Validate(request[r]) /\ request[r].kind \in Starts
       /\ stored[r] = MaskedRequest(request[r])
  /\ at[r] = "merged" => request[r].kind \in Starts
  /\ at[r] \in {"idle", "accepted", "merged"} => r \notin runDir
  /\ at[r] \in Making \cup Failing \cup {"waiting"} => r \in runDir
  /\ unit[r] # "none" \/ file[r].record # NoFile => r \in runDir

\* The writers of a record never meet, its readers find it whole, a run
\* recorded as ended is over, and every run was admitted.
GateInv ==
  /\ TypeOK
  /\ \A r \in Call : /\ OneWriter(r) /\ PenInTmp(r) /\ RecordWhole(r)
                     /\ EndedIsOver(r) /\ Admitted(r)

\* The texts of errors in record.json and requests.jsonl, and those of c itself.
Texts(c) ==
  {file[c].record.error, file[c].tmp.error, err[c]} \cup {journal[c][i].error : i \in DOMAIN journal[c]}

\* What records and the journal keep of a request has no secret that a pattern
\* matches, whatever the request is refused for (mask.go, secrets.go).  An error
\* text quotes extra_vars, unmasked, only for a run whose arguments were refused
\* and that never had a unit (gate.go fail, args.go).
SecretsMasked ==
  \A c \in Call :
    /\ stored[c].vars # "secret"
    /\ \A i \in DOMAIN journal[c] : journal[c][i].stored.vars # "secret"
    /\ "quote" \in Texts(c) =>
         request[c] # NoRequest /\ ~Printable(request[c]) /\ unit[c] = "none"

\* The recorded outcome of a command that ran is never lost or replaced.
OutcomeKept ==
  [][\A r \in Call : Ended(r) /\ result[r] \in {"success", "exit-code"}
       => file'[r].record = file[r].record]_vars

\* A follower that stops by itself has shown every piece of the output, but for
\* those written between its last copy and the look at the record after it.
FollowerSawAll ==
  \A c \in Call :
    stored[c].kind = "logs" /\ "follow" \in stored[c].fields
      /\ at[c] = "answered" /\ err[c] = "none" =>
      \A i \in DOMAIN logs[stored[c].run] :
        \A n \in 1 .. logs[stored[c].run][i].output - late[c] : <<i, n>> \in shown[c]

\* The follower of a run that is recorded as ended stops.
FollowerEnds ==
  \A c \in Call :
    at[c] \in {"copying", "looking"} /\ Ended(stored[c].run)
      ~> at[c] \in {"answered", "over", "gone"}

\* The end of every unit is recorded, unless gate-finish could not read the
\* record or was cut short.
OutcomeRecorded ==
  \A r \in Call : unit[r] = "stopping" ~> Ended(r) \/ fin[r] = "cut"

\* runlog.go: the directory listing sorts run logs chronologically; PlayLog
\* takes the last of them for the log that is written.
ListingIsChronological ==
  \A r \in Call : logs[r] # <<>> => PlayLog(r) = Len(logs[r])
=============================================================================
