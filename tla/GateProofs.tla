----------------------------- MODULE GateProofs -----------------------------
(***************************************************************************)
(* Theorems about GateRun for every value of its constants.  GateInv is    *)
(* inductive when systemd-run reports an error only after its unit is      *)
(* gone.                                                                   *)
(***************************************************************************)
EXTENDS GateRun, TLAPS

RunInv(r) ==
  /\ OneWriter(r) /\ PenInTmp(r) /\ RecordWhole(r)
  /\ EndedIsOver(r) /\ Admitted(r)

LEMMA InitGate == Init => GateInv
  <1> SUFFICES ASSUME Init PROVE GateInv
    OBVIOUS
  <1>1. TypeOK
    BY DEF Init, TypeOK, CallStates, FirstRecord, NoFile, Holding, Content, Record,
           Results, Text, Writers
  <1>2. ASSUME NEW r \in Call PROVE RunInv(r)
    BY DEF Init, RunInv, OneWriter, PenInTmp, RecordWhole, EndedIsOver, Admitted, Ended,
           Readable, Early, Making, Failing, NoFile, FirstRecord, Holding, Writers
  <1> QED
    BY <1>1, <1>2 DEF GateInv, RunInv

LEMMA ReceiveTyped ==
  ASSUME TypeOK, NEW c \in Call, NEW q \in Asks[c], Receive(c, q)
  PROVE  TypeOK'
  <1>1. q \in Request
    BY GateAssumption
  <1>2. Withheld(q) \in Request
    BY <1>1 DEF Withheld, Request
  <1>3. MaskedRequest(q) \in Request
    BY <1>1 DEF MaskedRequest, Request
  <1>4. PICK k \in {Unread, Withheld(q), MaskedRequest(q)} : stored' = [stored EXCEPT ![c] = k]
    BY DEF Receive, Refuse
  <1>5. stored' \in [Call -> Request \cup {Unread}]
    BY <1>2, <1>3, <1>4 DEF TypeOK
  <1>6. at' \in [Call -> CallStates] /\ err' \in [Call -> Text]
    BY DEF Receive, Refuse, Met, Text, TypeOK, CallStates
  <1>7. request' \in [Call -> Request \cup {NoRequest}]
    BY <1>1 DEF Receive, TypeOK
  <1> QED
    BY <1>5, <1>6, <1>7 DEF Receive, TypeOK, recordVars, unitVars, readVars

LEMMA WritersTyped ==
  ASSUME NEW r \in Call, NEW w \in Writers, NEW rec \in Record, TypeOK
  PROVE  OpenTmp(r, w) \/ PutRecord(r, w, rec) \/ SpoilRecord(r, w) \/ RenameTmp(r) \/ WriteFails
         => /\ file' \in [Call -> [record : Content, tmp : Content]]
            /\ pen' \in [Call -> [Writers -> {"closed", "tmp", "record", "replaced"}]]
  <1> USE DEF TypeOK
  <1>1. /\ Holding("empty") \in Content /\ Holding("torn") \in Content /\ NoFile \in Content
        /\ rec \in Content
    BY DEF Holding, NoFile, Content, Results, Text, Record
  <1>2. CASE OpenTmp(r, w)
    BY <1>1, <1>2 DEF OpenTmp
  <1>3. CASE PutRecord(r, w, rec)
    <2>1. \A old : Over(old, rec) \subseteq Content
      BY <1>1 DEF Over
    <2>2. CASE pen[r][w] = "tmp"
      <3>1. PICK x \in Over(file[r].tmp, rec) : file' = [file EXCEPT ![r].tmp = x]
        BY <1>3, <2>2 DEF PutRecord
      <3> QED
        BY <1>3, <2>1, <3>1 DEF PutRecord
    <2>3. CASE pen[r][w] = "record"
      <3>1. PICK x \in Over(file[r].record, rec) : file' = [file EXCEPT ![r].record = x]
        BY <1>3, <2>3 DEF PutRecord
      <3> QED
        BY <1>3, <2>1, <3>1 DEF PutRecord
    <2>4. CASE pen[r][w] \notin {"tmp", "record"}
      BY <1>3, <2>4 DEF PutRecord
    <2> QED
      BY <2>2, <2>3, <2>4
  <1>4. CASE RenameTmp(r)
    BY <1>1, <1>4 DEF RenameTmp
  <1>5. CASE WriteFails
    BY <1>5 DEF WriteFails
  <1>6. CASE SpoilRecord(r, w)
    <2>1. PICK x \in Content :
            file' = CASE pen[r][w] = "tmp" -> [file EXCEPT ![r].tmp = x]
                      [] pen[r][w] = "record" -> [file EXCEPT ![r].record = x]
                      [] OTHER -> file
      BY <1>1, <1>6 DEF SpoilRecord
    <2> QED
      BY <1>6, <2>1 DEF SpoilRecord
  <1> QED
    BY <1>2, <1>3, <1>4, <1>5, <1>6

LEMMA RecordsTyped ==
  /\ FirstRecord \in Record
  /\ TypeOK => \A c \in Call : FailedRecord(c) \in Record
  /\ "gate" \in Writers /\ "finish" \in Writers
  BY DEF FirstRecord, FailedRecord, Holding, Record, Content, Results, Text, Writers, TypeOK

LEMMA CallTyped ==
  ASSUME TypeOK, NEW c \in Call, CallGoesOn(c) \/ Kill(c)
  PROVE  TypeOK'
  <1> USE DEF TypeOK, CallStates, Goto, Error, Met, Text
  <1>1. CASE RecordRequest(c)
    BY <1>1 DEF RecordRequest, recordVars, unitVars, readVars
  <1>2. CASE RequireOnMain(c)
    BY <1>2 DEF RequireOnMain, recordVars, unitVars, readVars
  <1>3. CASE Create(c)
    BY <1>3 DEF Create, unitVars, readVars
  <1>4. CASE OpenRecordTmp(c)
    BY <1>4, WritersTyped, RecordsTyped DEF OpenRecordTmp, unitVars, readVars
  <1>5. CASE WriteRecord(c)
    <2> DEFINE rec == IF at[c] = "open" THEN FirstRecord ELSE FailedRecord(c)
    <2>1. rec \in Record /\ "gate" \in Writers
      BY RecordsTyped
    <2>2. PutRecord(c, "gate", rec) \/ SpoilRecord(c, "gate")
      BY <1>5 DEF WriteRecord
    <2>3. /\ file' \in [Call -> [record : Content, tmp : Content]]
          /\ pen' \in [Call -> [Writers -> {"closed", "tmp", "record", "replaced"}]]
      BY <2>1, <2>2, WritersTyped
    <2> QED
      BY <1>5, <2>3 DEF WriteRecord, unitVars, readVars
  <1>6. CASE RenameRecord(c)
    BY <1>6, WritersTyped, RecordsTyped DEF RenameRecord, unitVars, readVars
  <1>7. CASE AddWorktree(c)
    BY <1>7 DEF AddWorktree, recordVars, readVars
  <1>8. CASE StartUnit(c) \/ RefuseArgument(c)
    BY <1>8 DEF StartUnit, RefuseArgument, recordVars, unitVars, readVars, Results
  <1>9. CASE UnitFailed(c)
    BY <1>9 DEF UnitFailed, recordVars, unitVars, readVars
  <1>10. CASE Status(c) \/ List(c) \/ Unlock(c) \/ Logs(c) \/ LookAtRecord(c)
    BY <1>10 DEF Status, List, Unlock, Logs, LookAtRecord, Quiet, recordVars, unitVars, readVars
  <1>11. CASE CopyLog(c)
    BY <1>11 DEF CopyLog, recordVars, unitVars
  <1>12. CASE Kill(c)
    BY <1>12 DEF Kill, unitVars, readVars, Writers
  <1> QED
    BY <1>1, <1>2, <1>3, <1>4, <1>5, <1>6, <1>7, <1>8, <1>9, <1>10, <1>11, <1>12
       DEF CallGoesOn

LEMMA AppendTyped ==
  ASSUME NEW S, NEW s \in Seq(S), NEW e \in S
  PROVE  Append(s, e) \in Seq(S)
  OBVIOUS

LEMMA UpdateTyped ==
  ASSUME NEW S, NEW s \in Seq(S), NEW i \in 1 .. Len(s), NEW e \in S
  PROVE  [s EXCEPT ![i] = e] \in Seq(S)
  OBVIOUS

LEMMA ElementTyped ==
  ASSUME NEW S, NEW s \in Seq(S), NEW i \in 1 .. Len(s)
  PROVE  s[i] \in S
  OBVIOUS

LEMMA PieceTyped ==
  ASSUME NEW x \in [label : Labels, output : Nat]
  PROVE  [x EXCEPT !.output = @ + 1] \in [label : Labels, output : Nat]
  OBVIOUS

LEMMA UnitTyped ==
  ASSUME TypeOK, NEW r \in Call, UnitStep(r)
  PROVE  TypeOK'
  <1> USE DEF TypeOK, FinVars, FinishGoes, FinishEnds, callVars, readVars
  <1>1. CASE \E label \in Labels : OpenLog(r, label)
    <2>1. PICK label \in Labels : OpenLog(r, label)
      BY <1>1
    <2> DEFINE S == [label : Labels, output : Nat]
    <2>2. logs[r] \in Seq(S) /\ [label |-> label, output |-> 0] \in S
      OBVIOUS
    <2>3. Append(logs[r], [label |-> label, output |-> 0]) \in Seq(S)
      BY <2>2, AppendTyped
    <2> QED
      BY <2>1, <2>3 DEF OpenLog, recordVars
  <1>2. CASE Output(r)
    <2> DEFINE S == [label : Labels, output : Nat]
               i == Len(logs[r])
               e == [logs[r][i] EXCEPT !.output = @ + 1]
    <2>0. logs[r] \in Seq(S)
      OBVIOUS
    <2>1. i \in 1 .. Len(logs[r])
      BY <1>2 DEF Output
    <2>2. logs[r][i] \in S
      BY <2>0, <2>1, ElementTyped
    <2>3. e \in S
      BY <2>2, PieceTyped
    <2>4. [logs[r] EXCEPT ![i] = e] \in Seq(S)
      BY <2>0, <2>1, <2>3, UpdateTyped
    <2>5. logs' = [logs EXCEPT ![r] = [logs[r] EXCEPT ![i] = e]]
      BY <1>2 DEF Output
    <2>6. logs' \in [Call -> Seq(S)]
      BY <2>4, <2>5
    <2> QED
      BY <1>2, <2>6 DEF Output, recordVars
  <1>3. CASE CommandExits(r)
    BY <1>3 DEF CommandExits, recordVars, Results
  <1>4. CASE FinishRead(r)
    <2> DEFINE rec == [file[r].record EXCEPT !.ended = TRUE, !.result = result[r]]
    <2>1. file[r].record \in Content /\ result[r] \in Results
      OBVIOUS
    <2>2. rec \in Content /\ rec.is = file[r].record.is
      BY <2>1 DEF Content
    <2>3. Readable(r) => rec \in Record
      BY <2>2 DEF Readable, Record
    <2>4. finRec' \in [Call -> Record]
      BY <1>4, <2>3 DEF FinishRead
    <2> QED
      BY <1>4, <2>4 DEF FinishRead, recordVars
  <1>5. CASE FinishOpen(r)
    BY <1>5, WritersTyped, RecordsTyped DEF FinishOpen
  <1>6. CASE FinishWrite(r)
    BY <1>6, WritersTyped, RecordsTyped DEF FinishWrite
  <1>7. CASE FinishRename(r)
    BY <1>7, WritersTyped, RecordsTyped DEF FinishRename
  <1>8. CASE RemoveWorktree(r)
    BY <1>8 DEF RemoveWorktree, recordVars
  <1>9. CASE FinishKilled(r)
    BY <1>9 DEF FinishKilled, Writers
  <1> QED
    BY <1>1, <1>2, <1>3, <1>4, <1>5, <1>6, <1>7, <1>8, <1>9 DEF UnitStep, FinishGoesOn

LEMMA RebootTyped ==
  ASSUME TypeOK, Reboot
  PROVE  TypeOK'
  BY DEF TypeOK, Reboot, CallStates, readVars, Writers

\* What RunInv(r) speaks of.
Same(r) ==
  /\ at'[r] = at[r] /\ request'[r] = request[r] /\ stored'[r] = stored[r] /\ err'[r] = err[r]
  /\ (r \in runDir') = (r \in runDir)
  /\ file'[r] = file[r] /\ pen'[r] = pen[r]
  /\ unit'[r] = unit[r] /\ result'[r] = result[r]
  /\ fin'[r] = fin[r] /\ finRec'[r] = finRec[r]

LEMMA SameRun ==
  ASSUME NEW r \in Call, RunInv(r), Same(r)
  PROVE  RunInv(r)'
  BY DEF RunInv, Same, OneWriter, PenInTmp, RecordWhole, EndedIsOver, Admitted, Ended, Readable,
         FailedRecord

LEMMA WriterFrame ==
  ASSUME NEW r \in Call, NEW c \in Call, r # c, NEW w \in Writers, NEW rec, TypeOK,
         OpenTmp(c, w) \/ PutRecord(c, w, rec) \/ SpoilRecord(c, w) \/ RenameTmp(c) \/ WriteFails
  PROVE  file'[r] = file[r] /\ pen'[r] = pen[r]
  <1> USE DEF TypeOK
  <1>1. CASE OpenTmp(c, w)
    BY <1>1 DEF OpenTmp
  <1>2. CASE PutRecord(c, w, rec)
    <2>1. pen'[r] = pen[r]
      BY <1>2 DEF PutRecord
    <2>2. \/ file' = file
          \/ \E x \in Over(file[c].tmp, rec) : file' = [file EXCEPT ![c].tmp = x]
          \/ \E x \in Over(file[c].record, rec) : file' = [file EXCEPT ![c].record = x]
      BY <1>2 DEF PutRecord
    <2> QED
      BY <2>1, <2>2
  <1>3. CASE RenameTmp(c)
    BY <1>3 DEF RenameTmp
  <1>4. CASE WriteFails
    BY <1>4 DEF WriteFails
  <1>5. CASE SpoilRecord(c, w)
    BY <1>5 DEF SpoilRecord
  <1> QED
    BY <1>1, <1>2, <1>3, <1>4, <1>5

LEMMA CallFrame ==
  ASSUME TypeOK, NEW r \in Call, NEW c \in Call, r # c, CallStep(c)
  PROVE  Same(r)
  <1> USE DEF TypeOK, Same, Goto, Error, Met
  <1>1. CASE \E q \in Asks[c] : Receive(c, q)
    BY <1>1 DEF Receive, Refuse, recordVars, unitVars
  <1>2. CASE RecordRequest(c) \/ RequireOnMain(c) \/ Create(c) \/ UnitFailed(c)
    BY <1>2 DEF RecordRequest, RequireOnMain, Create, UnitFailed, recordVars, unitVars
  <1>3. CASE OpenRecordTmp(c)
    BY <1>3, WriterFrame, RecordsTyped DEF OpenRecordTmp, unitVars
  <1>4. CASE WriteRecord(c)
    BY <1>4, WriterFrame, RecordsTyped DEF WriteRecord, unitVars
  <1>5. CASE RenameRecord(c)
    BY <1>5, WriterFrame, RecordsTyped DEF RenameRecord, unitVars
  <1>6. CASE AddWorktree(c) \/ StartUnit(c) \/ RefuseArgument(c)
    BY <1>6 DEF AddWorktree, StartUnit, RefuseArgument, recordVars, unitVars
  <1>7. CASE Status(c) \/ List(c) \/ Unlock(c) \/ Logs(c) \/ LookAtRecord(c) \/ CopyLog(c)
    BY <1>7 DEF Status, List, Unlock, Logs, LookAtRecord, CopyLog, Quiet, recordVars, unitVars
  <1>8. CASE Kill(c)
    BY <1>8 DEF Kill, unitVars
  <1> QED
    BY <1>1, <1>2, <1>3, <1>4, <1>5, <1>6, <1>7, <1>8 DEF CallStep, CallGoesOn

LEMMA UnitFrame ==
  ASSUME TypeOK, NEW r \in Call, NEW c \in Call, r # c, UnitStep(c)
  PROVE  Same(r)
  <1> USE DEF TypeOK, Same, FinVars, FinishGoes, FinishEnds, callVars
  <1>1. CASE \E label \in Labels : OpenLog(c, label)
    BY <1>1 DEF OpenLog, recordVars
  <1>2. CASE Output(c) \/ CommandExits(c) \/ FinishRead(c) \/ RemoveWorktree(c)
    BY <1>2 DEF Output, CommandExits, FinishRead, RemoveWorktree, recordVars
  <1>3. CASE FinishOpen(c)
    BY <1>3, WriterFrame, RecordsTyped DEF FinishOpen
  <1>4. CASE FinishWrite(c)
    BY <1>4, WriterFrame, RecordsTyped DEF FinishWrite
  <1>5. CASE FinishRename(c)
    BY <1>5, WriterFrame, RecordsTyped DEF FinishRename
  <1>6. CASE FinishKilled(c)
    BY <1>6 DEF FinishKilled
  <1> QED
    BY <1>1, <1>2, <1>3, <1>4, <1>5, <1>6 DEF UnitStep, FinishGoesOn

LEMMA OwnReceive ==
  ASSUME TypeOK, NEW r \in Call, NEW q \in Asks[r], Receive(r, q), RunInv(r)
  PROVE  RunInv(r)'
  <1>0. q \in Request /\ q # NoRequest
    BY GateAssumption
  <1> USE DEF TypeOK, RunInv, Receive, Refuse, Met, recordVars, unitVars
  <1>1. OneWriter(r)' /\ PenInTmp(r)' /\ RecordWhole(r)'
    BY DEF OneWriter, PenInTmp, RecordWhole, Early, Making, Failing
  <1>2. EndedIsOver(r)'
    BY DEF EndedIsOver, Ended, Readable, OneWriter, Early, Making
  <1>3. Admitted(r)'
    BY <1>0 DEF Admitted, OneWriter, Early, Making, Failing
  <1> QED
    BY <1>1, <1>2, <1>3

LEMMA KillPen ==
  ASSUME TypeOK, NEW r \in Call, Kill(r)
  PROVE  pen'[r].gate = "closed" /\ pen'[r].finish = pen[r].finish
  BY DEF TypeOK, Kill, Writers

\* The steps of a call that touch neither record nor unit.
LEMMA OwnQuiet ==
  ASSUME TypeOK, NEW r \in Call, RunInv(r),
         \/ RecordRequest(r) \/ RequireOnMain(r) \/ Create(r) \/ AddWorktree(r) \/ UnitFailed(r)
         \/ RefuseArgument(r)
         \/ Status(r) \/ List(r) \/ Unlock(r) \/ Logs(r) \/ CopyLog(r) \/ LookAtRecord(r)
         \/ Kill(r)
  PROVE  RunInv(r)'
  <1> USE DEF TypeOK, RunInv, OneWriter, PenInTmp, RecordWhole, EndedIsOver, Admitted, Ended,
              Readable, Early, Making, Failing, Goto, Error
  <1>1. CASE RecordRequest(r)
    BY <1>1 DEF RecordRequest, recordVars, unitVars
  <1>2. CASE RequireOnMain(r)
    BY <1>2 DEF RequireOnMain, Starting, recordVars, unitVars
  <1>3. CASE Create(r)
    BY <1>3 DEF Create, unitVars
  <1>4. CASE AddWorktree(r)
    BY <1>4 DEF AddWorktree, recordVars
  <1>5. CASE UnitFailed(r)
    BY <1>5 DEF UnitFailed, recordVars, unitVars
  <1>6. CASE Status(r)
    <2>1. /\ at'[r] \in {"answered", "copying"} /\ at[r] = "accepted"
          /\ UNCHANGED <<request, stored, recordVars, unitVars>>
      BY <1>6 DEF Status, Reading, Quiet
    <2> QED
      BY <2>1 DEF recordVars, unitVars
  <1>7. CASE List(r)
    <2>1. /\ at'[r] \in {"answered", "copying"} /\ at[r] = "accepted"
          /\ UNCHANGED <<request, stored, recordVars, unitVars>>
      BY <1>7 DEF List, Reading, Quiet
    <2> QED
      BY <2>1 DEF recordVars, unitVars
  <1>8. CASE Unlock(r)
    <2>1. /\ at'[r] \in {"answered", "copying"} /\ at[r] = "accepted"
          /\ UNCHANGED <<request, stored, recordVars, unitVars>>
      BY <1>8 DEF Unlock, Reading, Quiet
    <2> QED
      BY <2>1 DEF recordVars, unitVars
  <1>9. CASE Logs(r)
    <2>1. /\ at'[r] \in {"answered", "copying"} /\ at[r] = "accepted"
          /\ UNCHANGED <<request, stored, recordVars, unitVars>>
      BY <1>9 DEF Logs, Reading, Quiet
    <2> QED
      BY <2>1 DEF recordVars, unitVars
  <1>10. CASE CopyLog(r)
    BY <1>10 DEF CopyLog, recordVars, unitVars
  <1>11. CASE LookAtRecord(r)
    <2>1. /\ at'[r] \in {"answered", "copying"} /\ at[r] = "looking"
          /\ UNCHANGED <<request, stored, recordVars, unitVars>>
      BY <1>11 DEF LookAtRecord, Quiet
    <2> QED
      BY <2>1 DEF recordVars, unitVars
  <1>12. CASE Kill(r)
    <2>1. at'[r] = "gone" /\ pen'[r].gate = "closed" /\ pen'[r].finish = pen[r].finish
      BY <1>12, KillPen DEF Kill
    <2> QED
      BY <1>12, <2>1 DEF Kill, unitVars
  <1>13. CASE RefuseArgument(r)
    BY <1>13 DEF RefuseArgument, Met, recordVars, unitVars
  <1> QED
    BY <1>1, <1>2, <1>3, <1>4, <1>5, <1>6, <1>7, <1>8, <1>9, <1>10, <1>11, <1>12, <1>13

\* What the writers' operations do to the files of their own run.
LEMMA GateOpens ==
  ASSUME TypeOK, NEW r \in Call, OpenTmp(r, "gate")
  PROVE  /\ file'[r].record = file[r].record /\ file'[r].tmp = Holding("empty")
         /\ pen'[r].gate = "tmp" /\ pen'[r].finish = pen[r].finish
  BY DEF TypeOK, OpenTmp, Writers

LEMMA FinishOpens ==
  ASSUME TypeOK, NEW r \in Call, OpenTmp(r, "finish")
  PROVE  /\ file'[r].record = file[r].record /\ file'[r].tmp = Holding("empty")
         /\ pen'[r].finish = "tmp" /\ pen'[r].gate = pen[r].gate
  BY DEF TypeOK, OpenTmp, Writers

LEMMA GatePuts ==
  ASSUME TypeOK, NEW r \in Call, NEW rec \in Record, PutRecord(r, "gate", rec),
         pen[r].gate = "tmp", file[r].tmp = Holding("empty")
  PROVE  /\ file'[r].record = file[r].record /\ file'[r].tmp = rec
         /\ pen'[r].gate = "closed" /\ pen'[r].finish = pen[r].finish
  <1>1. Over(file[r].tmp, rec) = {rec}
    BY DEF Over, Holding
  <1>2. file' = [file EXCEPT ![r].tmp = rec] /\ pen' = [pen EXCEPT ![r]["gate"] = "closed"]
    BY <1>1 DEF PutRecord
  <1> QED
    BY <1>2 DEF TypeOK, Writers

LEMMA FinishPuts ==
  ASSUME TypeOK, NEW r \in Call, NEW rec \in Record, PutRecord(r, "finish", rec),
         pen[r].finish = "tmp", file[r].tmp = Holding("empty")
  PROVE  /\ file'[r].record = file[r].record /\ file'[r].tmp = rec
         /\ pen'[r].finish = "closed" /\ pen'[r].gate = pen[r].gate
  <1>1. Over(file[r].tmp, rec) = {rec}
    BY DEF Over, Holding
  <1>2. file' = [file EXCEPT ![r].tmp = rec] /\ pen' = [pen EXCEPT ![r]["finish"] = "closed"]
    BY <1>1 DEF PutRecord
  <1> QED
    BY <1>2 DEF TypeOK, Writers

\* A write that fails changes the temporary file only.
LEMMA GateSpoils ==
  ASSUME TypeOK, NEW r \in Call, SpoilRecord(r, "gate"), pen[r].gate = "tmp"
  PROVE  /\ file'[r].record = file[r].record
         /\ pen'[r].gate = "closed" /\ pen'[r].finish = pen[r].finish
  BY DEF TypeOK, SpoilRecord, Writers

LEMMA FinishSpoils ==
  ASSUME TypeOK, NEW r \in Call, SpoilRecord(r, "finish"), pen[r].finish = "tmp"
  PROVE  /\ file'[r].record = file[r].record
         /\ pen'[r].finish = "closed" /\ pen'[r].gate = pen[r].gate
  BY DEF TypeOK, SpoilRecord, Writers

LEMMA WholeIsPresent == \A x \in Record : x # NoFile
  BY DEF Record, NoFile, Holding

LEMMA Renames ==
  ASSUME TypeOK, NEW r \in Call, RenameTmp(r), pen[r].gate = "closed", pen[r].finish = "closed"
  PROVE  /\ file'[r].record = file[r].tmp /\ file'[r].tmp = NoFile
         /\ pen'[r].gate = "closed" /\ pen'[r].finish = "closed"
  BY DEF TypeOK, RenameTmp, Writers

LEMMA OwnRecord ==
  ASSUME TypeOK, NEW r \in Call, RunInv(r),
         OpenRecordTmp(r) \/ WriteRecord(r) \/ RenameRecord(r)
  PROVE  RunInv(r)'
  <1> USE DEF RunInv, OneWriter, PenInTmp, RecordWhole, EndedIsOver, Admitted, Ended,
              Readable, Early, Making, Failing
  <1>0. at \in [Call -> CallStates]
    BY DEF TypeOK
  <1>1. CASE OpenRecordTmp(r)
    <2>1. CASE Error(r, "answered") /\ WriteFails
      BY <1>0, <1>1, <2>1 DEF OpenRecordTmp, WriteFails, Error, unitVars
    <2>2. CASE /\ Goto(r, IF at[r] = "created" THEN "open" ELSE "fail open")
               /\ OpenTmp(r, "gate")
      <3>1. /\ file'[r].record = file[r].record /\ file'[r].tmp = Holding("empty")
            /\ pen'[r].gate = "tmp" /\ pen'[r].finish = pen[r].finish
        BY <2>2, GateOpens
      <3>2. /\ at[r] \in {"created", "failing"}
            /\ at'[r] = IF at[r] = "created" THEN "open" ELSE "fail open"
            /\ UNCHANGED <<request, stored, runDir, unit, result, fin, finRec>>
        BY <1>0, <1>1, <2>2 DEF OpenRecordTmp, Goto, unitVars
      <3> QED
        BY <3>1, <3>2
    <2> QED
      BY <1>1, <2>1, <2>2 DEF OpenRecordTmp
  <1>2. CASE WriteRecord(r)
    <2> DEFINE rec == IF at[r] = "open" THEN FirstRecord ELSE FailedRecord(r)
    <2>0. /\ at[r] \in {"open", "fail open"} /\ pen[r].gate = "tmp"
          /\ file[r].tmp = Holding("empty") /\ rec \in Record
          /\ UNCHANGED <<request, stored, runDir, unit, result, fin, finRec>>
      BY <1>2, RecordsTyped DEF WriteRecord, Goto, Error, unitVars
    <2>1. CASE PutRecord(r, "gate", rec) /\ Goto(r, IF at[r] = "open" THEN "put" ELSE "fail put")
      <3>1. /\ file'[r].record = file[r].record /\ file'[r].tmp = rec
            /\ pen'[r].gate = "closed" /\ pen'[r].finish = pen[r].finish
        BY <2>0, <2>1, GatePuts
      <3>2. /\ at'[r] = IF at[r] = "open" THEN "put" ELSE "fail put"
            /\ FailedRecord(r)' = FailedRecord(r)
        BY <1>0, <2>1 DEF Goto, FailedRecord
      <3> HIDE DEF rec
      <3>3. file'[r].tmp = IF at'[r] = "put" THEN FirstRecord ELSE FailedRecord(r)
        BY <2>0, <3>1, <3>2 DEF rec
      <3> QED
        BY <2>0, <3>1, <3>2, <3>3
    <2>2. CASE SpoilRecord(r, "gate") /\ Error(r, "answered")
      <3>1. /\ file'[r].record = file[r].record
            /\ pen'[r].gate = "closed" /\ pen'[r].finish = pen[r].finish
        BY <2>0, <2>2, GateSpoils
      <3>2. at'[r] = "answered"
        BY <1>0, <2>2 DEF Error
      <3>3. fin[r] \notin {"open", "put"}
        BY <2>0
      <3> QED
        BY <2>0, <3>1, <3>2, <3>3
    <2> QED
      BY <1>2, <2>1, <2>2 DEF WriteRecord
  <1>3. CASE RenameRecord(r)
    <2>0. /\ FirstRecord \in Record /\ FailedRecord(r) \in Record /\ ~FirstRecord.ended
      BY RecordsTyped DEF FirstRecord, Holding
    <2>1. /\ at[r] \in {"put", "fail put"}
          /\ file[r].tmp = IF at[r] = "put" THEN FirstRecord ELSE FailedRecord(r)
          /\ pen[r].gate = "closed" /\ pen[r].finish = "closed"
          /\ UNCHANGED <<request, stored, runDir, unit, result, fin, finRec>>
      BY <1>3 DEF RenameRecord, Goto, Error, unitVars
    <2>2. CASE RenameTmp(r) /\ Goto(r, IF at[r] = "put" THEN "recorded" ELSE "answered")
      <3>1. /\ file'[r].record = file[r].tmp /\ file'[r].tmp = NoFile
            /\ pen'[r].gate = "closed" /\ pen'[r].finish = "closed"
        BY <2>1, <2>2, Renames
      <3>2. at'[r] = IF at[r] = "put" THEN "recorded" ELSE "answered"
        BY <1>0, <2>2 DEF Goto
      <3> QED
        BY <2>0, <2>1, <3>1, <3>2
    <2>3. CASE WriteFails /\ Error(r, "answered")
      BY <1>0, <2>1, <2>3 DEF WriteFails, Error
    <2> QED
      BY <1>3, <2>2, <2>3 DEF RenameRecord
  <1> QED
    BY <1>1, <1>2, <1>3

LEMMA OwnStart ==
  ASSUME TypeOK, NEW r \in Call, RunInv(r), StartErrorIsFinal, StartUnit(r)
  PROVE  RunInv(r)'
  <1> USE DEF TypeOK, RunInv, Goto, Error, Met, StartUnit, recordVars
  <1>1. OneWriter(r)' /\ PenInTmp(r)' /\ RecordWhole(r)'
    BY DEF OneWriter, PenInTmp, RecordWhole, Early, Making, Failing
  <1>2. EndedIsOver(r)'
    BY DEF EndedIsOver, Ended, Readable, OneWriter, Early, Making
  <1>3. Admitted(r)'
    BY DEF Admitted, OneWriter, Early, Making, Failing
  <1> QED
    BY <1>1, <1>2, <1>3

LEMMA OwnFinish ==
  ASSUME TypeOK, NEW r \in Call, RunInv(r), UnitStep(r)
  PROVE  RunInv(r)'
  <1> USE DEF TypeOK, RunInv, OneWriter, PenInTmp, RecordWhole, EndedIsOver, Admitted, Ended,
              Readable, Early, Making, Failing, FinVars, callVars
  <1>1. CASE \E label \in Labels : OpenLog(r, label)
    BY <1>1 DEF OpenLog, recordVars
  <1>2. CASE Output(r)
    BY <1>2 DEF Output, recordVars
  <1>3. CASE CommandExits(r)
    BY <1>3 DEF CommandExits, recordVars
  <1>4. CASE FinishRead(r)
    BY <1>4 DEF FinishRead, recordVars
  <1>5. CASE FinishOpen(r)
    <2>1. /\ fin[r] = "read" /\ unit[r] = "stopping"
          /\ UNCHANGED <<at, request, stored, err, runDir, result, finRec>>
      BY <1>5 DEF FinishOpen, FinishGoes, FinishEnds
    <2>2. CASE OpenTmp(r, "finish") /\ FinishGoes(r, "open")
      <3>1. /\ file'[r].record = file[r].record /\ file'[r].tmp = Holding("empty")
            /\ pen'[r].finish = "tmp" /\ pen'[r].gate = pen[r].gate
        BY <2>2, FinishOpens
      <3>2. fin'[r] = "open" /\ unit' = unit
        BY <2>2 DEF FinishGoes
      <3> HIDE DEF TypeOK, FinVars
      <3> QED
        BY <2>1, <3>1, <3>2 DEF FailedRecord
    <2>3. CASE WriteFails /\ FinishEnds(r)
      <3>1. fin'[r] = "cut" /\ unit'[r] = "gone" /\ file' = file /\ pen' = pen
        BY <2>3 DEF WriteFails, FinishEnds
      <3> HIDE DEF TypeOK, FinVars
      <3> QED
        BY <2>1, <3>1 DEF FailedRecord
    <2> QED
      BY <1>5, <2>2, <2>3 DEF FinishOpen
  <1>6. CASE FinishWrite(r)
    <2>1. /\ fin[r] = "open" /\ unit[r] = "stopping"
          /\ UNCHANGED <<at, request, stored, err, runDir, result, finRec>>
          /\ finRec[r] \in Record /\ pen[r].finish = "tmp" /\ file[r].tmp = Holding("empty")
      BY <1>6 DEF FinishWrite, FinishGoes, FinishEnds
    <2>2. CASE PutRecord(r, "finish", finRec[r]) /\ FinishGoes(r, "put")
      <3>1. /\ file'[r].record = file[r].record /\ file'[r].tmp = finRec[r]
            /\ pen'[r].finish = "closed" /\ pen'[r].gate = pen[r].gate
        BY <2>1, <2>2, FinishPuts
      <3>2. fin'[r] = "put" /\ unit' = unit
        BY <2>2 DEF FinishGoes
      <3> HIDE DEF TypeOK, FinVars
      <3> QED
        BY <2>1, <3>1, <3>2 DEF FailedRecord
    <2>3. CASE SpoilRecord(r, "finish") /\ FinishEnds(r)
      <3>1. /\ file'[r].record = file[r].record
            /\ pen'[r].finish = "closed" /\ pen'[r].gate = pen[r].gate
        BY <2>1, <2>3, FinishSpoils
      <3>2. fin'[r] = "cut" /\ unit'[r] = "gone"
        BY <2>3 DEF FinishEnds
      <3> HIDE DEF TypeOK, FinVars
      <3> QED
        BY <2>1, <3>1, <3>2 DEF FailedRecord
    <2> QED
      BY <1>6, <2>2, <2>3 DEF FinishWrite
  <1>7. CASE FinishRename(r)
    <2>1. /\ fin[r] = "put" /\ unit[r] = "stopping" /\ file[r].tmp = finRec[r]
          /\ pen[r].finish = "closed" /\ pen[r].gate = "closed" /\ finRec[r] \in Record
          /\ UNCHANGED <<at, request, stored, err, runDir, result, finRec>>
      BY <1>7 DEF FinishRename, FinishGoes, FinishEnds
    <2>2. CASE RenameTmp(r) /\ FinishGoes(r, "recorded")
      <3>1. /\ file'[r].record = finRec[r] /\ file'[r].tmp = NoFile
            /\ pen'[r].gate = "closed" /\ pen'[r].finish = "closed"
        BY <2>1, <2>2, Renames
      <3>2. fin'[r] = "recorded" /\ unit' = unit
        BY <2>2 DEF FinishGoes
      <3> HIDE DEF TypeOK, FinVars
      <3> QED
        BY <2>1, <3>1, <3>2 DEF FailedRecord
    <2>3. CASE WriteFails /\ FinishEnds(r)
      <3>1. fin'[r] = "cut" /\ unit'[r] = "gone" /\ file' = file /\ pen' = pen
        BY <2>3 DEF WriteFails, FinishEnds
      <3> HIDE DEF TypeOK, FinVars
      <3> QED
        BY <2>1, <3>1 DEF FailedRecord
    <2> QED
      BY <1>7, <2>2, <2>3 DEF FinishRename
  <1>8. CASE RemoveWorktree(r)
    BY <1>8 DEF RemoveWorktree, recordVars
  <1>9. CASE FinishKilled(r)
    BY <1>9 DEF FinishKilled, Writers
  <1> QED
    BY <1>1, <1>2, <1>3, <1>4, <1>5, <1>6, <1>7, <1>8, <1>9 DEF UnitStep, FinishGoesOn

LEMMA RebootRun ==
  ASSUME TypeOK, NEW r \in Call, RunInv(r), Reboot
  PROVE  RunInv(r)'
  <1> USE DEF TypeOK, RunInv, Reboot, readVars, Writers
  <1>1. OneWriter(r)' /\ PenInTmp(r)' /\ RecordWhole(r)'
    BY DEF OneWriter, PenInTmp, RecordWhole, Early, Making, Failing
  <1>2. EndedIsOver(r)'
    BY DEF EndedIsOver, Ended, Readable, OneWriter, Early, Making
  <1>3. Admitted(r)'
    BY DEF Admitted, OneWriter, Early, Making, Failing
  <1> QED
    BY <1>1, <1>2, <1>3

LEMMA StepTyped == TypeOK /\ [Next]_vars => TypeOK'
  <1> SUFFICES ASSUME TypeOK, [Next]_vars PROVE TypeOK'
    OBVIOUS
  <1>1. CASE UNCHANGED vars
    BY <1>1 DEF vars, callVars, recordVars, unitVars, readVars, TypeOK
  <1>2. ASSUME NEW c \in Call, CallStep(c) PROVE TypeOK'
    BY <1>2, ReceiveTyped, CallTyped DEF CallStep
  <1>3. ASSUME NEW c \in Call, UnitStep(c) PROVE TypeOK'
    BY <1>3, UnitTyped
  <1> QED
    BY <1>1, <1>2, <1>3, RebootTyped DEF Next

\* Every variable of the gate has its type, for any calls and requests.
THEOREM Typed == Spec => []TypeOK
  <1>1. Init => TypeOK
    BY InitGate DEF GateInv
  <1> QED
    BY <1>1, StepTyped, PTL DEF Spec

LEMMA StepKeepsGateInv == GateInv /\ StartErrorIsFinal /\ [Next]_vars => GateInv'
  <1> SUFFICES ASSUME GateInv, StartErrorIsFinal, [Next]_vars PROVE GateInv'
    OBVIOUS
  <1>0. TypeOK /\ \A r \in Call : RunInv(r)
    BY DEF GateInv, RunInv
  <1> SUFFICES TypeOK' /\ \A r \in Call : RunInv(r)'
    BY DEF GateInv, RunInv
  <1>1. CASE UNCHANGED vars
    BY <1>0, <1>1, SameRun DEF vars, callVars, recordVars, unitVars, readVars, TypeOK, Same
  <1>2. ASSUME NEW c \in Call, CallStep(c) PROVE TypeOK' /\ \A r \in Call : RunInv(r)'
    <2>1. TypeOK'
      BY <1>0, <1>2, ReceiveTyped, CallTyped DEF CallStep
    <2>2. RunInv(c)'
      BY <1>0, <1>2, OwnReceive, OwnQuiet, OwnRecord, OwnStart DEF CallStep, CallGoesOn
    <2>3. ASSUME NEW r \in Call, r # c PROVE RunInv(r)'
      BY <1>0, <1>2, <2>3, CallFrame, SameRun
    <2> QED
      BY <2>1, <2>2, <2>3
  <1>3. ASSUME NEW c \in Call, UnitStep(c) PROVE TypeOK' /\ \A r \in Call : RunInv(r)'
    <2>1. TypeOK'
      BY <1>0, <1>3, UnitTyped
    <2>2. RunInv(c)'
      BY <1>0, <1>3, OwnFinish
    <2>3. ASSUME NEW r \in Call, r # c PROVE RunInv(r)'
      BY <1>0, <1>3, <2>3, UnitFrame, SameRun
    <2> QED
      BY <2>1, <2>2, <2>3
  <1>4. CASE Reboot
    BY <1>0, <1>4, RebootTyped, RebootRun
  <1> QED
    BY <1>1, <1>2, <1>3, <1>4 DEF Next

\* The writers of a record never meet, its readers find it whole, a run that is
\* recorded as ended is over, and every run was admitted: for any calls and
\* requests, as long as systemd-run reports an error only after its unit is
\* gone (run.go launch and fail, finish.go, record.go Write).
THEOREM GateHolds == ASSUME StartErrorIsFinal PROVE Spec => []GateInv
  <1>1. Init => GateInv
    BY InitGate
  <1>2. GateInv /\ [Next]_vars => GateInv'
    BY StepKeepsGateInv
  <1> QED
    BY <1>1, <1>2, PTL DEF Spec

-----------------------------------------------------------------------------
(***************************************************************************)
(* What becomes of an outcome, and of a secret.                            *)
(***************************************************************************)
Settled(r) == Ended(r) /\ result[r] \in {"success", "exit-code"}

LEMMA SettledUnit ==
  ASSUME GateInv, NEW r \in Call, Settled(r)
  PROVE  /\ at[r] \notin Early \cup Failing
         /\ fin[r] \notin {"none", "read", "open", "put"}
  BY DEF GateInv, TypeOK, Settled, OneWriter, EndedIsOver, Early, Failing

LEMMA SettledStays ==
  ASSUME GateInv, NEW r \in Call, Settled(r), [Next]_vars
  PROVE  file'[r].record = file[r].record
  <1>0. TypeOK
    BY DEF GateInv
  <1>1. CASE UNCHANGED vars
    BY <1>1 DEF vars, recordVars
  <1>2. ASSUME NEW c \in Call, c # r, CallStep(c) \/ UnitStep(c)
        PROVE file'[r].record = file[r].record
    BY <1>0, <1>2, CallFrame, UnitFrame DEF Same
  <1>3. CASE CallStep(r)
    <2>1. ~OpenRecordTmp(r) /\ ~WriteRecord(r) /\ ~RenameRecord(r)
      BY SettledUnit DEF OpenRecordTmp, WriteRecord, RenameRecord, Early, Making, Failing
    <2>2. file' = file
      BY <1>3, <2>1
         DEF CallStep, CallGoesOn, Receive, Kill, RecordRequest, RequireOnMain, Create,
             AddWorktree, RefuseArgument, StartUnit, UnitFailed, Status, List, Unlock, Logs,
             CopyLog, LookAtRecord, Quiet, recordVars
    <2> QED
      BY <2>2
  <1>4. CASE UnitStep(r)
    <2>1. file' = file
      BY <1>4, SettledUnit
         DEF UnitStep, FinishGoesOn, FinishRead, FinishOpen, FinishWrite, FinishRename,
             RemoveWorktree, OpenLog, Output, CommandExits, FinishKilled, recordVars
    <2> QED
      BY <2>1
  <1>5. CASE Reboot
    BY <1>5 DEF Reboot
  <1> QED
    BY <1>1, <1>2, <1>3, <1>4, <1>5 DEF Next

\* The recorded outcome of a command that ran is never lost or replaced, for
\* any calls and requests: neither by the call that started the run and gives
\* up (run.go fail) nor by a second end.
THEOREM OutcomeStays == ASSUME StartErrorIsFinal PROVE Spec => OutcomeKept
  <1>1. GateInv /\ [Next]_vars =>
          [\A r \in Call : Ended(r) /\ result[r] \in {"success", "exit-code"}
             => file'[r].record = file[r].record]_vars
    BY SettledStays DEF Settled
  <1> QED
    BY <1>1, GateHolds, PTL DEF Spec, OutcomeKept

\* The extra_vars of c are no argument for a unit.
Unprintable(c) == request[c] # NoRequest /\ ~Printable(request[c])

SecretInv(c) ==
  /\ stored[c].vars # "secret"
  /\ \A i \in DOMAIN journal[c] : journal[c][i].stored.vars # "secret"
  /\ "quote" \in Texts(c) \cup {finRec[c].error} => Unprintable(c)
  /\ at[c] = "idle" <=> request[c] = NoRequest
  /\ at[c] = "idle" \/ Unprintable(c) => unit[c] = "none" /\ fin[c] = "none"

Secrets == journal = [c \in Call |-> journal[c]] /\ \A c \in Call : SecretInv(c)

\* No write brings a text that was not there.
LEMMA WrittenTexts ==
  ASSUME TypeOK, NEW r \in Call, NEW w \in Writers, NEW rec,
         \/ OpenTmp(r, w) \/ PutRecord(r, w, rec) \/ SpoilRecord(r, w) \/ RenameTmp(r)
         \/ WriteFails
  PROVE  {file'[r].record.error, file'[r].tmp.error}
           \subseteq {file[r].record.error, file[r].tmp.error, rec.error, "none"}
  <1> USE DEF TypeOK, Holding
  <1>1. CASE OpenTmp(r, w)
    BY <1>1 DEF OpenTmp
  <1>2. CASE PutRecord(r, w, rec)
    <2>1. CASE pen[r][w] = "tmp"
      <3>1. PICK x \in Over(file[r].tmp, rec) : file' = [file EXCEPT ![r].tmp = x]
        BY <1>2, <2>1 DEF PutRecord
      <3>2. x.error \in {rec.error, "none"}
        BY DEF Over
      <3> QED
        BY <3>1, <3>2
    <2>2. CASE pen[r][w] = "record"
      <3>1. PICK x \in Over(file[r].record, rec) : file' = [file EXCEPT ![r].record = x]
        BY <1>2, <2>2 DEF PutRecord
      <3>2. x.error \in {rec.error, "none"}
        BY DEF Over
      <3> QED
        BY <3>1, <3>2
    <2>3. CASE pen[r][w] \notin {"tmp", "record"}
      BY <1>2, <2>3 DEF PutRecord
    <2> QED
      BY <2>1, <2>2, <2>3
  <1>3. CASE SpoilRecord(r, w)
    BY <1>3 DEF SpoilRecord
  <1>4. CASE RenameTmp(r)
    BY <1>4 DEF RenameTmp, NoFile
  <1>5. CASE WriteFails
    BY <1>5 DEF WriteFails
  <1> QED
    BY <1>1, <1>2, <1>3, <1>4, <1>5

\* The steps of other runs.
LEMMA SecretSame ==
  ASSUME NEW r \in Call, SecretInv(r), Same(r), journal'[r] = journal[r]
  PROVE  SecretInv(r)'
  BY DEF SecretInv, Same, Texts, Unprintable

LEMMA JournalFrame ==
  ASSUME Secrets, NEW r \in Call, NEW c \in Call, CallStep(c) \/ UnitStep(c),
         r # c \/ ~RecordRequest(c)
  PROVE  journal'[r] = journal[r]
  <1>1. CASE RecordRequest(c)
    BY <1>1 DEF RecordRequest, Secrets
  <1>2. CASE ~RecordRequest(c)
    BY <1>2 DEF CallStep, CallGoesOn, Receive, Kill, RequireOnMain, Create, OpenRecordTmp,
       WriteRecord, RenameRecord, AddWorktree, RefuseArgument, StartUnit, UnitFailed, Status, List,
       Unlock, Logs, CopyLog, LookAtRecord, Goto, Error, UnitStep, FinishGoesOn, FinishRead,
       FinishOpen, FinishWrite, FinishRename, RemoveWorktree, FinishGoes, FinishEnds, OpenLog,
       Output, CommandExits, FinishKilled, FinVars, callVars
  <1> QED
    BY <1>1, <1>2

LEMMA SecretCall ==
  ASSUME TypeOK, Secrets, NEW c \in Call, CallStep(c)
  PROVE  SecretInv(c)'
  <1>0. SecretInv(c)
    BY DEF Secrets
  <1> USE DEF Goto, Error, Met
  <1>1. ASSUME NEW q \in Asks[c], Receive(c, q) PROVE SecretInv(c)'
    <2>0. q \in Request /\ q # NoRequest
      BY GateAssumption
    <2>1. Withheld(q).vars # "secret" /\ MaskedRequest(q).vars # "secret" /\ Unread.vars # "secret"
      BY <2>0 DEF Withheld, MaskedRequest, Unread, Request
    <2>2. stored'[c].vars # "secret"
      BY <1>1, <2>1 DEF Receive, Refuse, TypeOK
    <2>3. /\ at[c] = "idle" /\ at'[c] # "idle" /\ err'[c] \in {err[c], "other"}
          /\ request'[c] # NoRequest
      BY <1>1, <2>0 DEF Receive, Refuse, TypeOK
    <2>4. UNCHANGED <<journal, file, unit, fin, finRec>>
      BY <1>1 DEF Receive, recordVars, unitVars
    <2>5. "quote" \notin Texts(c) \cup {finRec[c].error}
      BY <1>0, <2>3 DEF SecretInv, Unprintable
    <2>6. "quote" \notin (Texts(c) \cup {finRec[c].error})'
      BY <2>3, <2>4, <2>5 DEF Texts
    <2> QED
      BY <1>0, <2>2, <2>3, <2>4, <2>6 DEF SecretInv
  <1>2. CASE RecordRequest(c)
    <2> DEFINE line == <<[stored |-> stored[c], error |-> err[c]]>>
    <2>1. journal'[c] = journal[c] \/ journal'[c] = line
      BY <1>2 DEF RecordRequest, Secrets
    <2>2. DOMAIN line = {1} /\ line[1].stored = stored[c] /\ line[1].error = err[c]
      OBVIOUS
    <2> HIDE DEF line
    <2>3. /\ at[c] = "answered" /\ at'[c] = "over" /\ err'[c] \in {err[c], "other"}
          /\ UNCHANGED <<request, stored, file, unit, fin, finRec>>
      BY <1>2 DEF RecordRequest, TypeOK, recordVars, unitVars
    <2>4. \A i \in DOMAIN journal'[c] : journal'[c][i].stored.vars # "secret"
      BY <1>0, <2>1, <2>2 DEF SecretInv
    <2>5. "quote" \in (Texts(c) \cup {finRec[c].error})' => "quote" \in Texts(c) \cup {finRec[c].error}
      BY <2>1, <2>2, <2>3 DEF Texts
    <2> QED
      BY <1>0, <2>3, <2>4, <2>5 DEF SecretInv, Unprintable
  <1>3. CASE RefuseArgument(c)
    <2>1. Unprintable(c)
      BY <1>0, <1>3 DEF RefuseArgument, Unprintable, SecretInv
    <2>2. /\ at'[c] = "failing" /\ at[c] = "prepared"
          /\ UNCHANGED <<request, stored, journal, unit, fin>>
      BY <1>3 DEF RefuseArgument, unitVars, TypeOK
    <2> QED
      BY <1>0, <2>1, <2>2 DEF SecretInv, Unprintable
  <1>4. CASE StartUnit(c)
    <2>1. /\ at[c] = "prepared" /\ at'[c] # "idle" /\ Printable(request[c])
          /\ err'[c] \in {err[c], "other"}
          /\ UNCHANGED <<request, stored, journal, file, finRec>>
      BY <1>4 DEF StartUnit, recordVars, TypeOK
    <2>2. ~Unprintable(c) /\ ~Unprintable(c)'
      BY <2>1 DEF Unprintable
    <2>3. "quote" \notin (Texts(c) \cup {finRec[c].error})'
      BY <1>0, <2>1, <2>2 DEF SecretInv, Texts
    <2> QED
      BY <1>0, <2>1, <2>2, <2>3 DEF SecretInv
  <1>5. CASE OpenRecordTmp(c) \/ WriteRecord(c) \/ RenameRecord(c)
    <2> DEFINE rec == IF at[c] = "open" THEN FirstRecord ELSE FailedRecord(c)
    <2>1. /\ at'[c] # "idle" /\ err'[c] \in {err[c], "other"}
          /\ at[c] # "idle" /\ UNCHANGED <<request, stored, journal, unit, fin, finRec>>
      BY <1>5 DEF OpenRecordTmp, WriteRecord, RenameRecord, unitVars, TypeOK
    <2>2. rec.error \in {err[c], "none"}
      BY DEF FirstRecord, FailedRecord, Holding
    <2>3. \/ OpenTmp(c, "gate") \/ PutRecord(c, "gate", rec) \/ SpoilRecord(c, "gate")
          \/ RenameTmp(c) \/ WriteFails
      BY <1>5 DEF OpenRecordTmp, WriteRecord, RenameRecord
    <2>4. "gate" \in Writers
      BY DEF Writers
    <2> HIDE DEF rec
    <2>5. {file'[c].record.error, file'[c].tmp.error}
             \subseteq {file[c].record.error, file[c].tmp.error, err[c], "none"}
      BY <2>2, <2>3, <2>4, WrittenTexts
    <2>6. "quote" \in (Texts(c) \cup {finRec[c].error})' => "quote" \in Texts(c) \cup {finRec[c].error}
      BY <2>1, <2>5 DEF Texts
    <2> QED
      BY <1>0, <2>1, <2>6 DEF SecretInv, Unprintable
  <1>6. CASE ~RecordRequest(c) /\ ~StartUnit(c) /\ ~RefuseArgument(c) /\ ~OpenRecordTmp(c)
             /\ ~WriteRecord(c) /\ ~RenameRecord(c) /\ \A q \in Asks[c] : ~Receive(c, q)
    <2>1. /\ UNCHANGED <<request, stored, journal, file, unit, fin, finRec>>
          /\ at[c] # "idle" /\ at'[c] # "idle" /\ err'[c] \in {err[c], "other"}
      <3>1. CASE Kill(c)
        BY <3>1 DEF Kill, unitVars, TypeOK
      <3>2. CASE RequireOnMain(c) \/ Create(c) \/ AddWorktree(c) \/ UnitFailed(c)
        BY <3>2 DEF RequireOnMain, Starting, Create, AddWorktree, UnitFailed, recordVars, unitVars,
           TypeOK
      <3>3. CASE Status(c) \/ List(c) \/ Unlock(c) \/ Logs(c) \/ LookAtRecord(c)
        BY <3>3 DEF Status, List, Unlock, Logs, LookAtRecord, Reading, Quiet, recordVars, unitVars,
           TypeOK
      <3>4. CASE CopyLog(c)
        BY <3>4 DEF CopyLog, recordVars, unitVars, TypeOK
      <3> QED
        BY <1>6, <3>1, <3>2, <3>3, <3>4 DEF CallStep, CallGoesOn
    <2>2. "quote" \in (Texts(c) \cup {finRec[c].error})' => "quote" \in Texts(c) \cup {finRec[c].error}
      BY <2>1 DEF Texts
    <2> QED
      BY <1>0, <2>1, <2>2 DEF SecretInv, Unprintable
  <1> QED
    BY <1>1, <1>2, <1>3, <1>4, <1>5, <1>6

LEMMA SecretUnit ==
  ASSUME TypeOK, Secrets, NEW r \in Call, UnitStep(r)
  PROVE  SecretInv(r)'
  <1>0. SecretInv(r)
    BY DEF Secrets
  <1>1. UNCHANGED <<at, request, stored, err, journal>>
    BY DEF UnitStep, FinishGoesOn, FinishRead, FinishOpen, FinishWrite, FinishRename,
       RemoveWorktree, FinishGoes, FinishEnds, OpenLog, Output, CommandExits, FinishKilled, FinVars,
       callVars
  <1>2. unit[r] # "none" \/ fin[r] # "none"
    BY DEF UnitStep, FinishGoesOn, FinishRead, FinishOpen, FinishWrite, FinishRename,
       RemoveWorktree, OpenLog, Output, CommandExits, FinishKilled
  <1>3. at[r] # "idle" /\ ~Unprintable(r) /\ ~Unprintable(r)'
    BY <1>0, <1>1, <1>2 DEF SecretInv, Unprintable
  <1>4. "quote" \notin Texts(r) \cup {finRec[r].error}
    BY <1>0, <1>3 DEF SecretInv
  <1>5. finRec'[r].error \in {finRec[r].error, file[r].record.error}
    <2>1. CASE FinishRead(r)
      <3> DEFINE rec == [file[r].record EXCEPT !.ended = TRUE, !.result = result[r]]
      <3>1. file[r].record \in Content
        BY DEF TypeOK
      <3>2. rec.error = file[r].record.error
        BY <3>1 DEF Content
      <3>3. finRec' = finRec \/ finRec'[r] = rec
        BY <2>1 DEF FinishRead, TypeOK
      <3> HIDE DEF rec
      <3> QED
        BY <3>2, <3>3
    <2>2. CASE ~FinishRead(r)
      BY <2>2 DEF UnitStep, FinishGoesOn, FinishOpen, FinishWrite, FinishRename, RemoveWorktree,
         OpenLog, Output, CommandExits, FinishKilled
    <2> QED
      BY <2>1, <2>2
  <1>6. {file'[r].record.error, file'[r].tmp.error}
           \subseteq {file[r].record.error, file[r].tmp.error, finRec[r].error, "none"}
    <2>1. CASE \/ OpenTmp(r, "finish") \/ PutRecord(r, "finish", finRec[r])
               \/ SpoilRecord(r, "finish") \/ RenameTmp(r) \/ WriteFails
      BY <2>1, WrittenTexts, RecordsTyped
    <2>2. CASE file' = file
      BY <2>2
    <2> QED
      BY <2>1, <2>2
         DEF UnitStep, FinishGoesOn, FinishRead, FinishOpen, FinishWrite, FinishRename,
             RemoveWorktree, OpenLog, Output, CommandExits, FinishKilled, recordVars
  <1>7. "quote" \notin (Texts(r) \cup {finRec[r].error})'
    BY <1>1, <1>4, <1>5, <1>6 DEF Texts
  <1> QED
    BY <1>0, <1>1, <1>3, <1>7 DEF SecretInv

LEMMA SecretStep ==
  ASSUME TypeOK, Secrets, [Next]_vars
  PROVE  Secrets'
  <1>1. ASSUME NEW c \in Call, CallStep(c) \/ UnitStep(c), NEW r \in Call PROVE SecretInv(r)'
    <2>1. CASE r = c
      BY <1>1, <2>1, SecretCall, SecretUnit
    <2>2. CASE r # c
      <3>1. Same(r)
        BY <1>1, <2>2, CallFrame, UnitFrame
      <3> QED
        BY <1>1, <2>2, <3>1, JournalFrame, SecretSame DEF Secrets
    <2> QED
      BY <2>1, <2>2
  <1>2. ASSUME UNCHANGED vars \/ Reboot, NEW r \in Call PROVE SecretInv(r)'
    <2>0. SecretInv(r)
      BY DEF Secrets
    <2>1. /\ UNCHANGED <<request, stored, err, journal, file, finRec>>
          /\ at[r] = "idle" <=> at'[r] = "idle"
          /\ unit[r] = "none" /\ fin[r] = "none" => unit'[r] = "none" /\ fin'[r] = "none"
      <3>1. CASE UNCHANGED vars
        BY <3>1 DEF vars, callVars, recordVars, unitVars
      <3>2. CASE Reboot
        BY <3>2 DEF Reboot
      <3> QED
        BY <1>2, <3>1, <3>2
    <2>2. Texts(r)' = Texts(r) /\ (Unprintable(r)' <=> Unprintable(r))
      BY <2>1 DEF Texts, Unprintable
    <2> QED
      BY <2>0, <2>1, <2>2 DEF SecretInv
  <1>3. journal' = [c \in Call |-> journal'[c]]
    <2>0. journal = [c \in Call |-> journal[c]]
      BY DEF Secrets
    <2>1. CASE \E c \in Call : RecordRequest(c)
      <3>1. PICK c \in Call : RecordRequest(c)
        BY <2>1
      <3>2. journal' = journal
            \/ journal' = [journal EXCEPT ![c] = <<[stored |-> stored[c], error |-> err[c]]>>]
        BY <3>1 DEF RecordRequest
      <3> QED
        BY <2>0, <3>2
    <2>2. CASE ~\E c \in Call : RecordRequest(c)
      <3>1. ASSUME NEW c \in Call, CallStep(c) PROVE journal' = journal
        BY <2>2, <3>1 DEF CallStep, CallGoesOn, Receive, Kill, RequireOnMain, Create, OpenRecordTmp,
           WriteRecord, RenameRecord, AddWorktree, RefuseArgument, StartUnit, UnitFailed, Status,
           List, Unlock, Logs, CopyLog, LookAtRecord, Goto, Error
      <3>2. ASSUME NEW c \in Call, UnitStep(c) PROVE journal' = journal
        BY <3>2 DEF UnitStep, FinishGoesOn, FinishRead, FinishOpen, FinishWrite, FinishRename,
           RemoveWorktree, FinishGoes, FinishEnds, OpenLog, Output, CommandExits, FinishKilled,
           FinVars, callVars
      <3>3. Reboot => journal' = journal
        BY DEF Reboot
      <3>4. UNCHANGED vars => journal' = journal
        BY DEF vars, callVars
      <3> QED
        BY <2>0, <3>1, <3>2, <3>3, <3>4 DEF Next
    <2> QED
      BY <2>1, <2>2
  <1>4. ASSUME NEW r \in Call PROVE SecretInv(r)'
    <2>1. CASE UNCHANGED vars \/ Reboot
      BY <1>2, <2>1
    <2>2. CASE \E c \in Call : CallStep(c) \/ UnitStep(c)
      BY <1>1, <2>2
    <2> QED
      BY <2>1, <2>2 DEF Next
  <1> QED
    BY <1>3, <1>4 DEF Secrets

\* What records and the journal keep of a request holds no secret that a pattern
\* matches, and an error text quotes extra_vars only for a run whose arguments
\* were refused and that never had a unit: for any calls and requests, and
\* however systemd-run reports errors (mask.go, gate.go fail, args.go).
THEOREM SecretsHold == Spec => []SecretsMasked
  <1>1. Init => Secrets
    BY DEF Init, Secrets, SecretInv, Texts, Unprintable, Unread, NoFile, FirstRecord,
           Holding
  <1>2. TypeOK /\ Secrets /\ [Next]_vars => Secrets'
    BY SecretStep
  <1>3. Secrets => SecretsMasked
    BY DEF Secrets, SecretInv, SecretsMasked, Unprintable
  <1> QED
    BY <1>1, <1>2, <1>3, Typed, PTL DEF Spec

-----------------------------------------------------------------------------
(***************************************************************************)
(* What a follower has shown when it stops.                                *)
(***************************************************************************)

\* The call follows the log of its run.
Follows(c) == stored[c].kind = "logs" /\ "follow" \in stored[c].fields

\* The call has copied the run log of its run, but for what came after that.
CaughtUp(c) ==
  logs[stored[c].run] # <<>> => offset[c] + late[c] >= logs[stored[c].run][1].output

\* What a call that reads has copied.
ReaderInv(c) ==
  /\ offset[c] \in Nat /\ late[c] \in Nat
  /\ \A n \in 1 .. offset[c] : <<1, n>> \in shown[c]
  /\ at[c] \in {"copying", "looking"} => stored[c].kind = "logs"
  /\ at[c] = "looking" => Follows(c) /\ CaughtUp(c)
  /\ at[c] = "answered" /\ err[c] = "none" /\ Follows(c) => Ended(stored[c].run) /\ CaughtUp(c)

\* A run has one run log, and none before its unit or when there is no unit.
LogInv(r) ==
  /\ Len(logs[r]) <= 1
  /\ at[r] \in Early \cup Failing \cup {"waiting"} => logs[r] = <<>>

FollowInv ==
  /\ GateInv
  /\ offset = [c \in Call |-> offset[c]] /\ shown = [c \in Call |-> shown[c]]
  /\ late = [c \in Call |-> late[c]]
  /\ \A c \in Call : ReaderInv(c)
  /\ \A r \in Call : LogInv(r)

\* A step of a unit changes no call and nothing that a call has read.
LEMMA UnitReads ==
  ASSUME NEW r, UnitStep(r)
  PROVE  UNCHANGED <<at, stored, err, offset, shown>>
  BY DEF UnitStep, FinishGoesOn, FinishRead, FinishOpen, FinishWrite, FinishRename, RemoveWorktree,
         FinishGoes, FinishEnds, OpenLog, Output, CommandExits, FinishKilled, FinVars, callVars,
         readVars

\* A step of a call changes no unit's run logs.
LEMMA CallWritesNoLog ==
  ASSUME NEW c, CallStep(c)
  PROVE  logs' = logs
  BY DEF CallStep, CallGoesOn, Receive, Kill, RecordRequest, RequireOnMain, Create, OpenRecordTmp,
         WriteRecord, RenameRecord, AddWorktree, RefuseArgument, StartUnit, UnitFailed, Status,
         List, Unlock, Logs, CopyLog, LookAtRecord, Quiet, unitVars

\* A record that is ended stays so, and its run writes no more.
LEMMA EndedStays ==
  ASSUME GateInv, NEW r \in Call, Ended(r), [Next]_vars
  PROVE  Ended(r)' /\ logs'[r] = logs[r]
  <1>0. TypeOK /\ RunInv(r)
    BY DEF GateInv, RunInv
  <1>1. /\ at[r] \notin Early
        /\ fin[r] \notin {"read", "open", "put"} /\ unit[r] # "running"
    BY <1>0 DEF TypeOK, RunInv, OneWriter, EndedIsOver
  <1>2. CASE UNCHANGED vars
    BY <1>2 DEF vars, recordVars, unitVars, Ended, Readable
  <1>3. ASSUME NEW c \in Call, c # r, CallStep(c) PROVE Ended(r)' /\ logs'[r] = logs[r]
    BY <1>0, <1>3, CallFrame, CallWritesNoLog DEF Same, Ended, Readable
  <1>4. ASSUME NEW c \in Call, c # r, UnitStep(c) PROVE Ended(r)' /\ logs'[r] = logs[r]
    <2>1. Ended(r)'
      BY <1>0, <1>4, UnitFrame DEF Same, Ended, Readable
    <2>2. logs'[r] = logs[r]
      BY <1>0, <1>4 DEF TypeOK, UnitStep, FinishGoesOn, FinishRead, FinishOpen, FinishWrite,
         FinishRename, RemoveWorktree, FinishGoes, FinishEnds, OpenLog, Output, CommandExits,
         FinishKilled, FinVars
    <2> QED
      BY <2>1, <2>2
  <1>5. CASE CallStep(r)
    <2>0. ASSUME file'[r].record = file[r].record PROVE Ended(r)' /\ logs'[r] = logs[r]
      BY <2>0, <1>5, CallWritesNoLog DEF Ended, Readable
    <2>1. CASE RenameRecord(r)
      <3>1. at[r] = "fail put" /\ pen[r].gate = "closed" /\ pen[r].finish = "closed"
        BY <1>0, <1>1, <2>1 DEF RenameRecord, RunInv, PenInTmp, Early, Making
      <3>2. CASE RenameTmp(r)
        <4>1. file'[r].record = FailedRecord(r)
          BY <1>0, <3>1, <3>2, Renames DEF RunInv, PenInTmp
        <4> QED
          BY <4>1, <1>5, CallWritesNoLog DEF Ended, Readable, FailedRecord, FirstRecord, Holding
      <3>3. CASE WriteFails
        BY <2>0, <3>3 DEF WriteFails
      <3> QED
        BY <2>1, <3>2, <3>3 DEF RenameRecord
    <2>2. CASE OpenRecordTmp(r)
      <3>1. file'[r].record = file[r].record
        BY <1>0, <2>2, GateOpens DEF OpenRecordTmp, WriteFails
      <3> QED
        BY <2>0, <3>1
    <2>3. CASE WriteRecord(r)
      <3>1. pen[r].gate = "tmp" /\ file[r].tmp = Holding("empty")
        BY <1>0, <2>3 DEF WriteRecord, RunInv, PenInTmp
      <3>2. CASE SpoilRecord(r, "gate")
        BY <1>0, <2>0, <3>1, <3>2, GateSpoils
      <3>3. CASE \E rec \in Record : PutRecord(r, "gate", rec)
        BY <1>0, <2>0, <3>1, <3>3, GatePuts
      <3> QED
        BY <1>0, <2>3, <3>2, <3>3, RecordsTyped DEF WriteRecord
    <2>4. CASE ~OpenRecordTmp(r) /\ ~WriteRecord(r) /\ ~RenameRecord(r)
      <3>1. file' = file
        BY <1>5, <2>4
           DEF CallStep, CallGoesOn, Receive, Kill, RecordRequest, RequireOnMain, Create,
               AddWorktree, RefuseArgument, StartUnit, UnitFailed, Status, List, Unlock, Logs,
               CopyLog, LookAtRecord, Quiet, recordVars
      <3> QED
        BY <2>0, <3>1
    <2> QED
      BY <2>1, <2>2, <2>3, <2>4
  <1>6. CASE UnitStep(r)
    <2>1. FinishRead(r) \/ RemoveWorktree(r) \/ CommandExits(r)
      BY <1>1, <1>6 DEF UnitStep, FinishGoesOn, FinishOpen, FinishWrite, FinishRename, OpenLog,
         Output, CommandExits, FinishKilled
    <2>2. file' = file /\ logs' = logs
      BY <2>1 DEF FinishRead, RemoveWorktree, CommandExits, FinVars, recordVars
    <2> QED
      BY <2>2 DEF Ended, Readable
  <1>7. CASE Reboot
    BY <1>7 DEF Reboot, Ended, Readable
  <1> QED
    BY <1>2, <1>3, <1>4, <1>5, <1>6, <1>7 DEF Next

\* A run keeps to its one run log.
LEMMA LogStep ==
  ASSUME MaxFiles <= 1, StartErrorIsFinal, GateInv, NEW r \in Call, LogInv(r), [Next]_vars
  PROVE  LogInv(r)'
  <1>0. TypeOK /\ OneWriter(r) /\ Admitted(r)
    BY DEF GateInv
  <1>1. logs[r] \in Seq([label : Labels, output : Nat])
    BY <1>0 DEF TypeOK
  <1>2. at'[r] \in Early \cup Failing \cup {"waiting"}
          => at[r] \in Early \cup Failing \cup {"waiting"}
    <2>1. CASE UNCHANGED vars
      BY <2>1 DEF vars, callVars
    <2>2. ASSUME NEW c \in Call, UnitStep(c) PROVE at' = at
      BY <2>2, UnitReads
    <2>3. ASSUME NEW c \in Call, CallStep(c), c # r PROVE at'[r] = at[r]
      BY <1>0, <2>3, CallFrame DEF Same
    <2>4. ASSUME CallStep(r) PROVE at[r] \in Early \cup Failing \cup {"waiting"}
             \/ at'[r] \notin Early \cup Failing \cup {"waiting"}
      <3> USE <1>0 DEF TypeOK, Goto, Error, Early, Making, Failing
      <3>1. CASE \E q \in Asks[r] : Receive(r, q)
        BY <3>1 DEF Receive
      <3>2. CASE RecordRequest(r) \/ Kill(r) \/ UnitFailed(r)
        BY <3>2 DEF RecordRequest, Kill, UnitFailed
      <3>3. CASE RequireOnMain(r) \/ Create(r) \/ OpenRecordTmp(r) \/ WriteRecord(r)
                   \/ RenameRecord(r) \/ AddWorktree(r) \/ RefuseArgument(r) \/ StartUnit(r)
        BY <3>3 DEF RequireOnMain, Starting, Create, OpenRecordTmp, WriteRecord, RenameRecord,
           AddWorktree, RefuseArgument, StartUnit
      <3>4. CASE Status(r) \/ List(r) \/ Unlock(r) \/ Logs(r)
        BY <3>4 DEF Status, List, Unlock, Logs, Reading
      <3>5. CASE CopyLog(r) \/ LookAtRecord(r)
        BY <3>5 DEF CopyLog, LookAtRecord
      <3> QED
        BY <2>4, <3>1, <3>2, <3>3, <3>4, <3>5 DEF CallStep, CallGoesOn
    <2>5. ASSUME Reboot PROVE at'[r] \in {at[r], "gone"}
      BY <2>5 DEF Reboot
    <2>6. "gone" \notin Early \cup Failing \cup {"waiting"}
      BY DEF Early, Making, Failing
    <2> QED
      BY <2>1, <2>2, <2>3, <2>4, <2>5, <2>6 DEF Next
  <1>3. logs'[r] = logs[r] \/ (unit[r] = "running" /\ Len(logs'[r]) <= 1 /\ at' = at)
    <2>1. CASE UNCHANGED vars
      BY <2>1 DEF vars, unitVars
    <2>2. ASSUME NEW c \in Call, CallStep(c) PROVE logs' = logs
      BY <2>2, CallWritesNoLog
    <2>3. CASE Reboot
      BY <2>3 DEF Reboot
    <2>4. ASSUME NEW c \in Call, UnitStep(c) PROVE logs'[r] = logs[r] \/ (unit[r] = "running" /\ Len(logs'[r]) <= 1)
      <3>1. CASE \E label \in Labels : OpenLog(c, label)
        <4>1. PICK label \in Labels : OpenLog(c, label)
          BY <3>1
        <4>2. CASE c # r
          BY <1>0, <4>1, <4>2 DEF OpenLog, TypeOK
        <4>3. CASE c = r
          <5>1. Len(logs[r]) < MaxFiles /\ Len(logs[r]) \in Nat
            BY <1>1, <4>1, <4>3 DEF OpenLog
          <5>2. logs'[r] = Append(logs[r], [label |-> label, output |-> 0]) /\ unit[r] = "running"
            BY <1>0, <4>1, <4>3 DEF OpenLog, TypeOK
          <5>3. Len(logs'[r]) = Len(logs[r]) + 1
            BY <1>1, <5>2
          <5> QED
            BY <5>1, <5>2, <5>3, GateAssumption
        <4> QED
          BY <4>2, <4>3
      <3>2. CASE Output(c)
        <4>1. CASE c # r
          BY <1>0, <3>2, <4>1 DEF Output, TypeOK
        <4>2. CASE c = r
          <5>1. logs'[r] = [logs[r] EXCEPT ![Len(logs[r])].output = @ + 1] /\ unit[r] = "running"
            BY <1>0, <3>2, <4>2 DEF Output, TypeOK
          <5>2. Len(logs'[r]) = Len(logs[r])
            BY <1>1, <5>1
          <5> QED
            BY <5>1, <5>2 DEF LogInv
        <4> QED
          BY <4>1, <4>2
      <3>3. CASE CommandExits(c) \/ FinishGoesOn(c) \/ FinishKilled(c)
        BY <3>3 DEF CommandExits, FinishGoesOn, FinishRead, FinishOpen, FinishWrite, FinishRename,
           RemoveWorktree, FinishGoes, FinishEnds, FinishKilled, FinVars
      <3> QED
        BY <2>4, <3>1, <3>2, <3>3 DEF UnitStep
    <2>5. ASSUME NEW c \in Call, UnitStep(c) PROVE at' = at
      BY <2>5, UnitReads
    <2> QED
      BY <2>1, <2>2, <2>3, <2>4, <2>5 DEF Next
  <1>4. CASE logs'[r] = logs[r]
    BY <1>2, <1>4 DEF LogInv
  <1>5. CASE unit[r] = "running" /\ Len(logs'[r]) <= 1 /\ at' = at
    <2>1. at[r] \notin Early \cup Failing \cup {"waiting"}
      BY <1>0, <1>5 DEF OneWriter
    <2> QED
      BY <1>5, <2>1 DEF LogInv
  <1> QED
    BY <1>3, <1>4, <1>5

\* A sequence that is not empty has a length.
LEMMA LongTyped ==
  ASSUME NEW S, NEW s \in Seq(S), s # <<>>
  PROVE  Len(s) # 0
  OBVIOUS

\* The one run log of a run.
LEMMA OnlyLog ==
  ASSUME TypeOK, NEW r \in Call, LogInv(r), logs[r] # <<>>
  PROVE  Len(logs[r]) = 1 /\ DOMAIN logs[r] = {1} /\ logs[r][1].output \in Nat
  <1>1. PICK s \in Seq([label : Labels, output : Nat]) : s = logs[r]
    BY DEF TypeOK
  <1>2. Len(s) \in Nat /\ Len(s) <= 1 /\ DOMAIN s = 1 .. Len(s)
    BY <1>1 DEF LogInv
  <1>3. Len(s) # 0
    BY <1>1, LongTyped
  <1>4. Len(s) = 1
    BY <1>2, <1>3
  <1>5. s[1] \in [label : Labels, output : Nat]
    <2>1. 1 \in 1 .. Len(s)
      BY <1>4
    <2> QED
      BY <1>1, <2>1, ElementTyped, Zenon
  <1> QED
    BY <1>1, <1>2, <1>4, <1>5

\* The runs that calls read about are runs of calls.
LEMMA ReadRun ==
  ASSUME TypeOK, NEW c \in Call, stored[c].kind = "logs"
  PROVE  stored[c].run \in Call
  BY DEF TypeOK, Unread, Request

\* A call that does nothing stays a good reader, when it has caught up with
\* what comes before its look.
LEMMA ReaderSame ==
  ASSUME FollowInv, NEW c \in Call, [Next]_vars,
         at'[c] = at[c], stored'[c] = stored[c], err'[c] = err[c],
         offset'[c] = offset[c], shown'[c] = shown[c], late'[c] \in Nat,
         IF at[c] = "looking" THEN CaughtUp(c)' ELSE late'[c] = late[c]
  PROVE  ReaderInv(c)'
  <1> DEFINE r == stored[c].run
  <1>0. TypeOK /\ ReaderInv(c) /\ GateInv
    BY DEF FollowInv, GateInv
  <1>1. CASE ~Follows(c)
    BY <1>0, <1>1 DEF ReaderInv, Follows
  <1>2. CASE Follows(c)
    <2>1. r \in Call
      BY <1>0, <1>2, ReadRun DEF Follows
    <2>2. Follows(c)'
      BY <1>2 DEF Follows
    <2>3. at[c] # "looking" /\ CaughtUp(c) /\ Ended(r) => CaughtUp(c)' /\ Ended(r)'
      BY <1>0, <2>1, EndedStays DEF CaughtUp
    <2>4. r = stored'[c].run /\ Ended(stored[c].run)' = Ended(r)'
      OBVIOUS
    <2> QED
      BY <1>0, <1>2, <2>2, <2>3 DEF ReaderInv, Follows
  <1> QED
    BY <1>1, <1>2

\* What comes before the look of a call is counted.
LEMMA UnitCounts ==
  ASSUME MaxFiles <= 1, FollowInv, NEW c \in Call, NEW d \in Call, UnitStep(d)
  PROVE  /\ late'[c] \in Nat
         /\ IF at[c] = "looking" THEN CaughtUp(c)' ELSE late'[c] = late[c]
  <1> DEFINE r == stored[c].run
  <1>0. TypeOK /\ ReaderInv(c) /\ offset[c] \in Nat /\ late[c] \in Nat
    BY DEF FollowInv, GateInv, ReaderInv
  <1>1. UNCHANGED <<at, stored, offset>>
    BY UnitReads
  <1>3. ASSUME at[c] = "looking" PROVE r \in Call /\ LogInv(r) /\ CaughtUp(c)
    BY <1>0, <1>3, ReadRun DEF ReaderInv, FollowInv
  <1>4. CASE \E label \in Labels : OpenLog(d, label)
    <2>1. PICK label \in Labels : OpenLog(d, label)
      BY <1>4
    <2>2. late' = late
      BY <2>1 DEF OpenLog, readVars
    <2>3. CASE d = r
      <3>1. logs[d] \in Seq([label : Labels, output : Nat]) /\ Len(logs[d]) < MaxFiles
        BY <1>0, <2>1 DEF OpenLog, TypeOK
      <3>2. logs[d] = <<>>
        BY <3>1, GateAssumption
      <3>3. logs'[d] = <<[label |-> label, output |-> 0]>>
        BY <1>0, <2>1, <3>2 DEF OpenLog, TypeOK
      <3> QED
        BY <1>0, <1>1, <2>2, <2>3, <3>3 DEF CaughtUp
    <2>4. CASE d # r
      <3>1. at[c] = "looking" => logs'[r] = logs[r]
        BY <1>0, <1>3, <2>1, <2>4 DEF OpenLog, TypeOK
      <3> QED
        BY <1>0, <1>1, <1>3, <2>2, <3>1 DEF CaughtUp
    <2> QED
      BY <2>3, <2>4
  <1>5. CASE Output(d)
    <2>1. late'[c] = IF at[c] = "looking" /\ r = d THEN late[c] + 1 ELSE late[c]
      BY <1>5 DEF Output
    <2>2. CASE at[c] # "looking"
      BY <1>0, <2>1, <2>2
    <2>3. CASE at[c] = "looking" /\ r # d
      <3>1. logs'[r] = logs[r]
        BY <1>0, <1>3, <1>5, <2>3 DEF Output, TypeOK
      <3> QED
        BY <1>0, <1>1, <1>3, <2>1, <2>3, <3>1 DEF CaughtUp
    <2>4. CASE at[c] = "looking" /\ r = d
      <3>1. logs[r] # <<>>
        BY <1>5, <2>4 DEF Output
      <3>2. PICK n \in Nat : n = logs[r][1].output /\ Len(logs[r]) = 1 /\ DOMAIN logs[r] = {1}
        BY <1>0, <1>3, <2>4, <3>1, OnlyLog
      <3>3. offset[c] + late[c] >= n
        BY <1>3, <2>4, <3>1, <3>2 DEF CaughtUp
      <3>4. logs'[r] = [logs[r] EXCEPT ![1].output = @ + 1]
        BY <1>0, <1>5, <2>4, <3>2 DEF Output, TypeOK
      <3>5. logs[r][1] \in [label : Labels, output : Nat]
        <4>1. logs[r] \in Seq([label : Labels, output : Nat])
          BY <1>0, <1>3, <2>4 DEF TypeOK
        <4>2. 1 \in 1 .. Len(logs[r])
          BY <3>2
        <4> QED
          BY <4>1, <4>2, ElementTyped
      <3>6. logs'[r][1] = [logs[r][1] EXCEPT !.output = @ + 1]
        BY <3>2, <3>4
      <3>7. logs'[r][1].output = n + 1
        BY <3>2, <3>5, <3>6
      <3> QED
        BY <1>0, <1>1, <2>1, <2>4, <3>3, <3>7 DEF CaughtUp
    <2> QED
      BY <2>2, <2>3, <2>4
  <1>6. CASE ~(\E label \in Labels : OpenLog(d, label)) /\ ~Output(d)
    <2>1. UNCHANGED <<logs, late>>
      BY <1>6 DEF UnitStep, FinishGoesOn, FinishRead, FinishOpen, FinishWrite, FinishRename,
         RemoveWorktree, FinishGoes, FinishEnds, CommandExits, FinishKilled, FinVars, readVars
    <2> QED
      BY <1>0, <1>1, <1>3, <2>1 DEF CaughtUp
  <1> QED
    BY <1>4, <1>5, <1>6

\* What a call does on its own.
LEMMA ReaderOwn ==
  ASSUME FollowInv, StartErrorIsFinal, NEW c \in Call, CallStep(c)
  PROVE  ReaderInv(c)'
  <1> DEFINE r == stored[c].run
  <1>0. /\ TypeOK /\ ReaderInv(c) /\ Admitted(c)
        /\ offset = [d \in Call |-> offset[d]] /\ shown = [d \in Call |-> shown[d]]
        /\ late = [d \in Call |-> late[d]]
    BY DEF FollowInv, GateInv
  <1>a. logs' = logs
    BY CallWritesNoLog
  <1>1. CASE \E q \in Asks[c] : Receive(c, q)
    BY <1>0, <1>1 DEF Receive, Refuse, Met, readVars, ReaderInv, TypeOK
  <1>2. CASE RecordRequest(c) \/ Kill(c)
    BY <1>0, <1>2 DEF RecordRequest, Kill, Goto, readVars, ReaderInv, TypeOK
  <1>3. CASE \/ RequireOnMain(c) \/ Create(c) \/ OpenRecordTmp(c) \/ WriteRecord(c)
             \/ RenameRecord(c) \/ AddWorktree(c) \/ RefuseArgument(c) \/ StartUnit(c)
             \/ UnitFailed(c)
    <2>1. UNCHANGED <<stored, offset, shown, late>>
      BY <1>3 DEF RequireOnMain, Create, OpenRecordTmp, WriteRecord, RenameRecord, AddWorktree,
         RefuseArgument, StartUnit, UnitFailed, Goto, Error, readVars
    <2>2. stored[c].kind \in Starts
      <3>1. \/ at[c] = "accepted" /\ request[c].kind \in Starts
            \/ at[c] \in {"merged"} \cup Making \cup Failing \cup {"waiting"}
        BY <1>3 DEF RequireOnMain, Starting, Create, OpenRecordTmp, WriteRecord, RenameRecord,
           AddWorktree, RefuseArgument, StartUnit, UnitFailed, Making, Failing
      <3>2. at[c] \notin {"idle", "answered", "over", "gone"}
        BY <3>1 DEF Making, Failing
      <3>3. request[c] # NoRequest /\ stored[c] = MaskedRequest(request[c])
        BY <1>0, <3>2 DEF Admitted
      <3>4. request[c].kind \in Starts
        BY <1>0, <3>1 DEF Admitted
      <3>5. request[c] \in Request
        BY <1>0, <3>3 DEF TypeOK
      <3>6. MaskedRequest(request[c]).kind = request[c].kind
        BY <3>5 DEF MaskedRequest, Request
      <3> QED
        BY <3>3, <3>4, <3>6
    <2>3. at'[c] \notin {"copying", "looking"}
      BY <1>0, <1>3 DEF RequireOnMain, Create, OpenRecordTmp, WriteRecord, RenameRecord, AddWorktree,
         RefuseArgument, StartUnit, UnitFailed, Goto, Error, TypeOK
    <2>4. stored[c].kind # "logs"
      BY <2>2 DEF Starts
    <2> QED
      BY <1>0, <2>1, <2>3, <2>4 DEF ReaderInv, Follows
  <1>4. CASE Status(c) \/ List(c) \/ Unlock(c)
    <2>1. stored[c].kind # "logs" /\ stored' = stored /\ at'[c] = "answered"
          /\ UNCHANGED <<offset, shown, late>>
      BY <1>0, <1>4 DEF Status, List, Unlock, Reading, Goto, Error, TypeOK, Quiet, readVars
    <2> QED
      BY <1>0, <2>1 DEF ReaderInv, Follows
  <1>5. CASE Logs(c)
    <2>1. /\ stored[c].kind = "logs" /\ stored' = stored
          /\ at'[c] = "copying" \/ (at'[c] = "answered" /\ err'[c] # "none")
          /\ UNCHANGED <<offset, shown, late>>
      BY <1>0, <1>5 DEF Logs, Reading, Goto, Error, Met, TypeOK, Quiet, readVars
    <2> QED
      BY <1>0, <2>1 DEF ReaderInv, Follows
  <1>6. CASE CopyLog(c)
    <2>1. r \in Call /\ LogInv(r) /\ at[c] = "copying" /\ stored[c].kind = "logs"
      BY <1>0, <1>6, ReadRun DEF CopyLog, ReaderInv, FollowInv
    <2>2. /\ stored' = stored /\ err' = err /\ late'[c] = 0
          /\ at'[c] = IF "follow" \in stored[c].fields THEN "looking" ELSE "answered"
      BY <1>0, <1>6 DEF CopyLog, Goto, TypeOK
    <2>3. logs[r] # <<>> => PlayLog(r) = 1 /\ logs[r][1].output \in Nat
      <3> SUFFICES ASSUME logs[r] # <<>> PROVE PlayLog(r) = 1 /\ logs[r][1].output \in Nat
        OBVIOUS
      <3>1. DOMAIN logs[r] = {1} /\ logs[r][1].output \in Nat
        BY <1>0, <2>1, OnlyLog
      <3>2. \A i, j \in DOMAIN logs[r] : logs[r][i].label = logs[r][j].label /\ 1 <= 1
        BY <3>1
      <3> QED
        BY <3>1, <3>2 DEF PlayLog
    <2>4. PICK end \in Nat : end = IF logs[r] = <<>> THEN 0 ELSE logs[r][PlayLog(r)].output
      BY <2>3
    <2>5. PICK old \in Nat : old = offset[c]
      BY <1>0 DEF ReaderInv
    <2>6. offset'[c] = old + IF old < end THEN end - old ELSE 0
      BY <1>0, <1>6, <2>4, <2>5 DEF CopyLog
    <2>7. shown'[c] = shown[c] \cup {<<PlayLog(r), n>> : n \in old + 1 .. end}
      BY <1>0, <1>6, <2>4, <2>5 DEF CopyLog
    <2>8. offset'[c] \in Nat /\ offset'[c] >= end
      BY <2>6
    <2>9. \A n \in 1 .. offset'[c] : <<1, n>> \in shown'[c]
      <3> SUFFICES ASSUME NEW n \in 1 .. offset'[c] PROVE <<1, n>> \in shown'[c]
        OBVIOUS
      <3>1. n \in 1 .. old \/ n \in old + 1 .. end
        BY <2>6
      <3>2. CASE n \in 1 .. old
        BY <1>0, <2>5, <2>7, <3>2 DEF ReaderInv
      <3>3. CASE n \in old + 1 .. end
        <4>1. logs[r] # <<>>
          BY <2>4, <3>3
        <4> QED
          BY <2>3, <2>7, <3>3, <4>1
      <3> QED
        BY <3>1, <3>2, <3>3
    <2>10. CaughtUp(c)'
      BY <1>a, <2>2, <2>3, <2>4, <2>8 DEF CaughtUp
    <2>11. at'[c] = "looking" => Follows(c)'
      BY <2>1, <2>2 DEF Follows
    <2>12. at'[c] = "answered" => ~Follows(c)'
      BY <2>2 DEF Follows
    <2> QED
      BY <2>1, <2>2, <2>8, <2>9, <2>10, <2>11, <2>12 DEF ReaderInv
  <1>7. CASE LookAtRecord(c)
    <2>1. /\ stored' = stored /\ UNCHANGED <<file, logs, offset, shown, late>> /\ Follows(c)
          /\ at[c] = "looking"
          /\ \/ at'[c] = "answered" /\ err'[c] # "none"
             \/ at'[c] = "answered" /\ Ended(r)
             \/ at'[c] = "copying"
      BY <1>0, <1>7, <1>a DEF LookAtRecord, Goto, Error, Met, TypeOK, Quiet, readVars, recordVars,
         ReaderInv
    <2>2. CaughtUp(c)
      BY <1>0, <2>1 DEF ReaderInv
    <2>3. (Ended(r)' <=> Ended(r)) /\ (CaughtUp(c)' <=> CaughtUp(c)) /\ r' = r
      BY <2>1 DEF Ended, Readable, CaughtUp
    <2> QED
      BY <1>0, <2>1, <2>2, <2>3 DEF ReaderInv, Follows
  <1> QED
    BY <1>1, <1>2, <1>3, <1>4, <1>5, <1>6, <1>7 DEF CallStep, CallGoesOn

\* Readers and run logs stay as FollowInv has them.
LEMMA FollowStep ==
  ASSUME StartErrorIsFinal, MaxFiles <= 1, FollowInv, [Next]_vars
  PROVE  FollowInv'
  <1>0. GateInv /\ TypeOK
    BY DEF FollowInv, GateInv
  <1>1. GateInv'
    BY <1>0, StepKeepsGateInv
  <1>2. \A r \in Call : LogInv(r)'
    BY <1>0, LogStep DEF FollowInv
  <1>3. \/ UNCHANGED readVars
        \/ \E c \in Call : CopyLog(c)
        \/ UNCHANGED <<offset, shown>> /\ \E r \in Call : Output(r)
    <2>1. ASSUME NEW c \in Call, CallStep(c) PROVE UNCHANGED readVars \/ CopyLog(c)
      BY <2>1 DEF CallStep, CallGoesOn, Receive, Kill, RecordRequest, RequireOnMain, Create,
         OpenRecordTmp, WriteRecord, RenameRecord, AddWorktree, RefuseArgument, StartUnit,
         UnitFailed, Status, List, Unlock, Logs, LookAtRecord, Quiet
    <2>2. ASSUME NEW r \in Call, UnitStep(r) PROVE UNCHANGED readVars \/ Output(r)
      BY <2>2 DEF UnitStep, FinishGoesOn, FinishRead, FinishOpen, FinishWrite, FinishRename,
         RemoveWorktree, FinishGoes, FinishEnds, OpenLog, CommandExits, FinishKilled, FinVars
    <2>3. CASE Reboot \/ UNCHANGED vars
      BY <2>3 DEF Reboot, vars
    <2>4. \A r : Output(r) => UNCHANGED <<offset, shown>>
      BY DEF Output
    <2> QED
      BY <2>1, <2>2, <2>3, <2>4 DEF Next
  <1>4. /\ offset' = [c \in Call |-> offset'[c]] /\ shown' = [c \in Call |-> shown'[c]]
        /\ late' = [c \in Call |-> late'[c]]
    <2>1. /\ offset = [c \in Call |-> offset[c]] /\ shown = [c \in Call |-> shown[c]]
          /\ late = [c \in Call |-> late[c]]
      BY DEF FollowInv
    <2>2. CASE UNCHANGED readVars
      BY <2>1, <2>2 DEF readVars
    <2>3. CASE \E c \in Call : CopyLog(c)
      BY <2>1, <2>3 DEF CopyLog
    <2>4. CASE UNCHANGED <<offset, shown>> /\ \E r \in Call : Output(r)
      BY <2>1, <2>4 DEF Output
    <2> QED
      BY <1>3, <2>2, <2>3, <2>4
  <1>5. ASSUME NEW c \in Call PROVE ReaderInv(c)'
    <2>0. late[c] \in Nat /\ (at[c] = "looking" => CaughtUp(c))
      BY DEF FollowInv, ReaderInv
    <2>1. CASE UNCHANGED vars
      <3>1. UNCHANGED <<at, stored, err, offset, shown, late, logs>>
        BY <2>1 DEF vars, callVars, readVars, unitVars
      <3>2. at[c] = "looking" => CaughtUp(c)'
        BY <2>0, <3>1 DEF CaughtUp
      <3> QED
        BY <2>0, <3>1, <3>2, ReaderSame
    <2>2. CASE CallStep(c)
      BY <2>2, ReaderOwn
    <2>3. ASSUME NEW d \in Call, d # c, CallStep(d) PROVE ReaderInv(c)'
      <3>1. at'[c] = at[c] /\ stored'[c] = stored[c] /\ err'[c] = err[c]
        BY <1>0, <2>3, CallFrame DEF Same
      <3>2. logs' = logs
        BY <2>3, CallWritesNoLog
      <3>3. offset'[c] = offset[c] /\ shown'[c] = shown[c] /\ late'[c] = late[c]
        <4>1. CASE CopyLog(d)
          BY <2>3, <4>1 DEF CopyLog, FollowInv
        <4>2. CASE ~CopyLog(d)
          BY <2>3, <4>2 DEF CallStep, CallGoesOn, Receive, Kill, RecordRequest, RequireOnMain, Create,
             OpenRecordTmp, WriteRecord, RenameRecord, AddWorktree, RefuseArgument, StartUnit,
             UnitFailed, Status, List, Unlock, Logs, LookAtRecord, Quiet, readVars
        <4> QED
          BY <4>1, <4>2
      <3>4. at[c] = "looking" => CaughtUp(c)'
        BY <2>0, <3>1, <3>2, <3>3 DEF CaughtUp
      <3> QED
        BY <2>0, <3>1, <3>3, <3>4, ReaderSame
    <2>4. ASSUME NEW d \in Call, UnitStep(d) PROVE ReaderInv(c)'
      BY <2>4, UnitReads, UnitCounts, ReaderSame
    <2>5. CASE Reboot
      <3>1. at'[c] \in {"idle", "over", "gone"} /\ UNCHANGED <<offset, shown, late>>
        BY <2>5 DEF Reboot, readVars
      <3> QED
        BY <3>1 DEF FollowInv, ReaderInv
    <2> QED
      BY <2>1, <2>2, <2>3, <2>4, <2>5 DEF Next
  <1> QED
    BY <1>1, <1>2, <1>4, <1>5 DEF FollowInv

\* Nothing is followed at first.
LEMMA FollowInit == Init => FollowInv
  <1> SUFFICES ASSUME Init PROVE FollowInv
    OBVIOUS
  <1>1. GateInv
    BY InitGate
  <1>2. ASSUME NEW c \in Call PROVE ReaderInv(c) /\ LogInv(c)
    BY DEF Init, ReaderInv, LogInv
  <1> QED
    BY <1>1, <1>2 DEF Init, FollowInv

\* What a follower has caught up with it has shown.
LEMMA FollowShown == FollowInv => FollowerSawAll
  <1> SUFFICES ASSUME FollowInv, NEW c \in Call, Follows(c), at[c] = "answered", err[c] = "none",
                      NEW i \in DOMAIN logs[stored[c].run],
                      NEW n \in 1 .. logs[stored[c].run][i].output - late[c]
               PROVE  <<i, n>> \in shown[c]
    BY DEF FollowerSawAll, Follows
  <1> DEFINE r == stored[c].run
  <1>1. TypeOK /\ ReaderInv(c)
    BY DEF FollowInv, GateInv
  <1>2. r \in Call /\ LogInv(r)
    BY <1>1, ReadRun DEF Follows, FollowInv
  <1>3. logs[r] # <<>>
    OBVIOUS
  <1>4. DOMAIN logs[r] = {1} /\ logs[r][1].output \in Nat
    BY <1>1, <1>2, <1>3, OnlyLog
  <1>5. offset[c] + late[c] >= logs[r][1].output /\ offset[c] \in Nat /\ late[c] \in Nat
    BY <1>1, <1>3 DEF ReaderInv, CaughtUp
  <1>6. i = 1 /\ n \in 1 .. offset[c]
    BY <1>4, <1>5
  <1> QED
    BY <1>1, <1>6 DEF ReaderInv

\* A follower that stops by itself has shown all the output of a run with one
\* run log, but for what was written between its last copy and its look at the
\* record after it (logs.go): for any calls and requests, as long as systemd-run
\* reports an error only after its unit is gone.
THEOREM FollowersSeeAll ==
  ASSUME StartErrorIsFinal, MaxFiles <= 1
  PROVE  Spec => []FollowerSawAll
  <1>1. FollowInv /\ [Next]_vars => FollowInv'
    BY FollowStep
  <1> QED
    BY <1>1, FollowInit, FollowShown, PTL DEF Spec

=============================================================================
