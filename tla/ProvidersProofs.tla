--------------------------- MODULE ProvidersProofs ---------------------------
(***************************************************************************)
(* What installations that share a mirror and an archive cache keep, for   *)
(* any number of them, any pin files, kills and power losses.              *)
(***************************************************************************)
EXTENDS Providers, TLAPS

\* The rows of a pin file.
PinRow == [archive : Archive, target : Target, sha : Digest]

LEMMA PinTyped ==
  ASSUME TypeOK, RowsInOrder, NEW r \in Run, pc[r] \in Working
  PROVE  /\ Pin(r) \in PinRow /\ Pin(r) \in RowsOf(r)
         /\ Pin(r).sha \in PinnedFor(Pin(r).archive)
  <1>1. Pins[r] \in Seq(PinRow)
    BY ProvidersAssumption DEF PinRow
  <1>2. row[r] \in DOMAIN Pins[r]
    BY DEF RowsInOrder
  <1>3. Pin(r) \in PinRow
    BY <1>1, <1>2 DEF Pin
  <1>4. Pin(r) \in RowsOf(r)
    BY <1>2 DEF Pin, RowsOf
  <1> QED
    BY <1>3, <1>4 DEF PinnedFor

LEMMA PinsTyped == \A r \in Run : Pins[r] \in Seq(PinRow) /\ Len(Pins[r]) \in Nat
  <1>1. \A r \in Run : Pins[r] \in Seq(PinRow)
    BY ProvidersAssumption DEF PinRow
  <1> QED
    BY <1>1

LEMMA Constants ==
  /\ Nothing \notin Digest /\ Nothing \notin Binary
  /\ Damaged \notin Digest /\ Damaged \notin Binary /\ Damaged # Nothing
  /\ \A d \in Digest : Member[d] \in Binary
  BY ProvidersAssumption

LEMMA PinnedIsDigest == \A a : PinnedFor(a) \subseteq Digest
  <1>1. \A r \in Run : RowsOf(r) \subseteq PinRow
    <2>1. ASSUME NEW r \in Run PROVE RowsOf(r) \subseteq PinRow
      <3>1. Pins[r] \in Seq(PinRow)
        BY ProvidersAssumption DEF PinRow
      <3> QED
        BY <3>1 DEF RowsOf
    <2> QED
      BY <2>1
  <1> QED
    BY <1>1 DEF PinnedFor, PinRow

LEMMA InitInv == Init => ProvidersInv
  <1> SUFFICES ASSUME Init PROVE ProvidersInv
    OBVIOUS
  <1>1. TypeOK
    BY DEF Init, TypeOK, States, Over, Leaving, Working, Roots
  <1>2. StagingStays
    BY DEF Init, StagingStays, Staged, Alive, Over, Leaving, Working, Roots
  <1>3. RowsInOrder
    BY DEF Init, RowsInOrder, Working
  <1>4. PackagesWhole
    BY DEF Init, PackagesWhole
  <1>5. ReportedIsPinned
    BY DEF Init, ReportedIsPinned, Alive, Over
  <1> QED
    BY <1>1, <1>2, <1>3, <1>4, <1>5 DEF ProvidersInv

\* The types of what a process keeps, and of what it shares.
RunTyped ==
  /\ pc \in [Run -> States]
  /\ row \in [Run -> Nat \ {0}]
  /\ seen \in [Run -> SUBSET Run]
  /\ stopped \subseteq Run /\ synced \subseteq Run
  /\ partial \in [Run -> Digest \cup {Nothing}]
  /\ candidate \in [Run -> Binary \cup {Nothing}]
  /\ outcome \in [Run -> {"none", "ok", "stopped", "io", "download", "archive", "binary"}]

SharedTyped ==
  /\ pid \in [Run -> Pid \cup {Nothing}]
  /\ dirs \in [Roots -> SUBSET Run]
  /\ strangers \subseteq Pid
  /\ archive \in [Archive -> Digest \cup {Nothing, Damaged}]
  /\ target \in [Target -> Binary \cup {Nothing, Damaged}]
  /\ risk \in [Target -> {"none", "name", "data"}]
  /\ losses \in Nat

LEMMA TypeSplit == TypeOK <=> RunTyped /\ SharedTyped
  BY DEF TypeOK, RunTyped, SharedTyped

LEMMA GotoTyped ==
  ASSUME RunTyped, NEW r \in Run, NEW s \in States, Goto(r, s)
  PROVE  RunTyped'
  BY DEF RunTyped, Goto

LEMMA LeaveTyped ==
  ASSUME RunTyped, NEW r \in Run, Leave(r, "ok") \/ Leave(r, "stopped") \/ Leave(r, "io")
         \/ Leave(r, "download") \/ Leave(r, "archive") \/ Leave(r, "binary")
  PROVE  RunTyped'
  <1>1. Deferred(r) \in States
    BY DEF Deferred, States, Leaving
  <1> QED
    BY <1>1 DEF RunTyped, Leave, Drop

LEMMA Successor == \A n \in Nat : n + 1 \in Nat \ {0}
  OBVIOUS

LEMMA NotMore == \A m, n \in Nat : ~(m > n) => m <= n
  OBVIOUS

LEMMA StatesAre ==
  {"mirror", "cache", "scan mirror", "scan cache", "row", "download", "downloaded", "digest",
   "extract", "extracted", "publish", "published", "clean mirror", "exit", "ended", "dead"}
  \subseteq States
  BY DEF States, Over, Roots, Leaving, Working

LEMMA StepTyped ==
  ASSUME TypeOK, RowsInOrder, NEW r \in Run,
         Step(r) \/ Start(r) \/ Fail(r) \/ Signal(r) \/ Kill(r)
  PROVE  TypeOK'
  <1>0. RunTyped /\ SharedTyped
    BY TypeSplit
  <1> SUFFICES RunTyped' /\ SharedTyped'
    BY DEF TypeOK, RunTyped, SharedTyped
  <1> USE <1>0, StatesAre DEF Others, fileVars, At
  <1>1. CASE ReadRoot(r)
    BY <1>1 DEF ReadRoot, RunTyped, SharedTyped, Roots
  <1>2. CASE \E e \in Run : Look(r, e)
    <2>1. PICK e \in Run : Look(r, e)
      BY <1>2
    <2>2. RunTyped'
      BY <2>1 DEF Look, RunTyped
    <2>3. dirs' \in [Roots -> SUBSET Run]
      BY <2>1 DEF Look, SharedTyped, Root, Roots
    <2> QED
      BY <2>1, <2>2, <2>3 DEF Look, SharedTyped
  <1>3. CASE MakeDir(r)
    <2>1. RunTyped'
      BY <1>3, GotoTyped DEF MakeDir
    <2> QED
      BY <1>3, <2>1 DEF MakeDir, SharedTyped, Root, Roots
  <1>4. CASE Clean(r)
    <2>1. RunTyped'
      BY <1>4, GotoTyped DEF Clean
    <2> QED
      BY <1>4, <2>1 DEF Clean, SharedTyped, Roots
  <1>5. CASE Exit(r)
    BY <1>5, GotoTyped DEF Exit, SharedTyped
  <1>6. CASE NextRow(r)
    BY <1>6, GotoTyped, LeaveTyped DEF NextRow, SharedTyped
  <1>7. CASE Download(r)
    <2>1. Pin(r).archive \in Archive
      BY <1>7, PinTyped DEF Download, PinRow, Working
    <2>2. Served[Pin(r).archive] \subseteq Digest
      BY <2>1, ProvidersAssumption
    <2>3. CASE Leave(r, "stopped")
      BY <1>7, <2>3, LeaveTyped DEF Download, SharedTyped
    <2>4. CASE ~Leave(r, "stopped")
      <3>1. PICK d \in Digest : partial' = [partial EXCEPT ![r] = d]
        BY <1>7, <2>2, <2>4 DEF Download
      <3>2. /\ pc' = [pc EXCEPT ![r] = "downloaded"]
            /\ UNCHANGED <<row, seen, stopped, candidate, synced, outcome>>
            /\ UNCHANGED <<pid, dirs, strangers, losses, archive, target, risk>>
        BY <1>7, <2>4 DEF Download
      <3> QED
        BY <3>1, <3>2 DEF RunTyped, SharedTyped
    <2> QED
      BY <2>3, <2>4
  <1>8. CASE MoveArchive(r)
    <2>1. Pin(r).sha \in Digest /\ Pin(r).archive \in Archive
      BY <1>8, PinTyped DEF MoveArchive, PinRow, Working
    <2>2. RunTyped'
      BY <1>8, GotoTyped, LeaveTyped DEF MoveArchive
    <2> QED
      BY <1>8, <2>1, <2>2 DEF MoveArchive, SharedTyped
  <1>9. CASE CheckDigest(r)
    BY <1>9, GotoTyped, LeaveTyped DEF CheckDigest, SharedTyped
  <1>10. CASE Extract(r)
    <2>1. Member[archive[Pin(r).archive]] \in Binary
      BY <1>10, Constants DEF Extract
    <2> QED
      BY <1>10, <2>1 DEF Extract, RunTyped, SharedTyped
  <1>11. CASE BeforePublish(r)
    BY <1>11, GotoTyped, LeaveTyped DEF BeforePublish, SharedTyped
  <1>12. CASE Publish(r)
    <2>1. Pin(r).target \in Target /\ candidate[r] \in Binary \cup {Nothing}
      BY <1>12, PinTyped DEF Publish, PinRow, RunTyped, Working
    <2>2. RunTyped'
      BY <1>12, GotoTyped, LeaveTyped DEF Publish
    <2> QED
      BY <1>12, <2>1, <2>2 DEF Publish, SharedTyped
  <1>13. CASE CheckInstalled(r)
    <2>1. CASE Leave(r, "binary")
      BY <1>13, <2>1, LeaveTyped DEF CheckInstalled, SharedTyped
    <2>2. CASE ~Leave(r, "binary")
      <3>1. /\ pc' = [pc EXCEPT ![r] = "row"] /\ row' = [row EXCEPT ![r] = @ + 1]
            /\ candidate' = [candidate EXCEPT ![r] = Nothing]
            /\ partial' = [partial EXCEPT ![r] = Nothing]
            /\ synced' = synced \ {r}
            /\ UNCHANGED <<seen, stopped, outcome>>
            /\ UNCHANGED <<pid, dirs, strangers, losses, archive, target, risk>>
        BY <1>13, <2>2 DEF CheckInstalled
      <3>2. row' \in [Run -> Nat \ {0}]
        <4>1. row \in [Run -> Nat \ {0}]
          BY DEF RunTyped
        <4>2. row[r] \in Nat /\ row[r] # 0
          BY <4>1
        <4>3. row[r] + 1 \in Nat \ {0}
          BY <4>2, Successor
        <4> QED
          BY <3>1, <4>1, <4>3
      <3> QED
        BY <3>1, <3>2 DEF RunTyped, SharedTyped
    <2> QED
      BY <2>1, <2>2
  <1>14. CASE Start(r)
    <2>1. RunTyped'
      BY <1>14, GotoTyped DEF Start
    <2> QED
      BY <1>14, <2>1 DEF Start, SharedTyped
  <1>15. CASE Fail(r)
    BY <1>15, LeaveTyped DEF Fail, SharedTyped
  <1>16. CASE Signal(r)
    BY <1>16 DEF Signal, RunTyped, SharedTyped
  <1>17. CASE Kill(r)
    BY <1>17 DEF Kill, Drop, RunTyped, SharedTyped
  <1> QED
    BY <1>1, <1>2, <1>3, <1>4, <1>5, <1>6, <1>7, <1>8, <1>9, <1>10, <1>11, <1>12, <1>13, <1>14,
       <1>15, <1>16, <1>17 DEF Step

LEMMA OutsideTyped ==
  ASSUME TypeOK, (\E p \in Pid : Stranger(p)) \/ PowerLoss
  PROVE  TypeOK'
  <1>1. CASE \E p \in Pid : Stranger(p)
    BY <1>1 DEF Stranger, runVars, fileVars, TypeOK
  <1>2. CASE PowerLoss
    <2>1. archive' \in [Archive -> Digest \cup {Nothing, Damaged}]
      BY <1>2 DEF PowerLoss
    <2>2. target' \in [Target -> Binary \cup {Nothing, Damaged}]
      BY <1>2 DEF PowerLoss
    <2>3. pc' \in [Run -> States]
      BY <1>2, StatesAre DEF PowerLoss, TypeOK
    <2>4. /\ stopped' = {} /\ synced' = {} /\ strangers' = {}
          /\ UNCHANGED <<row, outcome, pid, dirs>>
          /\ losses' = losses + 1
      BY <1>2 DEF PowerLoss
    <2>5. /\ seen' \in [Run -> SUBSET Run]
          /\ partial' \in [Run -> Digest \cup {Nothing}]
          /\ candidate' \in [Run -> Binary \cup {Nothing}]
          /\ risk' \in [Target -> {"none", "name", "data"}]
      BY <1>2 DEF PowerLoss
    <2> QED
      BY <2>1, <2>2, <2>3, <2>4, <2>5 DEF TypeOK
  <1> QED
    BY <1>1, <1>2

-----------------------------------------------------------------------------
(***************************************************************************)
(* The staging directories.                                                *)
(***************************************************************************)

\* A step of r that goes on, and leaves directories and process ids alone.
Onward(r) ==
  /\ \A s \in Run : s # r => pc'[s] = pc[s]
  /\ \/ Alive(r) /\ Staged(r, "mirror") /\ Staged(r, "cache")
     \/ Alive(r) /\ pc'[r] \in Over \cup Leaving
     \/ pc'[r] = pc[r]
  /\ pc'[r] # "new" \/ pc[r] = "new"
  /\ Alive(r) \/ pc'[r] = pc[r]
  /\ UNCHANGED <<pid, dirs, strangers>>

LEMMA OnwardStaged ==
  ASSUME TypeOK, StagingStays, NEW r \in Run, Onward(r)
  PROVE  StagingStays'
  <1> USE DEF TypeOK, StagingStays, Onward, Alive, Staged, Over, Leaving, Roots
  <1>1. \A s \in Run : Alive(s)' => Alive(s)
    OBVIOUS
  <1>2. \A s \in Run, root \in Roots : Staged(s, root)' => s \in dirs[root]
    OBVIOUS
  <1> QED
    BY <1>1, <1>2

LEMMA WorkOnward ==
  ASSUME TypeOK, NEW r \in Run,
         \/ ReadRoot(r) \/ Exit(r) \/ NextRow(r) \/ Download(r) \/ MoveArchive(r) \/ CheckDigest(r)
         \/ Extract(r) \/ BeforePublish(r) \/ Publish(r) \/ CheckInstalled(r) \/ Fail(r)
         \/ Signal(r) \/ Kill(r)
  PROVE  Onward(r) \/ ReadRoot(r)
  <1>0. Deferred(r) \in Leaving
    BY DEF Deferred, Leaving
  <1>1. pc \in [Run -> States]
    BY DEF TypeOK
  <1> USE <1>0, <1>1 DEF Onward, Alive, Staged, Over, Leaving, Roots, Goto, Leave, Drop, Others, At
  <1>2. CASE Exit(r)
    BY <1>2 DEF Exit
  <1>3. CASE NextRow(r)
    BY <1>3 DEF NextRow
  <1>4. CASE Download(r)
    BY <1>4 DEF Download
  <1>5. CASE MoveArchive(r)
    BY <1>5 DEF MoveArchive
  <1>6. CASE CheckDigest(r)
    BY <1>6 DEF CheckDigest
  <1>7. CASE Extract(r) \/ BeforePublish(r)
    BY <1>7 DEF Extract, BeforePublish
  <1>8. CASE Publish(r)
    BY <1>8 DEF Publish
  <1>9. CASE CheckInstalled(r)
    BY <1>9 DEF CheckInstalled
  <1>10. CASE Fail(r)
    BY <1>10 DEF Fail
  <1>11. CASE Signal(r)
    BY <1>11 DEF Signal
  <1>12. CASE Kill(r)
    BY <1>12 DEF Kill
  <1> QED
    BY <1>2, <1>3, <1>4, <1>5, <1>6, <1>7, <1>8, <1>9, <1>10, <1>11, <1>12

LEMMA StagedStep ==
  ASSUME TypeOK, StagingStays, NEW r \in Run,
         Step(r) \/ Start(r) \/ Fail(r) \/ Signal(r) \/ Kill(r)
  PROVE  StagingStays'
  <1> USE DEF TypeOK, Alive, Staged, Over, Leaving, Roots, Goto, Others, At
  <1>1. CASE Onward(r)
    BY <1>1, OnwardStaged
  <1>2. CASE ReadRoot(r)
    BY <1>2 DEF ReadRoot, StagingStays
  <1>3. CASE \E e \in Run : Look(r, e)
    <2>1. PICK e \in Run : Look(r, e)
      BY <1>3
    <2>2. UNCHANGED <<pc, pid, strangers>> /\ Root(r) \in Roots
      BY <2>1 DEF Look, Root
    <2>3. dirs' = dirs \/ (~Alive(e) /\ dirs' = [dirs EXCEPT ![Root(r)] = @ \ {e}])
      BY <2>1 DEF Look, Running
    <2>4. \A root \in Roots : dirs'[root] \subseteq dirs[root] /\ dirs[root] \ dirs'[root] \subseteq {e}
      BY <2>2, <2>3
    <2>5. \A s \in Run, root \in Roots : Staged(s, root) => s \in dirs'[root]
      <3>1. \A s \in Run, root \in Roots : Staged(s, root) => Alive(s)
        OBVIOUS
      <3> QED
        BY <2>3, <2>4, <3>1 DEF StagingStays
    <2> QED
      BY <2>2, <2>4, <2>5 DEF StagingStays
  <1>4. CASE MakeDir(r)
    <2>1. /\ pc[r] \in {"scan mirror", "scan cache"} /\ UNCHANGED <<pid, strangers>>
          /\ pc' = [pc EXCEPT ![r] = IF pc[r] = "scan mirror" THEN "cache" ELSE "row"]
          /\ dirs' = [dirs EXCEPT ![Root(r)] = @ \cup {r}]
          /\ Root(r) = IF pc[r] = "scan mirror" THEN "mirror" ELSE "cache"
      BY <1>4 DEF MakeDir, Root
    <2>2. \A s \in Run, root \in Roots : Staged(s, root)' => s \in dirs'[root]
      BY <2>1 DEF StagingStays
    <2>3. \A root \in Roots : \A s \in dirs'[root] : pc'[s] # "new"
      BY <2>1 DEF StagingStays
    <2>4. \A s \in Run : Alive(s)' => Alive(s)
      BY <2>1
    <2> QED
      BY <2>1, <2>2, <2>3, <2>4 DEF StagingStays
  <1>5. CASE Clean(r)
    <2>1. /\ pc[r] \in Leaving /\ UNCHANGED <<pid, strangers>>
          /\ \E s \in Leaving : pc' = [pc EXCEPT ![r] = s]
      BY <1>5 DEF Clean
    <2>2. \E root \in Roots : dirs' \in {dirs, [dirs EXCEPT ![root] = @ \ {r}]}
      BY <1>5 DEF Clean
    <2>3. \A root \in Roots : dirs'[root] \subseteq dirs[root] /\ dirs[root] \ dirs'[root] \subseteq {r}
      BY <2>2
    <2>4. \A s \in Run, root \in Roots : Staged(s, root)' => s # r /\ Staged(s, root)
      BY <2>1
    <2>5. \A s \in Run : Alive(s)' => Alive(s)
      BY <2>1
    <2>6. \A s \in Run : pc'[s] = "new" => pc[s] = "new"
      BY <2>1
    <2>7. \A s \in Run, root \in Roots : Staged(s, root)' => s \in dirs'[root]
      BY <2>3, <2>4 DEF StagingStays
    <2>8. \A root \in Roots : \A s \in dirs'[root] : pc'[s] # "new"
      BY <2>3, <2>6 DEF StagingStays
    <2> HIDE DEF Staged, Alive
    <2> QED
      BY <2>1, <2>5, <2>7, <2>8 DEF StagingStays
  <1>6. CASE Start(r)
    <2>1. PICK p \in Pid : ~Running(p) /\ pid' = [pid EXCEPT ![r] = p]
      BY <1>6 DEF Start
    <2>2. /\ pc[r] = "new" /\ pc' = [pc EXCEPT ![r] = "mirror"]
          /\ UNCHANGED <<dirs, strangers>>
      BY <1>6 DEF Start
    <2>3. \A s \in Run : Alive(s)' => s = r \/ (Alive(s) /\ pid'[s] = pid[s])
      <3>1. \A s \in Run \ {r} : pid'[s] = pid[s] /\ pc'[s] = pc[s]
        BY <2>1, <2>2
      <3>2. ASSUME NEW s \in Run \ {r}, Alive(s)' PROVE Alive(s) /\ pid'[s] = pid[s]
        BY <3>1, <3>2
      <3> QED
        BY <3>2
    <2>4. pid'[r] = p /\ p \notin strangers /\ \A s \in Run : Alive(s) => pid[s] # p
      BY <2>1 DEF Running
    <2>5. \A s \in Run : Alive(s)' => pid'[s] \in Pid /\ pid'[s] \notin strangers'
      BY <2>2, <2>3, <2>4 DEF StagingStays
    <2>6. \A s, u \in Run : Alive(s)' /\ Alive(u)' /\ s # u => pid'[s] # pid'[u]
      <3> HIDE DEF Alive
      <3> QED
        BY <2>3, <2>4 DEF StagingStays
    <2>7. \A s \in Run, root \in Roots : Staged(s, root)' => s \in dirs'[root]
      BY <2>2 DEF StagingStays
    <2>8. \A root \in Roots : \A s \in dirs'[root] : pc'[s] # "new"
      BY <2>2 DEF StagingStays
    <2> HIDE DEF Staged, Alive
    <2> QED
      BY <2>5, <2>6, <2>7, <2>8 DEF StagingStays
  <1> QED
    BY <1>1, <1>2, <1>3, <1>4, <1>5, <1>6, WorkOnward DEF Step

LEMMA StagedOutside ==
  ASSUME TypeOK, StagingStays, (\E p \in Pid : Stranger(p)) \/ PowerLoss
  PROVE  StagingStays'
  <1>1. CASE \E p \in Pid : Stranger(p)
    BY <1>1 DEF Stranger, Running, runVars, StagingStays, Staged, Alive
  <1>2. CASE PowerLoss
    BY <1>2 DEF PowerLoss, StagingStays, Staged, Alive, Over, TypeOK
  <1> QED
    BY <1>1, <1>2

-----------------------------------------------------------------------------
(***************************************************************************)
(* The archives and the packages.                                          *)
(***************************************************************************)

LEMMA OthersKeep ==
  ASSUME TypeOK, NEW r \in Run, NEW s \in Run, s # r,
         Step(r) \/ Start(r) \/ Fail(r) \/ Signal(r) \/ Kill(r)
  PROVE  /\ pc'[s] = pc[s] /\ row'[s] = row[s] /\ candidate'[s] = candidate[s]
         /\ (s \in synced') = (s \in synced) /\ outcome'[s] = outcome[s]
  <1> USE DEF TypeOK, Goto, Leave, Drop
  <1>1. CASE ReadRoot(r) \/ (\E e \in Run : Look(r, e)) \/ MakeDir(r) \/ Clean(r) \/ Exit(r)
    BY <1>1 DEF ReadRoot, Look, MakeDir, Clean, Exit
  <1>2. CASE NextRow(r) \/ Download(r) \/ MoveArchive(r) \/ CheckDigest(r)
    BY <1>2 DEF NextRow, Download, MoveArchive, CheckDigest
  <1>3. CASE Extract(r) \/ BeforePublish(r) \/ Publish(r) \/ CheckInstalled(r)
    BY <1>3 DEF Extract, BeforePublish, Publish, CheckInstalled
  <1>4. CASE Start(r) \/ Fail(r) \/ Signal(r) \/ Kill(r)
    BY <1>4 DEF Start, Fail, Signal, Kill
  <1> QED
    BY <1>1, <1>2, <1>3, <1>4 DEF Step

\* How an installation comes to each step of a row.
LEMMA OwnStep ==
  ASSUME TypeOK, NEW r \in Run,
         Step(r) \/ Start(r) \/ Fail(r) \/ Signal(r) \/ Kill(r)
  PROVE  \/ /\ pc'[r] \notin Working /\ pc'[r] # "new" /\ row'[r] = row[r]
            /\ Alive(r)' => Alive(r) \/ pc[r] = "new"
            /\ outcome'[r] \notin {"archive", "binary"} \/ outcome'[r] = outcome[r]
            /\ pc[r] \in Leaving \cup Over /\ pc[r] # "new" => pc'[r] \in Leaving \cup Over
         \/ CheckDigest(r) \/ Extract(r) \/ Publish(r) \/ MoveArchive(r)
         \/ CheckInstalled(r)
         \/ /\ pc[r] = "row" /\ row[r] <= Len(Pins[r]) /\ row'[r] = row[r]
            /\ outcome'[r] = outcome[r]
            /\ pc'[r] = "download"
               \/ (pc'[r] = "digest" /\ archive[Pin(r).archive] # Nothing)
         \/ pc[r] = "download" /\ pc'[r] = "downloaded" /\ row'[r] = row[r] /\ outcome'[r] = outcome[r]
         \/ /\ pc[r] = "extracted" /\ pc'[r] = "publish"
            /\ row'[r] = row[r] /\ outcome'[r] = outcome[r]
            /\ candidate'[r] = candidate[r] /\ (r \in synced') = (r \in synced)
         \/ /\ pc'[r] = pc[r] /\ row'[r] = row[r] /\ outcome'[r] = outcome[r]
            /\ candidate'[r] = candidate[r] /\ (r \in synced') = (r \in synced)
  <1>0. Deferred(r) \in Leaving
    BY DEF Deferred, Leaving
  <1> USE <1>0 DEF TypeOK, Goto, Leave, Drop, Working, Leaving, Alive, Over, At
  <1>1. CASE ReadRoot(r) \/ MakeDir(r) \/ Clean(r) \/ Exit(r)
    BY <1>1 DEF ReadRoot, MakeDir, Clean, Exit, Roots
  <1>2. CASE \E e \in Run : Look(r, e)
    BY <1>2 DEF Look
  <1>3. CASE NextRow(r)
    <2>0. row[r] \in Nat
      OBVIOUS
    <2>1. Len(Pins[r]) \in Nat /\ row[r] \in Nat
      BY <2>0, PinsTyped
    <2>2. CASE Leave(r, "ok") \/ Leave(r, "stopped")
      BY <1>3, <2>2 DEF NextRow
    <2>3. CASE /\ row[r] <= Len(Pins[r]) /\ pc[r] = "row"
               /\ \/ Goto(r, "download")
                  \/ Goto(r, "digest") /\ archive[Pin(r).archive] # Nothing
      BY <2>3
    <2>4. \/ Leave(r, "ok") \/ Leave(r, "stopped")
          \/ /\ row[r] <= Len(Pins[r]) /\ pc[r] = "row"
             /\ \/ Goto(r, "download")
                \/ Goto(r, "digest") /\ archive[Pin(r).archive] # Nothing
      <3> HIDE DEF TypeOK, Goto, Leave
      <3>1. CASE row[r] > Len(Pins[r])
        BY <1>3, <3>1 DEF NextRow
      <3>2. CASE ~(row[r] > Len(Pins[r]))
        <4>1. row[r] <= Len(Pins[r])
          BY <2>1, <3>2, NotMore
        <4> QED
          BY <1>3, <3>2, <4>1 DEF NextRow
      <3> QED
        BY <3>1, <3>2
    <2> QED
      BY <2>2, <2>3, <2>4
  <1>4. CASE Download(r)
    BY <1>4 DEF Download
  <1>5. CASE BeforePublish(r)
    BY <1>5 DEF BeforePublish
  <1>6. CASE Start(r) \/ Fail(r)
    BY <1>6 DEF Start, Fail
  <1>7. CASE Signal(r) \/ Kill(r)
    BY <1>7 DEF Signal, Kill
  <1> QED
    BY <1>1, <1>2, <1>3, <1>4, <1>5, <1>6, <1>7 DEF Step

LEMMA RowsStep ==
  ASSUME TypeOK, RowsInOrder, NEW r \in Run,
         Step(r) \/ Start(r) \/ Fail(r) \/ Signal(r) \/ Kill(r)
  PROVE  RowsInOrder'
  <1>1. \A s \in Run : s # r => pc'[s] = pc[s] /\ row'[s] = row[s]
    BY OthersKeep
  <1>2. pc'[r] = "new" => row'[r] = 1
    BY OwnStep DEF RowsInOrder, Working, CheckDigest, Extract, Publish, MoveArchive, CheckInstalled,
       Goto, Leave, Drop, TypeOK, Deferred
  <1>3. ASSUME pc'[r] \in Working PROVE row'[r] \in DOMAIN Pins[r]
    <2>1. CASE pc[r] = "row" /\ row[r] <= Len(Pins[r]) /\ row'[r] = row[r]
      <3>1. Pins[r] \in Seq(PinRow) /\ row[r] \in Nat \ {0}
        BY ProvidersAssumption DEF PinRow, TypeOK
      <3> QED
        BY <2>1, <3>1
    <2>2. CASE CheckDigest(r) \/ Extract(r) \/ Publish(r) \/ MoveArchive(r)
      BY <2>2 DEF CheckDigest, Extract, Publish, MoveArchive, Goto, Leave, Drop, At, RowsInOrder,
         Working
    <2>3. CASE CheckInstalled(r)
      <3>1. Deferred(r) \notin Working
        BY DEF Deferred, Working
      <3>2. CASE Leave(r, "binary")
        BY <1>3, <3>1, <3>2 DEF Leave, TypeOK
      <3>3. CASE ~Leave(r, "binary")
        BY <1>3, <2>3, <3>3 DEF CheckInstalled, TypeOK, Working
      <3> QED
        BY <3>2, <3>3
    <2>4. CASE pc[r] \in Working /\ row'[r] = row[r]
      BY <2>4 DEF RowsInOrder
    <2> QED
      BY <1>3, <2>1, <2>2, <2>3, <2>4, OwnStep DEF Working
  <1> QED
    BY <1>1, <1>2, <1>3 DEF RowsInOrder

\* What a step does to the cache and to the mirror.
LEMMA FilesStep ==
  ASSUME TypeOK, NEW r \in Run,
         Step(r) \/ Start(r) \/ Fail(r) \/ Signal(r) \/ Kill(r)
  PROVE  /\ \/ archive' = archive
            \/ /\ pc[r] = "downloaded"
               /\ archive' = [archive EXCEPT ![Pin(r).archive] = Pin(r).sha]
         /\ \/ target' = target /\ risk' = risk
            \/ /\ pc[r] = "publish" /\ target[Pin(r).target] = Nothing
               /\ target' = [target EXCEPT ![Pin(r).target] = candidate[r]]
               /\ risk' = [risk EXCEPT ![Pin(r).target] = IF r \in synced THEN "name" ELSE "data"]
         /\ losses' = losses
  <1> USE DEF Others, fileVars, At
  <1>1. CASE ReadRoot(r) \/ (\E e \in Run : Look(r, e)) \/ MakeDir(r) \/ Clean(r) \/ Exit(r)
    BY <1>1 DEF ReadRoot, Look, MakeDir, Clean, Exit
  <1>2. CASE NextRow(r) \/ Download(r) \/ CheckDigest(r) \/ Extract(r) \/ BeforePublish(r)
    BY <1>2 DEF NextRow, Download, CheckDigest, Extract, BeforePublish
  <1>3. CASE MoveArchive(r)
    BY <1>3 DEF MoveArchive
  <1>4. CASE Publish(r)
    BY <1>4 DEF Publish
  <1>5. CASE CheckInstalled(r) \/ Start(r) \/ Fail(r) \/ Signal(r) \/ Kill(r)
    BY <1>5 DEF CheckInstalled, Start, Fail, Signal, Kill
  <1> QED
    BY <1>1, <1>2, <1>3, <1>4, <1>5 DEF Step

LEMMA PackagesAre ==
  /\ \A x \in Packages : x # Nothing /\ x # Damaged
  /\ \A a \in Archive : \A d \in PinnedFor(a) : d # Nothing /\ d # Damaged /\ Member[d] \in Packages
  <1>1. \A a \in Archive : \A d \in PinnedFor(a) : d \in Digest /\ Member[d] \in Packages
    BY PinnedIsDigest DEF Packages
  <1>2. \A x \in Packages : x \in Binary
    BY PinnedIsDigest, Constants DEF Packages
  <1> QED
    BY <1>1, <1>2, Constants

\* The parts of PackagesWhole that one installation is answerable for.
Prepared(r) ==
  pc[r] \in {"extracted", "publish", "published"} => r \in synced /\ candidate[r] \in Packages

LEMMA PreparedStep ==
  ASSUME TypeOK, RowsInOrder, PackagesWhole, NEW r \in Run,
         Step(r) \/ Start(r) \/ Fail(r) \/ Signal(r) \/ Kill(r)
  PROVE  Prepared(r)'
  <1>0. Deferred(r) \notin Working
    BY DEF Deferred, Working
  <1>1. CASE Extract(r)
    <2>1. Pin(r).archive \in Archive
      BY <1>1, PinTyped DEF Extract, At, Working, PinRow
    <2>2. archive[Pin(r).archive] \in PinnedFor(Pin(r).archive)
      BY <1>1, <2>1, Constants DEF Extract, PackagesWhole
    <2>3. Member[archive[Pin(r).archive]] \in Packages
      BY <2>1, <2>2, PackagesAre
    <2> QED
      BY <1>1, <2>3 DEF Extract, Prepared, TypeOK
  <1>2. CASE CheckDigest(r) \/ MoveArchive(r)
    BY <1>0, <1>2 DEF CheckDigest, MoveArchive, Goto, Leave, Prepared, TypeOK, Working
  <1>3. CASE Publish(r)
    BY <1>0, <1>3 DEF Publish, Goto, Leave, Prepared, TypeOK, Working, PackagesWhole, At
  <1>4. CASE CheckInstalled(r)
    BY <1>0, <1>4 DEF CheckInstalled, Leave, Prepared, TypeOK, Working
  <1> QED
    BY <1>1, <1>2, <1>3, <1>4, OwnStep DEF Prepared, PackagesWhole, Working

LEMMA PackagesStep ==
  ASSUME TypeOK, RowsInOrder, PackagesWhole, NEW r \in Run,
         Step(r) \/ Start(r) \/ Fail(r) \/ Signal(r) \/ Kill(r)
  PROVE  PackagesWhole'
  <1>1. \A s \in Run : Prepared(s)'
    <2>1. ASSUME NEW s \in Run, s # r PROVE Prepared(s)'
      BY <2>1, OthersKeep DEF Prepared, PackagesWhole
    <2> QED
      BY <2>1, PreparedStep
  <1>2. losses' = losses
    BY FilesStep
  <1>3. \A a \in Archive :
          archive'[a] \in PinnedFor(a) \cup {Nothing} \cup {x \in {Damaged} : losses > 0}
    <2>1. CASE archive' = archive
      BY <2>1 DEF PackagesWhole
    <2>2. CASE pc[r] = "downloaded" /\ archive' = [archive EXCEPT ![Pin(r).archive] = Pin(r).sha]
      <3>1. Pin(r).sha \in PinnedFor(Pin(r).archive)
        BY <2>2, PinTyped DEF Working
      <3> QED
        BY <2>2, <3>1 DEF PackagesWhole, TypeOK
    <2> QED
      BY <2>1, <2>2, FilesStep
  <1>4. \A t \in Target : target'[t] \in Packages \cup {Nothing} /\ risk'[t] # "data"
    <2>1. CASE target' = target /\ risk' = risk
      BY <2>1 DEF PackagesWhole
    <2>2. CASE /\ pc[r] = "publish"
               /\ target' = [target EXCEPT ![Pin(r).target] = candidate[r]]
               /\ risk' = [risk EXCEPT ![Pin(r).target] = IF r \in synced THEN "name" ELSE "data"]
      BY <2>2 DEF PackagesWhole, TypeOK
    <2> QED
      BY <2>1, <2>2, FilesStep
  <1> QED
    BY <1>1, <1>2, <1>3, <1>4 DEF PackagesWhole, Prepared

LEMMA PackagesOutside ==
  ASSUME TypeOK, PackagesWhole, (\E p \in Pid : Stranger(p)) \/ PowerLoss
  PROVE  PackagesWhole'
  <1>1. CASE \E p \in Pid : Stranger(p)
    BY <1>1 DEF Stranger, runVars, fileVars, PackagesWhole
  <1>2. CASE PowerLoss
    <2>1. losses' > 0 /\ losses' > losses
      BY <1>2 DEF PowerLoss, TypeOK
    <2>2. \A a \in Archive : archive'[a] \in {archive[a], Nothing, Damaged}
      <3>1. \A a \in Archive : archive'[a] \in Survives(archive[a])
        BY <1>2 DEF PowerLoss
      <3> QED
        BY <3>1 DEF Survives
    <2>3. \A t \in Target : target'[t] \in {target[t], Nothing}
      <3>1. \A t \in Target : target'[t] \in SurvivesLinked(target[t], risk[t])
        BY <1>2 DEF PowerLoss
      <3>2. \A t \in Target : risk[t] \in {"none", "name"}
        BY DEF PackagesWhole, TypeOK
      <3> QED
        BY <3>1, <3>2 DEF SurvivesLinked
    <2>4. \A t \in Target : risk'[t] = "none"
      BY <1>2 DEF PowerLoss
    <2>5. \A r \in Run : pc'[r] \in Over
      BY <1>2 DEF PowerLoss, Alive, Over, TypeOK
    <2> QED
      BY <2>1, <2>2, <2>3, <2>4, <2>5 DEF PackagesWhole, Over
  <1> QED
    BY <1>1, <1>2

-----------------------------------------------------------------------------
(***************************************************************************)
(* The rows that an installation has reported.                             *)
(***************************************************************************)
Kept(r, i) ==
  LET p == Pins[r][i]
  IN Undisputed(p) =>
       /\ Alive(r) /\ i < row[r] => target[p.target] = Member[p.sha]
       /\ i = row[r] /\ pc[r] \in {"extracted", "publish", "published"} =>
            candidate[r] = Member[p.sha]
       /\ i = row[r] /\ pc[r] = "extract" => archive[p.archive] = p.sha
       /\ i = row[r] /\ pc[r] = "published" => target[p.target] = Member[p.sha]

LEMMA RowTyped ==
  ASSUME NEW r \in Run, NEW i \in DOMAIN Pins[r]
  PROVE  /\ Pins[r][i] \in PinRow /\ Pins[r][i] \in RowsOf(r)
         /\ Member[Pins[r][i].sha] \in Binary /\ Member[Pins[r][i].sha] # Nothing
         /\ i \in Nat /\ i # 0
  <1>1. Pins[r] \in Seq(PinRow)
    BY PinsTyped
  <1>2. Pins[r][i] \in PinRow /\ i \in Nat /\ i # 0
    BY <1>1
  <1>3. Pins[r][i].sha \in Digest
    BY <1>2 DEF PinRow
  <1> QED
    BY <1>2, <1>3, Constants DEF RowsOf

\* A target that is there stays, and so does an archive that no other row gives
\* another digest.
LEMMA FilesStay ==
  ASSUME TypeOK, RowsInOrder, NEW s \in Run,
         Step(s) \/ Start(s) \/ Fail(s) \/ Signal(s) \/ Kill(s)
  PROVE  /\ \A t \in Target : target[t] # Nothing => target'[t] = target[t]
         /\ \A p \in PinRow : Undisputed(p) /\ archive[p.archive] = p.sha
                               => archive'[p.archive] = p.sha
  <1>1. \A t \in Target : target[t] # Nothing => target'[t] = target[t]
    BY FilesStep DEF TypeOK
  <1>2. ASSUME NEW p \in PinRow, Undisputed(p), archive[p.archive] = p.sha
        PROVE  archive'[p.archive] = p.sha
    <2>1. CASE archive' = archive
      BY <1>2, <2>1
    <2>2. CASE pc[s] = "downloaded" /\ archive' = [archive EXCEPT ![Pin(s).archive] = Pin(s).sha]
      <3>1. Pin(s) \in RowsOf(s) /\ Pin(s).archive \in Archive
        BY <2>2, PinTyped DEF Working, PinRow
      <3>2. p.archive \in Archive
        BY DEF PinRow
      <3>3. Pin(s).archive = p.archive => Pin(s).sha = p.sha
        BY <1>2, <3>1 DEF Undisputed
      <3> QED
        BY <1>2, <2>2, <3>1, <3>2, <3>3 DEF TypeOK
    <2> QED
      BY <2>1, <2>2, FilesStep
  <1> QED
    BY <1>1, <1>2

LEMMA KeptByOthers ==
  ASSUME TypeOK, RowsInOrder, NEW r \in Run, NEW s \in Run, s # r, NEW i \in DOMAIN Pins[r],
         Kept(r, i), Step(s) \/ Start(s) \/ Fail(s) \/ Signal(s) \/ Kill(s)
  PROVE  Kept(r, i)'
  <1>1. pc'[r] = pc[r] /\ row'[r] = row[r] /\ candidate'[r] = candidate[r]
    BY OthersKeep
  <1>2. /\ Pins[r][i] \in PinRow /\ Pins[r][i].target \in Target
        /\ Member[Pins[r][i].sha] # Nothing
    BY RowTyped DEF PinRow
  <1> QED
    BY <1>1, <1>2, FilesStay DEF Kept, Alive, Undisputed

LEMMA KeptByItself ==
  ASSUME TypeOK, RowsInOrder, PackagesWhole, NEW r \in Run, NEW i \in DOMAIN Pins[r],
         Kept(r, i), Step(r) \/ Start(r) \/ Fail(r) \/ Signal(r) \/ Kill(r)
  PROVE  Kept(r, i)'
  <1> DEFINE p == Pins[r][i]
  <1>0. /\ p \in PinRow /\ p.target \in Target /\ p.archive \in Archive
        /\ Member[p.sha] # Nothing /\ i \in Nat /\ i # 0 /\ row[r] \in Nat
    BY RowTyped DEF PinRow, TypeOK
  <1>1. target[p.target] = Member[p.sha] => target'[p.target] = Member[p.sha]
    BY <1>0, FilesStay
  <1>2. Undisputed(p) /\ archive[p.archive] = p.sha => archive'[p.archive] = p.sha
    BY <1>0, FilesStay
  <1>3. Deferred(r) \in Leaving /\ Deferred(r) \notin Working
    BY DEF Deferred, Leaving, Working
  <1>4. Undisputed(p)' = Undisputed(p)
    BY DEF Undisputed
  <1> USE DEF Alive, Over, Working
  <1>5. ASSUME /\ pc'[r] \notin Working /\ row'[r] = row[r]
               /\ Alive(r)' => Alive(r) \/ pc[r] = "new"
        PROVE Kept(r, i)'
    <2>1. pc[r] = "new" => ~(i < row[r])
      BY <1>0 DEF RowsInOrder
    <2> QED
      BY <1>1, <1>4, <1>5, <2>1 DEF Kept
  <1>6. CASE CheckDigest(r)
    <2>1. i = row[r] => Pin(r) = p
      BY DEF Pin
    <2>2. \/ pc'[r] \in Leaving
          \/ pc'[r] = "extract" /\ archive[Pin(r).archive] = Pin(r).sha
      BY <1>3, <1>6 DEF CheckDigest, Goto, Leave, TypeOK
    <2>3. row'[r] = row[r] /\ archive' = archive /\ pc[r] = "digest"
      BY <1>6 DEF CheckDigest, Goto, Leave, Drop, At, fileVars
    <2> QED
      BY <1>1, <1>4, <2>1, <2>2, <2>3 DEF Kept, Leaving
  <1>7. CASE Extract(r)
    <2>1. i = row[r] => Pin(r) = p
      BY DEF Pin
    <2>2. /\ pc[r] = "extract" /\ pc'[r] = "extracted" /\ row'[r] = row[r]
          /\ candidate'[r] = Member[archive[Pin(r).archive]]
      BY <1>7 DEF Extract, At, TypeOK
    <2> QED
      BY <1>1, <1>4, <2>1, <2>2 DEF Kept
  <1>8. CASE MoveArchive(r)
    <2>1. row'[r] = row[r] /\ pc[r] = "downloaded" /\ pc'[r] \in Leaving \cup {"digest"}
      BY <1>3, <1>8 DEF MoveArchive, Goto, Leave, Drop, At, TypeOK
    <2> QED
      BY <1>1, <1>4, <2>1 DEF Kept, Leaving
  <1>9. CASE Publish(r)
    <2>1. i = row[r] => Pin(r) = p
      BY DEF Pin
    <2>2. CASE Leave(r, "binary")
      <3>1. row'[r] = row[r] /\ pc[r] = "publish" /\ pc'[r] \in Leaving
        BY <1>3, <1>9, <2>2 DEF Publish, Leave, Drop, At, TypeOK
      <3> QED
        BY <1>1, <1>4, <3>1 DEF Kept, Leaving
    <2>3. CASE ~Leave(r, "binary")
      <3>1. /\ row'[r] = row[r] /\ pc[r] = "publish" /\ pc'[r] = "published"
            /\ candidate'[r] = candidate[r]
        BY <1>9, <2>3 DEF Publish, Goto, At, TypeOK
      <3>2. Pin(r).target \in Target
        BY <3>1, PinTyped DEF PinRow
      <3>3. target'[Pin(r).target] = candidate[r]
        BY <1>9, <2>3, <3>2 DEF Publish, TypeOK
      <3> QED
        BY <1>1, <1>4, <2>1, <3>1, <3>3 DEF Kept
    <2> QED
      BY <2>2, <2>3
  <1>10. CASE CheckInstalled(r)
    <2>1. CASE Leave(r, "binary")
      <3>1. row'[r] = row[r] /\ pc[r] = "published" /\ pc'[r] \in Leaving
        BY <1>3, <1>10, <2>1 DEF CheckInstalled, Leave, Drop, At, TypeOK
      <3> QED
        BY <1>1, <1>4, <3>1 DEF Kept, Leaving
    <2>2. CASE ~Leave(r, "binary")
      <3>1. /\ row'[r] = row[r] + 1 /\ pc[r] = "published" /\ pc'[r] = "row"
            /\ target' = target
        BY <1>10, <2>2 DEF CheckInstalled, At, TypeOK, fileVars
      <3>2. i < row'[r] => i < row[r] \/ i = row[r]
        BY <1>0, <3>1
      <3> QED
        BY <1>1, <1>4, <3>1, <3>2 DEF Kept
    <2> QED
      BY <2>1, <2>2
  <1> QED
    BY <1>0, <1>1, <1>2, <1>4, <1>5, <1>6, <1>7, <1>8, <1>9, <1>10, OwnStep DEF Kept

LEMMA KeptOutside ==
  ASSUME TypeOK, NEW r \in Run, NEW i \in DOMAIN Pins[r], Kept(r, i),
         (\E p \in Pid : Stranger(p)) \/ PowerLoss
  PROVE  Kept(r, i)'
  <1>1. CASE \E p \in Pid : Stranger(p)
    BY <1>1 DEF Stranger, runVars, fileVars, Kept, Alive, Undisputed
  <1>2. CASE PowerLoss
    <2>1. pc'[r] \in Over
      BY <1>2 DEF PowerLoss, Alive, Over
    <2> QED
      BY <2>1 DEF Kept, Alive, Over
  <1> QED
    BY <1>1, <1>2

-----------------------------------------------------------------------------
(***************************************************************************)
(* The theorems.                                                           *)
(***************************************************************************)
LEMMA ReportedIsKept == ReportedIsPinned <=> \A r \in Run : \A i \in DOMAIN Pins[r] : Kept(r, i)
  BY DEF ReportedIsPinned, Kept

LEMMA StepKeepsInv == ProvidersInv /\ [Next]_vars => ProvidersInv'
  <1> SUFFICES ASSUME ProvidersInv, [Next]_vars PROVE ProvidersInv'
    OBVIOUS
  <1>0. TypeOK /\ StagingStays /\ RowsInOrder /\ PackagesWhole /\ ReportedIsPinned
    BY DEF ProvidersInv
  <1>1. CASE UNCHANGED vars
    <2> USE <1>1 DEF vars, runVars, fileVars
    <2>1. TypeOK'
      BY <1>0 DEF TypeOK
    <2>2. StagingStays' /\ RowsInOrder'
      BY <1>0 DEF StagingStays, Staged, Alive, RowsInOrder
    <2>3. PackagesWhole'
      BY <1>0 DEF PackagesWhole
    <2>4. ReportedIsPinned'
      BY <1>0 DEF ReportedIsPinned, Alive, Undisputed
    <2> QED
      BY <2>1, <2>2, <2>3, <2>4 DEF ProvidersInv
  <1>2. ASSUME NEW s \in Run, Step(s) \/ Start(s) \/ Fail(s) \/ Signal(s) \/ Kill(s)
        PROVE ProvidersInv'
    <2>1. TypeOK' /\ StagingStays' /\ RowsInOrder' /\ PackagesWhole'
      BY <1>0, <1>2, StepTyped, StagedStep, RowsStep, PackagesStep
    <2>2. \A r \in Run : \A i \in DOMAIN Pins[r] : Kept(r, i)
      BY <1>0, ReportedIsKept
    <2>3. ASSUME NEW r \in Run, NEW i \in DOMAIN Pins[r] PROVE Kept(r, i)'
      <3>1. CASE r = s
        BY <1>0, <1>2, <2>2, <3>1, KeptByItself
      <3>2. CASE r # s
        BY <1>0, <1>2, <2>2, <3>2, KeptByOthers
      <3> QED
        BY <3>1, <3>2
    <2>4. ReportedIsPinned'
      BY <2>3 DEF ReportedIsPinned, Kept
    <2> QED
      BY <2>1, <2>4 DEF ProvidersInv
  <1>3. ASSUME (\E p \in Pid : Stranger(p)) \/ PowerLoss PROVE ProvidersInv'
    <2>1. TypeOK' /\ StagingStays' /\ PackagesWhole'
      BY <1>0, <1>3, OutsideTyped, StagedOutside, PackagesOutside
    <2>2. RowsInOrder'
      BY <1>0, <1>3 DEF RowsInOrder, Stranger, PowerLoss, runVars, Alive, Over, Working, TypeOK
    <2>3. \A r \in Run : \A i \in DOMAIN Pins[r] : Kept(r, i)
      BY <1>0, ReportedIsKept
    <2>4. \A r \in Run : \A i \in DOMAIN Pins[r] : Kept(r, i)'
      BY <1>0, <1>3, <2>3, KeptOutside
    <2>5. ReportedIsPinned'
      BY <2>4 DEF ReportedIsPinned, Kept
    <2> QED
      BY <2>1, <2>2, <2>5 DEF ProvidersInv
  <1> QED
    BY <1>1, <1>2, <1>3 DEF Next

\* Whatever installations run at the same time, are killed, or meet a power
\* loss: nobody removes the staging of one that runs, the mirror holds whole
\* binaries of pinned archives only, and what an installation reports is there
\* as its pin file says, when no other row gives the archive another digest.
THEOREM ProvidersHold == Spec => []ProvidersInv
  BY InitInv, StepKeepsInv, PTL DEF Spec

\* A binary in the mirror is never replaced (publishCandidate); only a power
\* loss may take it away.
THEOREM BinaryStays == Spec => NeverReplaced
  <1>1. ProvidersInv /\ [Next]_vars =>
          [\A t \in Target : target[t] # Nothing =>
             \/ target'[t] = target[t]
             \/ target'[t] = Nothing /\ losses' > losses]_vars
    <2> SUFFICES ASSUME ProvidersInv, Next, NEW t \in Target, target[t] # Nothing
                 PROVE  \/ target'[t] = target[t]
                        \/ target'[t] = Nothing /\ losses' > losses
      OBVIOUS
    <2>0. TypeOK /\ RowsInOrder /\ PackagesWhole
      BY DEF ProvidersInv
    <2>1. CASE \E s \in Run : Step(s) \/ Start(s) \/ Fail(s) \/ Signal(s) \/ Kill(s)
      BY <2>0, <2>1, FilesStay
    <2>2. CASE \E p \in Pid : Stranger(p)
      BY <2>2 DEF Stranger, fileVars
    <2>3. CASE PowerLoss
      <3>1. target'[t] \in SurvivesLinked(target[t], risk[t]) /\ losses' = losses + 1
        BY <2>3 DEF PowerLoss
      <3>2. risk[t] \in {"none", "name"} /\ losses \in Nat
        BY <2>0 DEF PackagesWhole, TypeOK
      <3> QED
        BY <3>1, <3>2 DEF SurvivesLinked
    <2> QED
      BY <2>1, <2>2, <2>3 DEF Next
  <1> QED
    BY <1>1, ProvidersHold, PTL DEF Spec, NeverReplaced

\* What the refusals rest on: an archive that an installation is about to
\* check is there, and an installation that works has not been refused.
Refused == {"archive", "binary"}
Pending(r) ==
  /\ pc[r] = "digest" => archive[Pin(r).archive] # Nothing
  /\ pc[r] \notin (Leaving \cup Over) \ {"new"} => outcome[r] \notin Refused
Justified(r) ==
  \A i \in DOMAIN Pins[r] :
    i = row[r] /\ Undisputed(Pins[r][i]) /\ losses = 0 =>
      /\ outcome[r] # "archive"
      /\ outcome[r] = "binary" => target[Pins[r][i].target] \notin {Nothing, Member[Pins[r][i].sha]}

LEMMA PendingStep ==
  ASSUME TypeOK, RowsInOrder, PackagesWhole, NEW r \in Run, NEW s \in Run, Pending(r),
         Step(s) \/ Start(s) \/ Fail(s) \/ Signal(s) \/ Kill(s)
  PROVE  Pending(r)'
  <1>1. \A a \in Archive : archive[a] # Nothing => archive'[a] # Nothing
    <2>1. CASE archive' = archive
      BY <2>1
    <2>2. CASE pc[s] = "downloaded" /\ archive' = [archive EXCEPT ![Pin(s).archive] = Pin(s).sha]
      <3>1. Pin(s).sha # Nothing
        BY <2>2, PinTyped, Constants DEF Working, PinRow
      <3> QED
        BY <2>2, <3>1 DEF TypeOK
    <2> QED
      BY <2>1, <2>2, FilesStep
  <1>2. pc[r] \in Working => Pin(r).archive \in Archive
    BY PinTyped DEF PinRow
  <1>3. CASE r # s
    BY <1>1, <1>2, <1>3, OthersKeep DEF Pending, Pin, Working
  <1>4. CASE r = s
    <2>0. Deferred(r) \in Leaving /\ Deferred(r) # "digest" /\ "digest" \notin Leaving \cup Over
      BY DEF Deferred, Leaving, Over
    <2> USE <1>4, <2>0 DEF Working, Goto, Leave, Drop, At
    <2>1. CASE CheckDigest(r)
      BY <2>1 DEF CheckDigest, Pending, TypeOK, Leaving, Over
    <2>2. CASE Extract(r) \/ CheckInstalled(r)
      BY <2>2 DEF Extract, CheckInstalled, Pending, TypeOK, Leaving, Over
    <2>3. CASE Publish(r)
      BY <2>3 DEF Publish, Pending, TypeOK, Leaving, Over
    <2>4. CASE MoveArchive(r)
      <3>1. CASE Leave(r, "download")
        BY <2>4, <3>1 DEF MoveArchive, Pending, TypeOK, Leaving, Over
      <3>2. CASE ~Leave(r, "download")
        <4>1. /\ pc[r] = "downloaded" /\ pc'[r] = "digest" /\ outcome' = outcome /\ row' = row
              /\ archive' = [archive EXCEPT ![Pin(r).archive] = partial[r]] /\ partial[r] = Pin(r).sha
          BY <2>4, <3>2 DEF MoveArchive, TypeOK
        <4>2. Pin(r).sha # Nothing /\ Pin(r).archive \in Archive /\ Pin(r)' = Pin(r)
          BY <4>1, PinTyped, Constants DEF PinRow, Pin
        <4> QED
          BY <4>1, <4>2 DEF Pending, TypeOK, Leaving, Over
      <3> QED
        BY <3>1, <3>2
    <2>5. row'[r] = row[r] => Pin(r)' = Pin(r)
      BY DEF Pin
    <2>6. ASSUME /\ pc'[r] \notin Working /\ pc'[r] # "new"
                 /\ outcome'[r] \notin {"archive", "binary"} \/ outcome'[r] = outcome[r]
                 /\ pc[r] \in Leaving \cup Over /\ pc[r] # "new" => pc'[r] \in Leaving \cup Over
          PROVE Pending(r)'
      BY <2>6 DEF Pending, Refused
    <2>7. ASSUME /\ pc[r] \in {"row", "extracted", "download"} /\ row'[r] = row[r]
                 /\ outcome'[r] = outcome[r]
                 /\ pc'[r] # "digest" \/ archive[Pin(r).archive] # Nothing
                 /\ pc'[r] = "digest" => pc[r] = "row" /\ row[r] <= Len(Pins[r])
          PROVE Pending(r)'
      <3>1. pc[r] = "row" /\ row[r] <= Len(Pins[r]) => Pin(r).archive \in Archive
        <4>1. Pins[r] \in Seq(PinRow) /\ row[r] \in Nat \ {0}
          BY PinsTyped DEF TypeOK
        <4>2. row[r] <= Len(Pins[r]) => Pin(r) \in PinRow
          BY <4>1 DEF Pin
        <4> QED
          BY <4>2 DEF PinRow
      <3> QED
        BY <1>1, <2>5, <2>7, <3>1 DEF Pending, Leaving, Over
    <2>8. ASSUME pc'[r] = pc[r] /\ row'[r] = row[r] /\ outcome'[r] = outcome[r]
          PROVE Pending(r)'
      BY <1>1, <1>2, <2>5, <2>8 DEF Pending
    <2> QED
      BY <2>1, <2>2, <2>3, <2>4, <2>6, <2>7, <2>8, OwnStep
  <1> QED
    BY <1>3, <1>4

LEMMA JustifiedStep ==
  ASSUME ProvidersInv, NEW r \in Run, NEW s \in Run, Pending(r), Justified(r),
         Step(s) \/ Start(s) \/ Fail(s) \/ Signal(s) \/ Kill(s)
  PROVE  Justified(r)'
  <1>0. TypeOK /\ RowsInOrder /\ PackagesWhole /\ ReportedIsPinned
    BY DEF ProvidersInv
  <1> SUFFICES ASSUME NEW i \in DOMAIN Pins[r], i = row'[r], Undisputed(Pins[r][i]), losses' = 0
               PROVE  /\ outcome'[r] # "archive"
                      /\ outcome'[r] = "binary" =>
                           target'[Pins[r][i].target] \notin {Nothing, Member[Pins[r][i].sha]}
    BY DEF Justified, Undisputed
  <1> DEFINE p == Pins[r][i]
  <1>1. losses = 0
    BY <1>0, FilesStep
  <1>2. /\ p \in PinRow /\ p \in RowsOf(r) /\ p.target \in Target /\ p.archive \in Archive
        /\ Member[p.sha] # Nothing
    BY RowTyped DEF PinRow
  <1>3. target[p.target] # Nothing => target'[p.target] = target[p.target]
    BY <1>0, <1>2, FilesStay
  <1>4. CASE outcome'[r] = outcome[r] /\ row'[r] = row[r]
    BY <1>1, <1>3, <1>4 DEF Justified
  <1>5. CASE r # s
    BY <1>0, <1>4, <1>5, OthersKeep
  <1>6. CASE outcome'[r] \notin Refused
    BY <1>6 DEF Refused
  <1>7. CASE r = s /\ CheckDigest(s)
    <2>1. CASE i = row[r] /\ pc[r] = "digest"
      <3>1. archive[p.archive] # Nothing
        BY <2>1 DEF Pending, Pin
      <3>2. archive[p.archive] \in PinnedFor(p.archive)
        BY <1>0, <1>1, <1>2, <3>1 DEF PackagesWhole
      <3>3. PinnedFor(p.archive) \subseteq {p.sha}
        BY DEF PinnedFor, Undisputed
      <3>4. archive[p.archive] = Pin(r).sha /\ Pin(r).archive = p.archive
        BY <2>1, <3>2, <3>3 DEF Pin
      <3>5. outcome' = outcome /\ row' = row
        BY <1>7, <3>4 DEF CheckDigest, Goto
      <3> QED
        BY <1>4, <3>5
    <2>2. i = row[r] /\ pc[r] = "digest"
      BY <1>7 DEF CheckDigest, Goto, Leave, Drop, At
    <2> QED
      BY <2>1, <2>2
  <1>8. CASE r = s /\ Extract(s)
    BY <1>4, <1>8 DEF Extract
  <1>9. CASE r = s /\ MoveArchive(s)
    <2>1. row' = row /\ outcome'[r] \in {outcome[r], "download"}
      BY <1>0, <1>9 DEF MoveArchive, Goto, Leave, Drop, TypeOK
    <2> QED
      BY <1>4, <1>6, <2>1 DEF Refused
  <1>10. CASE r = s /\ Publish(s)
    <2>1. row' = row /\ pc[r] = "publish"
      BY <1>10 DEF Publish, Goto, Leave, Drop, At
    <2>2. candidate[r] = Member[p.sha] /\ Pin(r) = p
      BY <1>0, <2>1 DEF ReportedIsPinned, Pin
    <2>3. CASE outcome' = outcome
      BY <1>4, <2>1, <2>3
    <2>4. CASE outcome' # outcome
      <3>1. /\ target[p.target] \notin {Nothing, candidate[r]} /\ target' = target
            /\ outcome'[r] = "binary"
        BY <1>0, <1>10, <2>2, <2>4 DEF Publish, Goto, Leave, TypeOK
      <3> QED
        BY <2>2, <3>1
    <2> QED
      BY <2>3, <2>4
  <1>11. CASE r = s /\ CheckInstalled(s)
    <2>1. pc[r] = "published"
      BY <1>11 DEF CheckInstalled, At
    <2>2. CASE target[Pin(r).target] = candidate[r]
      <3>1. outcome' = outcome
        BY <1>11, <2>2 DEF CheckInstalled
      <3>2. outcome[r] \notin Refused
        BY <2>1 DEF Pending, Leaving, Over
      <3> QED
        BY <1>6, <3>1, <3>2
    <2>3. CASE target[Pin(r).target] # candidate[r]
      <3>1. row' = row
        BY <1>11, <2>3 DEF CheckInstalled, Leave, Drop
      <3>2. Pin(r) = p /\ candidate[r] = Member[p.sha] /\ target[p.target] = Member[p.sha]
        BY <1>0, <2>1, <3>1 DEF ReportedIsPinned, Pin
      <3> QED
        BY <2>3, <3>2
    <2> QED
      BY <2>2, <2>3
  <1> QED
    BY <1>0, <1>4, <1>5, <1>6, <1>7, <1>8, <1>9, <1>10, <1>11, OwnStep DEF Refused

LEMMA JustifiedOutside ==
  ASSUME TypeOK, NEW r \in Run, Pending(r), Justified(r), (\E p \in Pid : Stranger(p)) \/ PowerLoss
  PROVE  Pending(r)' /\ Justified(r)'
  <1>1. CASE \E p \in Pid : Stranger(p)
    BY <1>1 DEF Stranger, runVars, fileVars, Pending, Justified, Pin, Undisputed
  <1>2. CASE PowerLoss
    <2>1. losses' # 0
      BY <1>2 DEF PowerLoss, TypeOK
    <2>2. pc'[r] \in Over /\ outcome' = outcome /\ (pc'[r] = "new" => pc[r] = "new")
      BY <1>2 DEF PowerLoss, Alive, Over
    <2> QED
      BY <2>1, <2>2 DEF Pending, Justified, Over, Leaving
  <1> QED
    BY <1>1, <1>2

\* Two processes can install at the same time: as long as the power does not
\* fail and no other row gives its archive another digest, an installation is
\* never refused for a damaged or foreign archive, and for a binary only where
\* another one is already in its place.
THEOREM RefusalsAreDue == Spec => []RefusedForReason
  <1> DEFINE J == \A r \in Run : Pending(r) /\ Justified(r)
  <1>1. Init => J
    BY DEF Init, Pending, Justified, Refused
  <1>2. ProvidersInv /\ J /\ [Next]_vars => J'
    <2> SUFFICES ASSUME ProvidersInv, J, [Next]_vars, NEW r \in Run
                 PROVE  Pending(r)' /\ Justified(r)'
      OBVIOUS
    <2>0. TypeOK /\ RowsInOrder /\ PackagesWhole
      BY DEF ProvidersInv
    <2>1. CASE UNCHANGED vars
      BY <2>1 DEF vars, runVars, fileVars, Pending, Justified, Pin, Undisputed
    <2>2. CASE \E s \in Run : Step(s) \/ Start(s) \/ Fail(s) \/ Signal(s) \/ Kill(s)
      BY <2>0, <2>2, PendingStep, JustifiedStep
    <2>3. CASE (\E p \in Pid : Stranger(p)) \/ PowerLoss
      BY <2>0, <2>3, JustifiedOutside
    <2> QED
      BY <2>1, <2>2, <2>3 DEF Next
  <1>3. J => RefusedForReason
    BY DEF Justified, RefusedForReason
  <1> QED
    BY <1>1, <1>2, <1>3, ProvidersHold, PTL DEF Spec
=============================================================================
