------------------------------ MODULE Providers ------------------------------
(***************************************************************************)
(* configsctl providers install (providersinstall.go).  Installations run  *)
(* at the same time, share the mirror and the archive cache, and end at    *)
(* any point: on an error, on a signal, killed, or when the power fails.   *)
(* Each keeps what it is not done with in two staging directories that     *)
(* carry its process id, and begins by removing those of exited processes. *)
(***************************************************************************)
EXTENDS Integers, FiniteSets, Sequences

CONSTANTS
  Run,        \* installations, each of which happens at most once
  Pid,        \* process ids
  Pins,       \* Pins[r]: the rows for this host in the pin file that r reads
  Archive,    \* paths in the archive cache, one for each release tag
  Target,     \* paths of binaries in the mirror, one for each version
  Digest,     \* digests of archives
  Binary,     \* contents of binaries
  Member,     \* Member[d]: the binary in the archive with digest d
  Served,     \* Served[a]: the archives that the release has had to offer
  MaxLosses,  \* bound of the model: power losses
  Nothing     \* no file, no process id, no binary

Damaged == "damaged"     \* a file whose name reached the disk before its data
Roots == {"mirror", "cache"}

ASSUME ProvidersAssumption ==
  /\ Pins \in [Run -> Seq([archive : Archive, target : Target, sha : Digest])]
  /\ Member \in [Digest -> Binary]
  /\ Served \in [Archive -> SUBSET Digest]
  /\ Nothing \notin Pid /\ Nothing \notin Digest /\ Nothing \notin Binary
  /\ Damaged \notin Digest /\ Damaged \notin Binary /\ Damaged # Nothing
  /\ MaxLosses \in Nat

VARIABLES
  pc,         \* pc[r]: how far the installation has come
  pid,        \* pid[r]: its process id
  row,        \* row[r]: the row it is at
  seen,       \* seen[r]: entries of a staging root that it has still to look at
  stopped,    \* the installations that a signal has canceled
  partial,    \* partial[r]: the archive it has downloaded
  candidate,  \* candidate[r]: the binary it has extracted
  synced,     \* the installations whose candidate is on disk
  outcome,    \* outcome[r]: the error it ends with, or "ok"
  dirs,       \* dirs[root]: the installations with a directory there
  strangers,  \* process ids that other programs have
  archive,    \* archive[a]: the file at a path in the cache
  target,     \* target[t]: the file at a path in the mirror
  risk,       \* risk[t]: what of a target a power loss takes
  losses      \* how many times the power has failed

runVars == <<pc, row, seen, stopped, partial, candidate, synced, outcome>>
fileVars == <<archive, target, risk>>
vars == <<runVars, pid, dirs, strangers, fileVars, losses>>

Over == {"new", "ended", "dead"}
Leaving == {"clean cache", "clean mirror", "exit"}
Alive(r) == pc[r] \notin Over
Pin(r) == Pins[r][row[r]]

\* processRunning: kill with signal 0.
Running(p) == p \in strangers \/ \E r \in Run : Alive(r) /\ pid[r] = p

Init ==
  /\ pc = [r \in Run |-> "new"]
  /\ pid = [r \in Run |-> Nothing]
  /\ row = [r \in Run |-> 1]
  /\ seen = [r \in Run |-> {}]
  /\ stopped = {}
  /\ partial = [r \in Run |-> Nothing]
  /\ candidate = [r \in Run |-> Nothing]
  /\ synced = {}
  /\ outcome = [r \in Run |-> "none"]
  /\ dirs = [root \in Roots |-> {}]
  /\ strangers = {}
  /\ archive = [a \in Archive |-> Nothing]
  /\ target = [t \in Target |-> Nothing]
  /\ risk = [t \in Target |-> "none"]
  /\ losses = 0

-----------------------------------------------------------------------------
At(r, s) == pc[r] = s
Goto(r, s) ==
  /\ pc' = [pc EXCEPT ![r] = s]
  /\ UNCHANGED <<row, seen, stopped, partial, candidate, synced, outcome>>

\* An error: the deferred calls remove the directories that were made.
Deferred(r) ==
  IF r \in dirs["cache"] THEN "clean cache"
  ELSE IF r \in dirs["mirror"] THEN "clean mirror" ELSE "exit"

\* What the process had in memory is no longer of use.
Drop(r) ==
  /\ seen' = [seen EXCEPT ![r] = {}]
  /\ stopped' = stopped \ {r}
  /\ partial' = [partial EXCEPT ![r] = Nothing]
  /\ candidate' = [candidate EXCEPT ![r] = Nothing]
  /\ synced' = synced \ {r}
  /\ row' = row

Leave(r, why) ==
  /\ pc' = [pc EXCEPT ![r] = Deferred(r)]
  /\ outcome' = [outcome EXCEPT ![r] = why]
  /\ Drop(r)

Others == UNCHANGED <<pid, strangers, losses>>

\* The process starts and its pin file is valid, with rows for this host.
Start(r) ==
  /\ At(r, "new")
  /\ \E p \in Pid : ~Running(p) /\ pid' = [pid EXCEPT ![r] = p]
  /\ Goto(r, "mirror")
  /\ UNCHANGED <<dirs, strangers, fileVars, losses>>

\* An operation on a file, a directory or the archive fails.
Fail(r) ==
  /\ Alive(r) /\ pc[r] \notin Leaving
  /\ Leave(r, "io")
  /\ UNCHANGED <<pid, dirs, strangers, fileVars, losses>>

Signal(r) ==
  /\ Alive(r) /\ pc[r] \notin Leaving /\ r \notin stopped
  /\ stopped' = stopped \cup {r}
  /\ UNCHANGED <<pc, row, seen, partial, candidate, synced, outcome>>
  /\ Others /\ UNCHANGED <<dirs, fileVars>>

-----------------------------------------------------------------------------
(***************************************************************************)
(* The staging directories.                                                *)
(***************************************************************************)
Root(r) == IF pc[r] \in {"mirror", "scan mirror"} THEN "mirror" ELSE "cache"

ReadRoot(r) ==
  /\ pc[r] \in Roots
  /\ seen' = [seen EXCEPT ![r] = dirs[pc[r]]]
  /\ pc' = [pc EXCEPT ![r] = IF pc[r] = "mirror" THEN "scan mirror" ELSE "scan cache"]
  /\ UNCHANGED <<row, stopped, partial, candidate, synced, outcome, dirs, fileVars>>
  /\ Others

\* A bug to be found: whatever was there at the start is a leftover.
LookBlindly(r, e) ==
  /\ pc[r] \in {"scan mirror", "scan cache"} /\ e \in seen[r]
  /\ seen' = [seen EXCEPT ![r] = @ \ {e}]
  /\ dirs' = [dirs EXCEPT ![Root(r)] = @ \ {e}]
  /\ UNCHANGED <<pc, row, stopped, partial, candidate, synced, outcome, fileVars>>
  /\ Others

\* One turn of removeStaleStaging.  The name of a directory has a random
\* part, so a new process with the same id does not use it again and the
\* removal may be taken together with the look at the process.
Look(r, e) ==
  /\ pc[r] \in {"scan mirror", "scan cache"} /\ e \in seen[r]
  /\ seen' = [seen EXCEPT ![r] = @ \ {e}]
  /\ dirs' = IF Running(pid[e]) THEN dirs ELSE [dirs EXCEPT ![Root(r)] = @ \ {e}]
  /\ UNCHANGED <<pc, row, stopped, partial, candidate, synced, outcome, fileVars>>
  /\ Others

\* createRunDirectory.
MakeDir(r) ==
  /\ pc[r] \in {"scan mirror", "scan cache"} /\ seen[r] = {}
  /\ dirs' = [dirs EXCEPT ![Root(r)] = @ \cup {r}]
  /\ Goto(r, IF pc[r] = "scan mirror" THEN "cache" ELSE "row")
  /\ Others /\ UNCHANGED fileVars

\* removeRunDirectory: an error is only logged.
Clean(r) ==
  /\ pc[r] \in {"clean cache", "clean mirror"}
  /\ LET root == IF pc[r] = "clean cache" THEN "cache" ELSE "mirror"
     IN dirs' \in {dirs, [dirs EXCEPT ![root] = @ \ {r}]}
  /\ Goto(r, IF pc[r] = "clean cache" THEN "clean mirror" ELSE "exit")
  /\ Others /\ UNCHANGED fileVars

Exit(r) ==
  /\ At(r, "exit")
  /\ Goto(r, "ended")
  /\ Others /\ UNCHANGED <<dirs, fileVars>>

-----------------------------------------------------------------------------
(***************************************************************************)
(* One row: installProvider.                                               *)
(***************************************************************************)

\* The loop of installProviders, then ensureArchive or providerMirrorSources.
NextRow(r) ==
  /\ At(r, "row")
  /\ CASE row[r] > Len(Pins[r]) -> Leave(r, "ok")
       [] row[r] <= Len(Pins[r]) /\ r \in stopped -> Leave(r, "stopped")
       [] row[r] <= Len(Pins[r]) /\ r \notin stopped /\ archive[Pin(r).archive] = Nothing ->
            Goto(r, "download")
       [] OTHER -> Goto(r, "digest")
  /\ UNCHANGED <<pid, dirs, strangers, losses, fileVars>>

\* gh release download ends; the cancellation ends it too.
Download(r) ==
  /\ At(r, "download")
  /\ \/ /\ r \in dirs["cache"]
        /\ \E d \in Served[Pin(r).archive] : partial' = [partial EXCEPT ![r] = d]
        /\ pc' = [pc EXCEPT ![r] = "downloaded"]
        /\ UNCHANGED <<row, seen, stopped, candidate, synced, outcome>>
     \/ r \in stopped /\ Leave(r, "stopped")
  /\ UNCHANGED <<pid, dirs, strangers, losses, fileVars>>

\* The rest of downloadArchive: digest, then rename into the cache.
MoveArchive(r) ==
  /\ At(r, "downloaded")
  /\ IF partial[r] = Pin(r).sha
     THEN Goto(r, "digest") /\ archive' = [archive EXCEPT ![Pin(r).archive] = partial[r]]
     ELSE Leave(r, "download") /\ archive' = archive
  /\ Others /\ UNCHANGED <<dirs, target, risk>>

CheckDigest(r) ==
  /\ At(r, "digest")
  /\ IF archive[Pin(r).archive] = Pin(r).sha THEN Goto(r, "extract") ELSE Leave(r, "archive")
  /\ Others /\ UNCHANGED <<dirs, fileVars>>

\* extractCandidate opens the archive anew; a damaged one is refused (Fail).
Extract(r) ==
  /\ At(r, "extract") /\ archive[Pin(r).archive] \in Digest
  /\ candidate' = [candidate EXCEPT ![r] = Member[archive[Pin(r).archive]]]
  /\ synced' = synced \cup {r}
  /\ pc' = [pc EXCEPT ![r] = "extracted"]
  /\ UNCHANGED <<row, seen, stopped, partial, outcome, dirs, fileVars>> /\ Others

BeforePublish(r) ==
  /\ At(r, "extracted")
  /\ IF r \in stopped THEN Leave(r, "stopped") ELSE Goto(r, "publish")
  /\ Others /\ UNCHANGED <<dirs, fileVars>>

\* A bug to be found: the candidate is renamed onto the target.
PublishByRename(r) ==
  /\ At(r, "publish")
  /\ Goto(r, "published")
  /\ target' = [target EXCEPT ![Pin(r).target] = candidate[r]]
  /\ risk' = [risk EXCEPT ![Pin(r).target] = IF r \in synced THEN "name" ELSE "data"]
  /\ Others /\ UNCHANGED <<dirs, archive>>

\* A bug to be found: a target that is already there is an error.
PublishOnce(r) ==
  /\ At(r, "publish")
  /\ IF target[Pin(r).target] = Nothing
     THEN /\ Goto(r, "published")
          /\ target' = [target EXCEPT ![Pin(r).target] = candidate[r]]
          /\ risk' = [risk EXCEPT ![Pin(r).target] = IF r \in synced THEN "name" ELSE "data"]
     ELSE Leave(r, "binary") /\ UNCHANGED <<target, risk>>
  /\ Others /\ UNCHANGED <<dirs, archive>>

\* publishCandidate: a hard link, or the comparison with what is there.
Publish(r) ==
  LET t == Pin(r).target
  IN /\ At(r, "publish")
     /\ \/ /\ target[t] = Nothing
           /\ Goto(r, "published")
           /\ target' = [target EXCEPT ![t] = candidate[r]]
           /\ risk' = [risk EXCEPT ![t] = IF r \in synced THEN "name" ELSE "data"]
        \/ /\ target[t] = candidate[r]
           /\ Goto(r, "published") /\ UNCHANGED <<target, risk>>
        \/ /\ target[t] \notin {Nothing, candidate[r]}
           /\ Leave(r, "binary") /\ UNCHANGED <<target, risk>>
     /\ Others /\ UNCHANGED <<dirs, archive>>

\* The candidate is removed; checkInstalledBinary.
CheckInstalled(r) ==
  /\ At(r, "published")
  /\ IF target[Pin(r).target] = candidate[r]
     THEN /\ pc' = [pc EXCEPT ![r] = "row"]
          /\ row' = [row EXCEPT ![r] = @ + 1]
          /\ candidate' = [candidate EXCEPT ![r] = Nothing]
          /\ partial' = [partial EXCEPT ![r] = Nothing]
          /\ synced' = synced \ {r}
          /\ UNCHANGED <<seen, stopped, outcome>>
     ELSE Leave(r, "binary")
  /\ Others /\ UNCHANGED <<dirs, fileVars>>

-----------------------------------------------------------------------------
(***************************************************************************)
(* What else happens.                                                      *)
(***************************************************************************)

\* SIGKILL: nothing is removed; a gh that goes on writes only in the staging
\* directory, where it may make a removal fail (Fail).
Kill(r) ==
  /\ Alive(r)
  /\ pc' = [pc EXCEPT ![r] = "dead"] /\ outcome' = outcome
  /\ Drop(r)
  /\ Others /\ UNCHANGED <<dirs, fileVars>>

\* Other programs start and exit, and take process ids that are free.
Stranger(p) ==
  /\ strangers' = IF p \in strangers THEN strangers \ {p} ELSE strangers \cup {p}
  /\ p \in strangers \/ ~Running(p)
  /\ UNCHANGED <<runVars, pid, dirs, fileVars, losses>>

\* A power loss: an archive was renamed but not synced, a linked candidate
\* was synced but not its directory.
Survives(file) == IF file = Nothing THEN {Nothing} ELSE {file, Nothing, Damaged}
SurvivesLinked(file, r) ==
  CASE r = "none" -> {file}
    [] r = "name" -> {file, Nothing}
    [] r = "data" -> {file, Nothing, Damaged}

PowerLoss ==
  /\ losses < MaxLosses
  /\ losses' = losses + 1
  /\ pc' = [r \in Run |-> IF Alive(r) THEN "dead" ELSE pc[r]]
  /\ strangers' = {}
  /\ \E f \in [Archive -> Digest \cup {Nothing, Damaged}] :
       (\A a \in Archive : f[a] \in Survives(archive[a])) /\ archive' = f
  /\ \E f \in [Target -> Binary \cup {Nothing, Damaged}] :
       (\A t \in Target : f[t] \in SurvivesLinked(target[t], risk[t])) /\ target' = f
  /\ risk' = [t \in Target |-> "none"]
  /\ stopped' = {} /\ synced' = {}
  /\ seen' = [r \in Run |-> {}]
  /\ partial' = [r \in Run |-> Nothing] /\ candidate' = [r \in Run |-> Nothing]
  /\ UNCHANGED <<row, outcome, pid, dirs>>

-----------------------------------------------------------------------------
Step(r) ==
  \/ ReadRoot(r) \/ (\E e \in Run : Look(r, e)) \/ MakeDir(r) \/ Clean(r) \/ Exit(r)
  \/ NextRow(r) \/ Download(r) \/ MoveArchive(r) \/ CheckDigest(r) \/ Extract(r)
  \/ BeforePublish(r) \/ Publish(r) \/ CheckInstalled(r)

Next ==
  \/ \E r \in Run : Step(r) \/ Start(r) \/ Fail(r) \/ Signal(r) \/ Kill(r)
  \/ \E p \in Pid : Stranger(p)
  \/ PowerLoss

Spec == Init /\ [][Next]_vars

-----------------------------------------------------------------------------
(***************************************************************************)
(* Properties.                                                             *)
(***************************************************************************)
Working == {"download", "downloaded", "digest", "extract", "extracted", "publish", "published"}
States ==
  Over \cup Roots \cup Leaving \cup {"scan mirror", "scan cache", "row"} \cup Working

TypeOK ==
  /\ pc \in [Run -> States]
  /\ pid \in [Run -> Pid \cup {Nothing}]
  /\ row \in [Run -> Nat \ {0}]
  /\ seen \in [Run -> SUBSET Run]
  /\ stopped \subseteq Run /\ synced \subseteq Run
  /\ partial \in [Run -> Digest \cup {Nothing}]
  /\ candidate \in [Run -> Binary \cup {Nothing}]
  /\ outcome \in [Run -> {"none", "ok", "stopped", "io", "download", "archive", "binary"}]
  /\ dirs \in [Roots -> SUBSET Run]
  /\ strangers \subseteq Pid
  /\ archive \in [Archive -> Digest \cup {Nothing, Damaged}]
  /\ target \in [Target -> Binary \cup {Nothing, Damaged}]
  /\ risk \in [Target -> {"none", "name", "data"}]
  /\ losses \in Nat

\* Nobody has the process id of another, and nobody removes the directories
\* of an installation that runs.
Staged(r, root) ==
  \/ pc[r] \in {"cache", "scan cache"} /\ root = "mirror"
  \/ pc[r] \notin Over \cup Roots
        \cup Leaving \cup {"scan mirror", "scan cache"}

StagingStays ==
  /\ \A r \in Run : Alive(r) => pid[r] \in Pid /\ pid[r] \notin strangers
  /\ \A r, s \in Run : Alive(r) /\ Alive(s) /\ r # s => pid[r] # pid[s]
  /\ \A r \in Run, root \in Roots : Staged(r, root) => r \in dirs[root]
  /\ \A root \in Roots : \A r \in dirs[root] : pc[r] # "new"

\* An archive in the cache has the digest of a row for its path, and a target
\* is the whole binary of such an archive, also after a kill or a power loss.
RowsOf(r) == {Pins[r][i] : i \in DOMAIN Pins[r]}
PinnedFor(a) == {p.sha : p \in {q \in UNION {RowsOf(r) : r \in Run} : q.archive = a}}
Packages == {Member[d] : d \in UNION {PinnedFor(a) : a \in Archive}}

PackagesWhole ==
  /\ \A a \in Archive :
       archive[a] \in PinnedFor(a) \cup {Nothing} \cup {x \in {Damaged} : losses > 0}
  /\ \A t \in Target : target[t] \in Packages \cup {Nothing} /\ risk[t] # "data"
  /\ \A r \in Run : pc[r] \in {"extracted", "publish", "published"} =>
       r \in synced /\ candidate[r] \in Packages

\* An installation works on a row of its pin file, from the first on.
RowsInOrder ==
  \A r \in Run :
    /\ pc[r] \in Working => row[r] \in DOMAIN Pins[r]
    /\ pc[r] = "new" => row[r] = 1

\* No row gives the archive at a's path another digest.
Undisputed(p) ==
  \A r \in Run : \A q \in RowsOf(r) : q.archive = p.archive => q.sha = p.sha

\* A row that an installation has reported is in the mirror as pinned, when
\* no other row gives the same archive another digest.
ReportedIsPinned ==
  \A r \in Run : \A i \in DOMAIN Pins[r] :
    LET p == Pins[r][i]
    IN Undisputed(p) =>
         /\ Alive(r) /\ i < row[r] => target[p.target] = Member[p.sha]
         /\ i = row[r] /\ pc[r] \in {"extracted", "publish", "published"} =>
              candidate[r] = Member[p.sha]
         /\ i = row[r] /\ pc[r] = "extract" => archive[p.archive] = p.sha
         /\ i = row[r] /\ pc[r] = "published" => target[p.target] = Member[p.sha]

ProvidersInv == TypeOK /\ StagingStays /\ RowsInOrder /\ PackagesWhole /\ ReportedIsPinned

\* "prevents replacement of an installed binary": a binary in the mirror is
\* never replaced by another; only a power loss may take it away.
NeverReplaced ==
  [][\A t \in Target : target[t] # Nothing =>
       \/ target'[t] = target[t]
       \/ target'[t] = Nothing /\ losses' > losses]_vars

\* "Two processes can install at the same time": an installation is refused
\* only where rows disagree, or, as the rename into the cache is not synced,
\* after a power loss.
RefusedForReason ==
  \A r \in Run : \A i \in DOMAIN Pins[r] :
    LET p == Pins[r][i]
    IN i = row[r] /\ Undisputed(p) /\ losses = 0 =>
         /\ outcome[r] # "archive"
         /\ outcome[r] = "binary" => target[p.target] \notin {Nothing, Member[p.sha]}
=============================================================================
