---------------------- MODULE InactiveLifecycle_proofs ----------------------
(***************************************************************************)
(* Theorems about InactiveLifecycle for every number of sync processes and *)
(* archive jobs, every set of failures and every bound.                    *)
(***************************************************************************)
EXTENDS InactiveLifecycle, TLAPS

LEMMA ReconciliationNames ==
  Reconciliations =
    {"create_unix_user", "ensure_unlocked", "ensure_data_dir",
     "ensure_slurm_association", "lock_unix_account",
     "disable_slurm_association", "kill_jobs", "update_state"}
  BY DEF Reconciliations, Rank

LEMMA FirstEntryType == FirstEntry \in Entries
  BY DEF FirstEntry, Entries, Statuses, ArchiveStates

LEMMA IdleSyncType == IdleSync \in SyncStates
  BY FirstEntryType DEF IdleSync, SyncStates, Phases, Statuses, Keys, ArchiveStates, Results

LEMMA NoJobType == NoJob \in Jobs
  BY DEF NoJob, Jobs, Stages, Keys, Statuses, ArchiveStates, Results

LEMMA PlanType ==
  ASSUME NEW want, NEW assocSeen, NEW jobsSeen
  PROVE  Plan(want, assocSeen, jobsSeen) \in SUBSET Reconciliations
  BY ReconciliationNames DEF Plan

\* What one field of a process, an archive job or a file may be given.
LEMMA GotoType ==
  ASSUME TypeOK, NEW p \in Procs, NEW phase \in Phases, Goto(p, phase)
  PROVE  sync' \in [Procs -> SyncStates]
  BY DEF TypeOK, Goto, SyncStates

LEMMA EndSyncType ==
  ASSUME TypeOK, NEW p \in Procs, EndSync(p)
  PROVE  sync' \in [Procs -> SyncStates]
  BY IdleSyncType DEF TypeOK, EndSync

LEMMA RecordType ==
  ASSUME TypeOK, NEW p \in Procs, NEW a \in ArchiveStates, NEW phase \in Phases,
         Record(p, a, phase)
  PROVE  sync' \in [Procs -> SyncStates] /\ stateFile' \in Entries
<1> DEFINE entry == [sync[p].mem EXCEPT !.archive = a]
<1>1. sync[p] \in SyncStates
  BY DEF TypeOK
<1>2. entry \in Entries
  BY <1>1 DEF SyncStates, Entries
<1>3. stateFile' = entry /\ sync' = [sync EXCEPT ![p].mem = entry, ![p].pc = phase]
  BY DEF Record, Persist
<1> DEFINE state == [sync[p] EXCEPT !.mem = entry, !.pc = phase]
<1> HIDE DEF entry
<1>4. state \in SyncStates
  BY <1>1, <1>2 DEF SyncStates
<1>5. sync' = [sync EXCEPT ![p] = state]
  BY <1>3 DEF TypeOK
<1> HIDE DEF state
<1>6. sync' \in [Procs -> SyncStates]
  BY <1>4, <1>5 DEF TypeOK
<1>7. QED BY <1>2, <1>3, <1>6

LEMMA FaultType ==
  ASSUME TypeOK, NEW kind, Fault(kind)
  PROVE  faultsLeft' \in 0 .. MaxFaults
  BY BoundsAssumption DEF TypeOK, Fault, CanFail

LEMMA JobType ==
  ASSUME TypeOK, NEW j \in Slots, NEW job \in Jobs, jobs' = [jobs EXCEPT ![j] = job]
  PROVE  jobs' \in [Slots -> Jobs]
  BY DEF TypeOK

LEMMA MemType ==
  ASSUME TypeOK, NEW p \in Procs
  PROVE  sync[p] \in SyncStates /\ sync[p].mem \in Entries
  BY DEF TypeOK, SyncStates

\* Every reachable state is well typed (the type invariant of the module).
THEOREM TypeCorrect == Spec => []TypeOK
<1>1. Init => TypeOK
  <2> SUFFICES ASSUME Init PROVE TypeOK
    OBVIOUS
  <2>1. stateFile \in Entries /\ desired \in Statuses
    BY FirstEntryType DEF Init, Statuses
  <2>2. home \in Versions /\ faultsLeft \in 0 .. MaxFaults /\ editsLeft \in 0 .. MaxEdits
    BY BoundsAssumption DEF Init, Versions
  <2>3. /\ payload \in [Keys -> BOOLEAN] /\ result \in [Keys -> Results]
        /\ archive \in [Keys -> Versions \union {None}]
        /\ backedUp \in [Keys -> Versions \union {None}]
    BY DEF Init, Results
  <2>4. jobs \in [Slots -> Jobs] /\ sync \in [Procs -> SyncStates]
    BY IdleSyncType, NoJobType DEF Init
  <2> QED
    BY <2>1, <2>2, <2>3, <2>4 DEF Init, TypeOK
<1>2. TypeOK /\ [Next]_vars => TypeOK'
  <2> SUFFICES ASSUME TypeOK, [Next]_vars PROVE TypeOK'
    OBVIOUS
  <2> USE DEF unixVars, userVars, worldVars, fileVars
  <2>1. CASE EditUsersYml
    BY <2>1, BoundsAssumption DEF EditUsersYml, TypeOK
  <2>2. CASE UserStep
    <3>1. CASE WriteHome
      <4>1. home' \in Versions
        BY <3>1, BoundsAssumption DEF WriteHome, Versions, TypeOK
      <4>2. QED BY <3>1, <4>1 DEF WriteHome, TypeOK
    <3>2. CASE LogIn \/ SubmitJob \/ LogOut \/ JobEnds
      BY <3>2 DEF LogIn, SubmitJob, LogOut, JobEnds, TypeOK
    <3>3. QED BY <2>2, <3>1, <3>2 DEF UserStep
  <2>3. ASSUME NEW p \in Procs, Load(p) PROVE TypeOK'
    <3> DEFINE phase == IF desired = "inactive" THEN "lifecycle" ELSE "reconcile"
               state(todo) == [IdleSync EXCEPT !.pc = phase, !.want = desired,
                                               !.mem = stateFile, !.todo = todo]
    <3>1. phase \in Phases
      BY DEF Phases
    <3>2. \E assocSeen, jobsSeen \in BOOLEAN :
            sync' = [sync EXCEPT ![p] = state(Plan(desired, assocSeen, jobsSeen))]
      BY <2>3 DEF Load
    <3>3. PICK todo \in SUBSET Reconciliations : sync' = [sync EXCEPT ![p] = state(todo)]
      BY <3>2, PlanType
    <3> HIDE DEF phase
    <3>4. state(todo) \in SyncStates
      BY <3>1, IdleSyncType DEF SyncStates, TypeOK
    <3> HIDE DEF state
    <3>5. sync' \in [Procs -> SyncStates]
      BY <3>3, <3>4 DEF TypeOK
    <3>6. faultsLeft' \in 0 .. MaxFaults
      BY <2>3, FaultType DEF Load, TypeOK
    <3>7. QED BY <2>3, <3>5, <3>6 DEF Load, TypeOK
  <2>4. ASSUME NEW p \in Procs, Reconcile(p) PROVE TypeOK'
    <3>1. PICK a \in sync[p].todo :
            /\ Perform(a) \/ FailsSilently(a)
            /\ sync' = [sync EXCEPT ![p].todo = @ \ {a},
                                    ![p].mem = Updated(@, sync[p].want, exists')]
      BY <2>4 DEF Reconcile
    <3> DEFINE entry == Updated(sync[p].mem, sync[p].want, exists')
               state == [sync[p] EXCEPT !.todo = @ \ {a}, !.mem = entry]
    <3>2. entry \in Entries
      <4>1. sync[p].want \in Statuses /\ "none" \in ArchiveStates
        BY MemType DEF SyncStates, ArchiveStates
      <4>2. QED BY <4>1, MemType DEF Updated, Entries
    <3> HIDE DEF entry
    <3>3. state \in SyncStates
      BY <3>2, MemType DEF SyncStates
    <3>4. sync' = [sync EXCEPT ![p] = state]
      BY <3>1 DEF entry, TypeOK
    <3> HIDE DEF state
    <3>5. sync' \in [Procs -> SyncStates]
      BY <3>3, <3>4 DEF TypeOK
    <3>6. /\ exists' \in BOOLEAN /\ locked' \in BOOLEAN /\ dataLocked' \in BOOLEAN
          /\ assoc' \in BOOLEAN /\ userJob' \in BOOLEAN
          /\ faultsLeft' \in 0 .. MaxFaults
      BY <3>1, FaultType DEF Perform, FailsSilently, TypeOK
    <3>7. QED BY <2>4, <3>5, <3>6 DEF Reconcile, TypeOK
  <2>5. ASSUME NEW p \in Procs, ReconcileRaises(p) PROVE TypeOK'
    <3>1. sync' \in [Procs -> SyncStates]
      BY <2>5, EndSyncType DEF ReconcileRaises
    <3>2. faultsLeft' \in 0 .. MaxFaults
      BY <2>5, FaultType DEF ReconcileRaises, TypeOK
    <3>3. QED BY <2>5, <3>1, <3>2 DEF ReconcileRaises, TypeOK
  <2>6. ASSUME NEW p \in Procs, FinishSync(p) PROVE TypeOK'
    <3>1. sync' \in [Procs -> SyncStates]
      BY <2>6, EndSyncType DEF FinishSync
    <3>2. QED BY <2>6, <3>1, MemType DEF FinishSync, Persist, TypeOK
  <2>7. ASSUME NEW p \in Procs, AlreadyTombstoned(p) PROVE TypeOK'
    <3>1. sync' \in [Procs -> SyncStates]
      BY <2>7, GotoType DEF AlreadyTombstoned, Phases
    <3>2. QED BY <2>7, <3>1 DEF AlreadyTombstoned, TypeOK
  <2>8. ASSUME NEW p \in Procs, RefuseLifecycle(p) PROVE TypeOK'
    <3>1. sync' \in [Procs -> SyncStates]
      BY <2>8, EndSyncType DEF RefuseLifecycle
    <3>2. QED BY <2>8, <3>1 DEF RefuseLifecycle, TypeOK
  <2>9. ASSUME NEW p \in Procs, NEW waive \in BOOLEAN, BeginLifecycle(p, waive)
        PROVE  TypeOK'
    <3> DEFINE key == <<sync[p].mem.status, sync[p].mem.archive>>
               local == waive \/ ~BackupRequired
               entry == [status |-> "inactive", archive |-> "archive_pending",
                         path |-> key, localOnly |-> local]
               state == [sync[p] EXCEPT !.pc = "scancel", !.mem = entry,
                                        !.key = key, !.waived = waive]
    <3>1. key \in Keys
      BY MemType DEF Entries, Keys
    <3> HIDE DEF key
    <3>2. local \in BOOLEAN
      BY BooleanAssumption
    <3> HIDE DEF local
    <3>3. entry \in Entries
      BY <3>1, <3>2 DEF Entries, Statuses, ArchiveStates
    <3> HIDE DEF entry
    <3>4. "scancel" \in Phases
      BY DEF Phases
    <3>5. state \in SyncStates
      BY <3>1, <3>3, <3>4, MemType DEF SyncStates
    <3>6. stateFile' = entry /\ sync' = [sync EXCEPT ![p] = state]
      BY <2>9 DEF BeginLifecycle, Persist, entry, local, key, TypeOK
    <3> HIDE DEF state
    <3>7. sync' \in [Procs -> SyncStates]
      BY <3>5, <3>6 DEF TypeOK
    <3>8. QED BY <2>9, <3>3, <3>6, <3>7 DEF BeginLifecycle, TypeOK
  <2>10. ASSUME NEW p \in Procs,
                CancelJobs(p) \/ LockAccount(p) \/ DisableAssociation(p)
                \/ LockDataDir(p) \/ TerminateSessions(p) \/ RemoveAccount(p)
         PROVE  TypeOK'
    <3>1. sync' \in [Procs -> SyncStates]
      <4>1. \E phase \in Phases : Goto(p, phase)
        BY <2>10 DEF CancelJobs, LockAccount, DisableAssociation, LockDataDir,
                     TerminateSessions, RemoveAccount, Phases
      <4>2. QED BY <4>1, GotoType
    <3>2. faultsLeft' \in 0 .. MaxFaults
      BY <2>10, FaultType DEF CancelJobs, LockAccount, DisableAssociation, LockDataDir,
                     TerminateSessions, RemoveAccount, Unchecked, TypeOK
    <3>3. QED BY <2>10, <3>1, <3>2
      DEF CancelJobs, LockAccount, DisableAssociation, LockDataDir,
          TerminateSessions, RemoveAccount, Unchecked, TypeOK
  <2>11. ASSUME NEW p \in Procs,
                MarkRunning(p) \/ JobFailed(p) \/ JobSucceeded(p) \/ CheckBackup(p)
                \/ MarkReady(p) \/ MarkTombstoned(p)
         PROVE  TypeOK'
    <3>1. \E a \in ArchiveStates, phase \in Phases : Record(p, a, phase)
      BY <2>11 DEF MarkRunning, JobFailed, JobSucceeded, CheckBackup, MarkReady,
                   MarkTombstoned, ArchiveStates, Phases
    <3>2. sync' \in [Procs -> SyncStates] /\ stateFile' \in Entries
      BY <3>1, RecordType
    <3>3. QED BY <2>11, <3>2
      DEF MarkRunning, JobFailed, JobSucceeded, CheckBackup, MarkReady,
          MarkTombstoned, TypeOK
  <2>12. ASSUME NEW p \in Procs, NEW j \in Slots, SubmitArchive(p, j) PROVE TypeOK'
    <3> DEFINE state == [sync[p] EXCEPT !.pc = "record_job", !.job = j]
               job == [NoJob EXCEPT !.stage = "queued", !.key = sync[p].key]
    <3>1. state \in SyncStates
      BY MemType DEF SyncStates, Phases
    <3>2. job \in Jobs
      BY MemType, NoJobType DEF SyncStates, Jobs, Stages
    <3>3. sync' = [sync EXCEPT ![p] = state] /\ jobs' = [jobs EXCEPT ![j] = job]
      BY <2>12 DEF SubmitArchive, TypeOK
    <3> HIDE DEF state, job
    <3>4. sync' \in [Procs -> SyncStates] /\ jobs' \in [Slots -> Jobs]
      BY <3>1, <3>2, <3>3 DEF TypeOK
    <3>5. QED BY <2>12, <3>4 DEF SubmitArchive, TypeOK
  <2>13. ASSUME NEW p \in Procs, WritePayload(p) \/ RecordJob(p) PROVE TypeOK'
    <3>1. sync' \in [Procs -> SyncStates]
      <4>1. \E phase \in Phases : Goto(p, phase)
        BY <2>13 DEF WritePayload, RecordJob, Phases
      <4>2. QED BY <4>1, GotoType
    <3>2. payload' \in [Keys -> BOOLEAN]
      <4>1. LocalOnly(p) \in BOOLEAN
        BY MemType, BooleanAssumption DEF LocalOnly, SyncStates
      <4>2. QED BY <2>13, <4>1 DEF WritePayload, RecordJob, TypeOK
    <3>3. stateFile' \in Entries
      BY <2>13, MemType DEF WritePayload, RecordJob, Persist, TypeOK
    <3>4. QED BY <2>13, <3>1, <3>2, <3>3 DEF WritePayload, RecordJob, TypeOK
  <2>14. ASSUME NEW p \in Procs, CollectResult(p) PROVE TypeOK'
    <3>1. PICK r \in {result[sync[p].key], "failed"} :
            sync' = [sync EXCEPT ![p].pc = "collected", ![p].got = r]
      BY <2>14 DEF CollectResult
    <3>2. r \in Results
      <4>1. sync[p].key \in Keys
        BY MemType DEF SyncStates
      <4>2. QED BY <4>1, <3>1 DEF TypeOK, Results
    <3> DEFINE state == [sync[p] EXCEPT !.pc = "collected", !.got = r]
    <3>3. state \in SyncStates
      BY <3>2, MemType DEF SyncStates, Phases
    <3>4. sync' = [sync EXCEPT ![p] = state]
      BY <3>1 DEF TypeOK
    <3> HIDE DEF state
    <3>5. sync' \in [Procs -> SyncStates]
      BY <3>3, <3>4 DEF TypeOK
    <3>6. faultsLeft' \in 0 .. MaxFaults
      BY <2>14, FaultType DEF CollectResult, TypeOK
    <3>7. QED BY <2>14, <3>5, <3>6 DEF CollectResult, TypeOK
  <2>15. ASSUME NEW p \in Procs, LifecycleRaises(p) \/ Crash(p) PROVE TypeOK'
    <3>1. sync' \in [Procs -> SyncStates]
      BY <2>15, EndSyncType DEF LifecycleRaises, Crash
    <3>2. faultsLeft' \in 0 .. MaxFaults
      BY <2>15, FaultType DEF LifecycleRaises, Crash, TypeOK
    <3>3. stateFile' \in Entries
      BY <2>15, MemType DEF LifecycleRaises, Crash, Persist, TypeOK
    <3>4. QED BY <2>15, <3>1, <3>2, <3>3 DEF LifecycleRaises, Crash, TypeOK
  <2>16. ASSUME NEW j \in Slots, RunnerStep(j) \/ JobLost(j) PROVE TypeOK'
    <3>1. jobs[j] \in Jobs /\ jobs[j].key \in Keys
      BY DEF TypeOK, Jobs
    <3>2. jobs' \in [Slots -> Jobs]
      <4>1. CASE RunnerStarts(j)
        <5> DEFINE local == payload[jobs[j].key]
                   job == [jobs[j] EXCEPT !.stage = "archiving", !.snap = home,
                                          !.local = local]
        <5>1. local \in BOOLEAN
          BY <3>1 DEF TypeOK
        <5>2. jobs' = [jobs EXCEPT ![j] = job]
          BY <4>1 DEF RunnerStarts, TypeOK
        <5> HIDE DEF local
        <5>3. job \in Jobs
          BY <3>1, <5>1 DEF TypeOK, Jobs, Stages
        <5>4. QED BY <5>2, <5>3, JobType
      <4>2. CASE RunnerArchives(j)
        <5> DEFINE stage == IF jobs[j].local THEN "report" ELSE "hook"
                   job == [jobs[j] EXCEPT !.stage = stage, !.out = "archived"]
        <5>1. stage \in Stages /\ "archived" \in Results
          BY DEF Stages, Results
        <5>2. jobs' = [jobs EXCEPT ![j] = job]
          BY <4>2 DEF RunnerArchives, TypeOK
        <5> HIDE DEF stage
        <5>3. job \in Jobs
          BY <3>1, <5>1 DEF Jobs
        <5>4. QED BY <5>2, <5>3, JobType
      <4>3. CASE RunnerBacksUp(j) \/ RunnerFails(j)
        <5>1. PICK out \in Results :
                jobs' = [jobs EXCEPT ![j].stage = "report", ![j].out = out]
          BY <4>3 DEF RunnerBacksUp, RunnerFails, Results
        <5> DEFINE job == [jobs[j] EXCEPT !.stage = "report", !.out = out]
        <5>2. jobs' = [jobs EXCEPT ![j] = job]
          BY <5>1 DEF TypeOK
        <5>3. job \in Jobs
          BY <3>1 DEF Jobs, Stages
        <5>4. QED BY <5>2, <5>3, JobType
      <4>4. CASE RunnerReports(j) \/ JobLost(j)
        BY <4>4, NoJobType, JobType DEF RunnerReports, JobLost
      <4>5. QED BY <2>16, <4>1, <4>2, <4>3, <4>4 DEF RunnerStep
    <3>3. faultsLeft' \in 0 .. MaxFaults
      BY <2>16, FaultType DEF RunnerStep, RunnerStarts, RunnerArchives, RunnerBacksUp,
                              RunnerFails, RunnerReports, JobLost, TypeOK
    <3>4. jobs[j].snap \in Versions \union {None} /\ jobs[j].out \in Results
      BY <3>1 DEF Jobs
    <3>5. /\ archive' \in [Keys -> Versions \union {None}]
          /\ backedUp' \in [Keys -> Versions \union {None}]
          /\ result' \in [Keys -> Results]
      <4>1. "failed" \in Results
        BY DEF Results
      <4>2. QED BY <2>16, <3>1, <3>4, <4>1
            DEF RunnerStep, RunnerStarts, RunnerArchives, RunnerBacksUp, RunnerFails,
                RunnerReports, JobLost, TypeOK
    <3>6. QED BY <2>16, <3>2, <3>3, <3>5
      DEF RunnerStep, RunnerStarts, RunnerArchives, RunnerBacksUp, RunnerFails,
          RunnerReports, JobLost, TypeOK
  <2>17. CASE UNCHANGED vars
    BY <2>17 DEF vars, TypeOK
  <2>18. QED BY <2>1, <2>2, <2>3, <2>4, <2>5, <2>6, <2>7, <2>8, <2>9, <2>10, <2>11,
                <2>12, <2>13, <2>14, <2>15, <2>16, <2>17
         DEF Next, SyncStep, ReconcileStep, LifecycleStep
<1>3. QED BY <1>1, <1>2, PTL DEF Spec
-----------------------------------------------------------------------------
(* The evidence an account is removed on.                                  *)

LEMMA KeyOfJob ==
  ASSUME TypeOK, NEW j \in Slots
  PROVE  /\ jobs[j].key \in Keys
         /\ jobs[j].snap \in Versions \union {None}
  BY DEF TypeOK, Jobs

LEMMA VersionIsSome == \A v \in Versions : v # None
  BY NoneAssumption DEF Versions

\* Who can change an archive or a replica.
LEMMA FileChanges ==
  ASSUME TypeOK, [Next]_vars
  PROVE  \/ UNCHANGED <<archive, backedUp>>
         \/ \E j \in Slots : RunnerArchives(j) \/ RunnerBacksUp(j)
<1> USE DEF fileVars
<1>1. ASSUME NEW j \in Slots, RunnerStep(j) \/ JobLost(j)
      PROVE  UNCHANGED <<archive, backedUp>> \/ RunnerArchives(j) \/ RunnerBacksUp(j)
  BY <1>1 DEF RunnerStep, RunnerStarts, RunnerFails, RunnerReports, JobLost
<1>2. ASSUME NEW p \in Procs, Load(p) \/ SyncStep(p) \/ Crash(p)
      PROVE  UNCHANGED <<archive, backedUp>>
  BY <1>2 DEF Load, SyncStep, Crash, ReconcileStep, Reconcile, ReconcileRaises,
     FinishSync, LifecycleStep, AlreadyTombstoned, RefuseLifecycle, BeginLifecycle,
     CancelJobs, LockAccount, DisableAssociation, LockDataDir, MarkRunning,
     WritePayload, SubmitArchive, RecordJob, CollectResult, JobFailed, JobSucceeded,
     CheckBackup, MarkReady,
     TerminateSessions, RemoveAccount, MarkTombstoned, LifecycleRaises
<1>3. ASSUME EditUsersYml \/ UserStep \/ UNCHANGED vars
      PROVE  UNCHANGED <<archive, backedUp>>
  BY <1>3 DEF EditUsersYml, UserStep, LogIn, SubmitJob, WriteHome, LogOut, JobEnds, vars
<1>4. QED BY <1>1, <1>2, <1>3 DEF Next

\* No step takes an archive or a replica away.
LEMMA FilesKept ==
  ASSUME TypeOK, ReportsAreTrue, [Next]_vars
  PROVE  \A k \in Keys : /\ archive[k] # None => archive'[k] # None
                         /\ backedUp[k] # None => backedUp'[k] # None
<1>1. ASSUME NEW j \in Slots, RunnerArchives(j)
      PROVE  \A k \in Keys : /\ archive[k] # None => archive'[k] # None
                             /\ backedUp[k] # None => backedUp'[k] # None
  <2>1. jobs[j].snap # None
    BY <1>1 DEF RunnerArchives, ReportsAreTrue
  <2>2. QED BY <1>1, <2>1, KeyOfJob DEF RunnerArchives, TypeOK
<1>2. ASSUME NEW j \in Slots, RunnerBacksUp(j)
      PROVE  \A k \in Keys : /\ archive[k] # None => archive'[k] # None
                             /\ backedUp[k] # None => backedUp'[k] # None
  <2>1. archive[jobs[j].key] # None
    BY <1>2 DEF RunnerBacksUp, ReportsAreTrue
  <2>2. QED BY <1>2, <2>1, KeyOfJob DEF RunnerBacksUp, TypeOK
<1>3. QED BY <1>1, <1>2, FileChanges

\* The part of ReportsAreTrue about one archive job, and about one process.
JobIsTrue(j) ==
  /\ jobs[j].stage = "archiving" => jobs[j].snap # None
  /\ jobs[j].stage = "hook" => archive[jobs[j].key] # None
  /\ jobs[j].stage = "report" => Attests(jobs[j].out, jobs[j].key)

SyncIsTrue(p) ==
  /\ sync[p].pc \in {"collected", "backup"} => Attests(sync[p].got, sync[p].key)
  /\ sync[p].pc = "backup" => sync[p].got \in {"archived", "backed_up"}
  /\ sync[p].pc \in {"mark_ready", "terminate", "userdel"} => Evidence(p)

LEMMA JobFrame ==
  ASSUME TypeOK, ReportsAreTrue, [Next]_vars, NEW j \in Slots, jobs'[j] = jobs[j]
  PROVE  JobIsTrue(j)'
<1>1. JobIsTrue(j)
  BY DEF ReportsAreTrue, JobIsTrue
<1>2. Attests(jobs[j].out, jobs[j].key) => Attests(jobs[j].out, jobs[j].key)'
  BY FilesKept, KeyOfJob DEF Attests
<1>3. archive[jobs[j].key] # None => archive'[jobs[j].key] # None
  BY FilesKept, KeyOfJob
<1>4. QED BY <1>1, <1>2, <1>3 DEF JobIsTrue, Attests

LEMMA SyncFrame ==
  ASSUME TypeOK, ReportsAreTrue, [Next]_vars, NEW p \in Procs,
         \/ sync'[p] = sync[p]
         \/ /\ sync'[p].pc = sync[p].pc /\ sync'[p].key = sync[p].key
            /\ sync'[p].got = sync[p].got /\ sync'[p].waived = sync[p].waived
  PROVE  SyncIsTrue(p)'
<1>1. SyncIsTrue(p)
  BY DEF ReportsAreTrue, SyncIsTrue
<1>2. sync[p].key \in Keys
  BY MemType DEF SyncStates
<1>3. QED BY <1>1, <1>2, FilesKept DEF SyncIsTrue, Attests, Evidence, LocalOnly

LEMMA ResultsStayTrue ==
  ASSUME TypeOK, ReportsAreTrue, [Next]_vars, NEW k \in Keys
  PROVE  Attests(result[k], k)'
<1>1. Attests(result[k], k)
  BY DEF ReportsAreTrue
<1>2. CASE result' = result
  BY <1>1, <1>2, FilesKept DEF Attests
<1>3. ASSUME NEW j \in Slots, RunnerReports(j)
      PROVE  Attests(result[k], k)'
  <2>1. Attests(jobs[j].out, jobs[j].key)
    BY <1>3 DEF RunnerReports, ReportsAreTrue
  <2>2. result'[k] = IF k = jobs[j].key THEN jobs[j].out ELSE result[k]
    BY <1>3 DEF RunnerReports, TypeOK
  <2>3. QED BY <1>1, <2>1, <2>2, FilesKept DEF Attests
<1>4. ASSUME NEW p \in Procs, Load(p) \/ SyncStep(p) \/ Crash(p)
      PROVE  result' = result
  BY <1>4 DEF fileVars, Load, SyncStep, Crash, ReconcileStep, Reconcile, ReconcileRaises,
     FinishSync, LifecycleStep, AlreadyTombstoned, RefuseLifecycle, BeginLifecycle,
     CancelJobs, LockAccount, DisableAssociation, LockDataDir, MarkRunning,
     WritePayload, SubmitArchive,
     RecordJob, CollectResult, JobFailed, JobSucceeded, CheckBackup, MarkReady,
     TerminateSessions,
     RemoveAccount, MarkTombstoned, LifecycleRaises
<1>5. ASSUME NEW j \in Slots, \/ RunnerStarts(j) \/ RunnerArchives(j) \/ RunnerBacksUp(j)
                              \/ RunnerFails(j)
      PROVE  result' = result
  BY <1>5 DEF fileVars, RunnerStarts, RunnerArchives, RunnerBacksUp, RunnerFails
<1>6. ASSUME NEW j \in Slots, JobLost(j)
      PROVE  Attests(result[k], k)'
  <2>1. result'[k] \in {result[k], "failed"}
    BY <1>6 DEF JobLost, TypeOK
  <2>2. QED BY <1>1, <2>1, FilesKept DEF Attests
<1>7. ASSUME EditUsersYml \/ UserStep \/ UNCHANGED vars
      PROVE  result' = result
  BY <1>7 DEF fileVars, EditUsersYml, UserStep, LogIn, SubmitJob, WriteHome, LogOut,
              JobEnds, vars
<1>8. QED BY <1>2, <1>3, <1>4, <1>5, <1>6, <1>7 DEF Next, RunnerStep

LEMMA JobsStayTrue ==
  ASSUME TypeOK, ReportsAreTrue, [Next]_vars, NEW i \in Slots
  PROVE  JobIsTrue(i)'
<1>1. CASE jobs' = jobs
  BY <1>1, JobFrame
<1>2. ASSUME NEW p \in Procs, NEW j \in Slots, SubmitArchive(p, j)
      PROVE  JobIsTrue(i)'
  <2>1. CASE i # j
    BY <1>2, <2>1, JobFrame DEF SubmitArchive, TypeOK
  <2>2. CASE i = j
    <3>1. jobs'[j].stage = "queued"
      BY <1>2, NoJobType DEF SubmitArchive, TypeOK, Jobs
    <3>2. QED BY <2>2, <3>1 DEF JobIsTrue
  <2>3. QED BY <2>1, <2>2
<1>3. ASSUME NEW j \in Slots, RunnerStep(j) \/ JobLost(j)
      PROVE  JobIsTrue(i)'
  <2>1. CASE i # j
    BY <1>3, <2>1, JobFrame
    DEF RunnerStep, RunnerStarts, RunnerArchives, RunnerBacksUp, RunnerFails,
        RunnerReports, JobLost, TypeOK
  <2>2. CASE i = j
    <3>1. CASE RunnerStarts(j)
      <4>1. jobs'[j].stage = "archiving" /\ jobs'[j].snap = home
        BY <3>1 DEF RunnerStarts, TypeOK, Jobs
      <4>2. home # None
        BY VersionIsSome DEF TypeOK
      <4>3. QED BY <2>2, <4>1, <4>2 DEF JobIsTrue
    <3>2. CASE RunnerArchives(j)
      <4>1. /\ jobs'[j].stage \in {"report", "hook"} /\ jobs'[j].out = "archived"
            /\ jobs'[j].key = jobs[j].key
        BY <3>2 DEF RunnerArchives, TypeOK, Jobs
      <4>2. archive'[jobs[j].key] # None
        BY <3>2, KeyOfJob DEF RunnerArchives, ReportsAreTrue, TypeOK
      <4>3. QED BY <2>2, <4>1, <4>2 DEF JobIsTrue, Attests
    <3>3. CASE RunnerBacksUp(j)
      <4>1. /\ jobs'[j].stage = "report" /\ jobs'[j].out = "backed_up"
            /\ jobs'[j].key = jobs[j].key
        BY <3>3 DEF RunnerBacksUp, TypeOK, Jobs
      <4>2. archive'[jobs[j].key] # None /\ backedUp'[jobs[j].key] # None
        BY <3>3, KeyOfJob DEF RunnerBacksUp, ReportsAreTrue, TypeOK
      <4>3. QED BY <2>2, <4>1, <4>2 DEF JobIsTrue, Attests
    <3>4. CASE RunnerFails(j)
      <4>1. jobs'[j].stage = "report" /\ jobs'[j].out \in {"hook_failed", "failed"}
        BY <3>4 DEF RunnerFails, TypeOK, Jobs
      <4>2. QED BY <2>2, <4>1 DEF JobIsTrue, Attests
    <3>5. CASE RunnerReports(j) \/ JobLost(j)
      <4>1. jobs'[j].stage = "none"
        BY <3>5 DEF RunnerReports, JobLost, NoJob, TypeOK
      <4>2. QED BY <2>2, <4>1 DEF JobIsTrue
    <3>6. QED BY <1>3, <3>1, <3>2, <3>3, <3>4, <3>5 DEF RunnerStep
  <2>3. QED BY <2>1, <2>2
<1>4. ASSUME NEW p \in Procs, Load(p) \/ SyncStep(p) \/ Crash(p)
      PROVE  jobs' = jobs \/ \E j \in Slots : SubmitArchive(p, j)
  BY <1>4 DEF Load, SyncStep, Crash, ReconcileStep, Reconcile, ReconcileRaises,
     FinishSync, LifecycleStep, AlreadyTombstoned, RefuseLifecycle, BeginLifecycle,
     CancelJobs, LockAccount, DisableAssociation, LockDataDir, MarkRunning,
     WritePayload, RecordJob, CollectResult, JobFailed, JobSucceeded, CheckBackup,
     MarkReady, TerminateSessions,
     RemoveAccount, MarkTombstoned, LifecycleRaises
<1>5. ASSUME EditUsersYml \/ UserStep \/ UNCHANGED vars
      PROVE  jobs' = jobs
  BY <1>5 DEF EditUsersYml, UserStep, LogIn, SubmitJob, WriteHome, LogOut, JobEnds, vars
<1>6. QED BY <1>1, <1>2, <1>3, <1>4, <1>5 DEF Next

\* The phases in which a process relies on no report.
Careless == Phases \ {"collected", "backup", "mark_ready", "terminate", "userdel"}

LEMMA SyncsStayTrue ==
  ASSUME TypeOK, ReportsAreTrue, [Next]_vars, NEW q \in Procs
  PROVE  SyncIsTrue(q)'
<1>1. CASE sync' = sync
  BY <1>1, SyncFrame
<1>2. ASSUME NEW p \in Procs, Load(p) \/ SyncStep(p) \/ Crash(p)
      PROVE  SyncIsTrue(q)'
  <2>1. CASE q # p
    <3>1. sync'[q] = sync[q]
      <4>1. CASE LifecycleStep(p)
        BY <2>1, <4>1 DEF TypeOK, Goto, EndSync, Record, LifecycleStep,
           AlreadyTombstoned, RefuseLifecycle, BeginLifecycle, CancelJobs, LockAccount,
           DisableAssociation, LockDataDir, MarkRunning, WritePayload, SubmitArchive,
           RecordJob, CollectResult,
           JobFailed, JobSucceeded, CheckBackup, MarkReady, TerminateSessions,
           RemoveAccount, MarkTombstoned, LifecycleRaises
      <4>2. CASE ReconcileStep(p)
        BY <2>1, <4>2 DEF TypeOK, EndSync, ReconcileStep, Reconcile, ReconcileRaises,
           FinishSync
      <4>3. CASE Load(p) \/ Crash(p)
        BY <2>1, <4>3 DEF TypeOK, EndSync, Load, Crash
      <4>4. QED BY <1>2, <4>1, <4>2, <4>3 DEF SyncStep
    <3>2. QED BY <3>1, SyncFrame
  <2>2. CASE q = p
    <3>1. sync[p] \in SyncStates /\ sync[p].key \in Keys
      BY MemType DEF SyncStates
    <3>2. SyncIsTrue(p)
      BY DEF ReportsAreTrue, SyncIsTrue
    <3>3. ASSUME sync'[p].pc \in Careless PROVE SyncIsTrue(p)'
      BY <3>3 DEF SyncIsTrue, Careless
    <3>4. CASE Load(p) \/ Crash(p) \/ RefuseLifecycle(p) \/ LifecycleRaises(p)
               \/ ReconcileRaises(p) \/ FinishSync(p)
      <4>1. CASE Load(p)
        <5>1. sync'[p].pc \in {"lifecycle", "reconcile"}
          BY <4>1 DEF Load, IdleSync, TypeOK
        <5>2. QED BY <2>2, <3>3, <5>1 DEF Careless, Phases
      <4>2. CASE EndSync(p)
        <5>1. sync'[p].pc = "idle"
          BY <4>2 DEF EndSync, IdleSync, TypeOK
        <5>2. QED BY <2>2, <3>3, <5>1 DEF Careless, Phases
      <4>3. QED BY <3>4, <4>1, <4>2 DEF Crash, RefuseLifecycle, LifecycleRaises,
                                        ReconcileRaises, FinishSync
    <3>5. CASE Reconcile(p)
      <4>1. sync'[p].pc = sync[p].pc /\ sync[p].pc = "reconcile"
        BY <3>1, <3>5 DEF Reconcile, At, TypeOK, SyncStates
      <4>2. QED BY <2>2, <3>3, <4>1 DEF Careless, Phases
    <3>6. CASE AlreadyTombstoned(p) \/ CancelJobs(p) \/ LockAccount(p)
               \/ DisableAssociation(p) \/ LockDataDir(p) \/ RemoveAccount(p)
      <4>1. sync'[p].pc \in {"reconcile", "lock", "disable", "lockdata",
                             "mark_running", "mark_tombstoned"}
        BY ZenonT(30), <3>1, <3>6 DEF AlreadyTombstoned, CancelJobs, LockAccount,
           DisableAssociation, LockDataDir, RemoveAccount, Goto, TypeOK, SyncStates
      <4>2. QED BY <2>2, <3>3, <4>1 DEF Careless, Phases
    <3>7. CASE \/ \E waive \in BOOLEAN : BeginLifecycle(p, waive)
               \/ WritePayload(p) \/ RecordJob(p) \/ \E j \in Slots : SubmitArchive(p, j)
               \/ MarkRunning(p) \/ JobFailed(p) \/ MarkTombstoned(p)
      <4>1. ASSUME NEW waive \in BOOLEAN, BeginLifecycle(p, waive)
            PROVE  sync'[p].pc = "scancel"
        <5> DEFINE key == <<sync[p].mem.status, sync[p].mem.archive>>
                   entry == [status |-> "inactive", archive |-> "archive_pending",
                             path |-> key, localOnly |-> waive \/ ~BackupRequired]
        <5>1. sync' = [sync EXCEPT ![p].pc = "scancel", ![p].mem = entry,
                                   ![p].key = key, ![p].waived = waive]
          BY <4>1 DEF BeginLifecycle
        <5> HIDE DEF entry, key
        <5>2. QED BY <3>1, <5>1 DEF TypeOK, SyncStates
      <4>2. CASE WritePayload(p) \/ RecordJob(p) \/ \E j \in Slots : SubmitArchive(p, j)
        <5>1. sync'[p].pc \in {"submit", "record_job", "wait"}
          BY <3>1, <4>2 DEF WritePayload, RecordJob, SubmitArchive, Goto, TypeOK, SyncStates
        <5>2. QED BY <2>2, <3>3, <5>1 DEF Careless, Phases
      <4>3. CASE MarkRunning(p) \/ JobFailed(p) \/ MarkTombstoned(p)
        <5>1. sync'[p].pc \in {"payload", "reconcile"}
          BY <3>1, <4>3 DEF MarkRunning, JobFailed, MarkTombstoned, Record, TypeOK,
                            SyncStates
        <5>2. QED BY <2>2, <3>3, <5>1 DEF Careless, Phases
      <4>4. "scancel" \in Careless
        BY DEF Careless, Phases
      <4>5. QED BY <2>2, <3>3, <3>7, <4>1, <4>2, <4>3, <4>4
    <3>8. CASE CollectResult(p)
      <4>1. /\ sync'[p].pc = "collected" /\ sync'[p].key = sync[p].key
            /\ sync'[p].got \in {result[sync[p].key], "failed"}
        BY <3>1, <3>8 DEF CollectResult, TypeOK, SyncStates
      <4>2. Attests(result[sync[p].key], sync[p].key)
        BY <3>1 DEF ReportsAreTrue
      <4>3. QED BY <2>2, <3>1, <4>1, <4>2, FilesKept DEF SyncIsTrue, Attests
    <3>9. CASE JobSucceeded(p)
      <4>1. Attests(sync[p].got, sync[p].key) /\ sync[p].got \in {"archived", "backed_up"}
        BY <3>2, <3>9 DEF JobSucceeded, At, SyncIsTrue
      <4>2. /\ sync'[p].key = sync[p].key /\ sync'[p].got = sync[p].got
            /\ sync'[p].waived = sync[p].waived
            /\ IF LocalOnly(p) THEN sync'[p].pc = "mark_ready"
                               ELSE sync'[p].pc = "backup"
        BY <3>1, <3>9 DEF JobSucceeded, Record, TypeOK, SyncStates
      <4>3. QED BY <2>2, <3>1, <4>1, <4>2, FilesKept
            DEF SyncIsTrue, Attests, Evidence, LocalOnly
    <3>10. CASE CheckBackup(p)
      <4>1. Attests(sync[p].got, sync[p].key)
        BY <3>2, <3>10 DEF CheckBackup, At, SyncIsTrue
      <4>2. /\ sync'[p].key = sync[p].key
            /\ \/ sync[p].got = "backed_up" /\ sync'[p].pc = "mark_ready"
               \/ sync'[p].pc = "reconcile"
        BY <3>1, <3>10 DEF CheckBackup, Record, TypeOK, SyncStates
      <4>3. QED BY <2>2, <3>1, <4>1, <4>2, FilesKept DEF SyncIsTrue, Attests, Evidence
    <3>11. CASE MarkReady(p) \/ TerminateSessions(p)
      <4>1. Evidence(p)
        BY <3>2, <3>11 DEF MarkReady, TerminateSessions, At, SyncIsTrue
      <4>2. /\ sync'[p].key = sync[p].key /\ sync'[p].waived = sync[p].waived
            /\ sync'[p].pc \in {"terminate", "userdel"}
        BY ZenonT(30), <3>1, <3>11 DEF MarkReady, TerminateSessions, Record, Goto, TypeOK, SyncStates
      <4>3. QED BY <2>2, <3>1, <4>1, <4>2, FilesKept DEF SyncIsTrue, Evidence, LocalOnly
    <3>12. QED BY <1>2, <3>4, <3>5, <3>6, <3>7, <3>8, <3>9, <3>10, <3>11
           DEF SyncStep, ReconcileStep, LifecycleStep
  <2>3. QED BY <2>1, <2>2
<1>3. ASSUME NEW j \in Slots, RunnerStep(j) \/ JobLost(j)
      PROVE  sync' = sync
  BY <1>3 DEF RunnerStep, RunnerStarts, RunnerArchives, RunnerBacksUp, RunnerFails,
              RunnerReports, JobLost
<1>4. ASSUME EditUsersYml \/ UserStep \/ UNCHANGED vars
      PROVE  sync' = sync
  BY <1>4 DEF EditUsersYml, UserStep, LogIn, SubmitJob, WriteHome, LogOut, JobEnds, vars
<1>5. QED BY <1>1, <1>2, <1>3, <1>4 DEF Next

\* What archive jobs report, and what sync processes act on, is true of the
\* archive and backup files, for any number of processes and jobs.
THEOREM ReportsAreAlwaysTrue == Spec => []ReportsAreTrue
<1>1. Init => ReportsAreTrue
  BY DEF Init, ReportsAreTrue, NoJob, IdleSync, Attests
<1>2. TypeOK /\ ReportsAreTrue /\ [Next]_vars => ReportsAreTrue'
  <2> SUFFICES ASSUME TypeOK, ReportsAreTrue, [Next]_vars PROVE ReportsAreTrue'
    OBVIOUS
  <2>1. \A k \in Keys : Attests(result[k], k)'
    BY ResultsStayTrue
  <2>2. \A j \in Slots : JobIsTrue(j)'
    BY JobsStayTrue
  <2>3. \A p \in Procs : SyncIsTrue(p)'
    BY SyncsStayTrue
  <2>4. QED BY <2>1, <2>2, <2>3 DEF ReportsAreTrue, JobIsTrue, SyncIsTrue
<1>3. QED BY <1>1, <1>2, TypeCorrect, PTL DEF Spec

\* Who can change whether the account exists.
LEMMA AccountChanges ==
  ASSUME TypeOK, [Next]_vars, exists' # exists
  PROVE  \E p \in Procs : RemoveAccount(p) \/ (exists' /\ Reconcile(p))
<1>1. ASSUME NEW p \in Procs, Load(p) \/ Crash(p) \/ SyncStep(p)
      PROVE  RemoveAccount(p) \/ (exists' /\ Reconcile(p))
  <2>1. CASE Load(p) \/ Crash(p)
    BY <2>1 DEF Load, Crash, worldVars, unixVars
  <2>2. CASE ReconcileStep(p)
    BY <2>2 DEF ReconcileStep, Reconcile, ReconcileRaises, FinishSync, Perform,
       FailsSilently, TypeOK, worldVars, unixVars
  <2>3. CASE LifecycleStep(p)
    BY <2>3 DEF LifecycleStep, AlreadyTombstoned, RefuseLifecycle, BeginLifecycle,
       CancelJobs, LockAccount, DisableAssociation, LockDataDir, MarkRunning,
       WritePayload, SubmitArchive, RecordJob, CollectResult, JobFailed, JobSucceeded,
       CheckBackup, MarkReady,
       TerminateSessions, MarkTombstoned, LifecycleRaises, worldVars, unixVars
  <2>4. QED BY <1>1, <2>1, <2>2, <2>3 DEF SyncStep
<1>2. ASSUME NEW j \in Slots, RunnerStep(j) \/ JobLost(j)
      PROVE  FALSE
  BY <1>2 DEF RunnerStep, RunnerStarts, RunnerArchives, RunnerBacksUp, RunnerFails,
              RunnerReports, JobLost, worldVars, unixVars
<1>3. ASSUME EditUsersYml \/ UserStep \/ UNCHANGED vars
      PROVE  FALSE
  BY <1>3 DEF EditUsersYml, UserStep, LogIn, SubmitJob, WriteHome, LogOut, JobEnds,
              worldVars, unixVars, vars
<1>4. QED BY <1>1, <1>2, <1>3 DEF Next

\* The account is deleted only by a process whose archive exists and is backed
\* up or waived, in every instance of the model.
THEOREM RemovalNeedsEvidence == Spec => RemovalHasEvidence
<1>1. ASSUME TypeOK, ReportsAreTrue, [Next]_vars, exists, ~exists'
      PROVE  \E p \in Procs : At(p, "userdel") /\ Evidence(p)
  <2>1. PICK p \in Procs : RemoveAccount(p)
    BY <1>1, AccountChanges
  <2>2. At(p, "userdel") /\ Evidence(p)
    BY <1>1, <2>1 DEF RemoveAccount, At, ReportsAreTrue
  <2>3. QED BY <2>2
<1>2. TypeOK /\ ReportsAreTrue /\ [Next]_vars =>
        [exists /\ ~exists' => \E p \in Procs : At(p, "userdel") /\ Evidence(p)]_vars
  BY <1>1
<1>3. QED BY <1>2, TypeCorrect, ReportsAreAlwaysTrue, PTL DEF Spec, RemovalHasEvidence
-----------------------------------------------------------------------------
(* The lifecycle implements AccountRetirement.                             *)

LEMMA WaivedNowType ==
  ASSUME TypeOK PROVE WaivedNow \in SUBSET Keys
  BY MemType DEF WaivedNow, SyncStates

\* A removal is a Remove of the abstract specification.
LEMMA RemovalMaps ==
  ASSUME TypeOK, ReportsAreTrue, NEW p \in Procs, RemoveAccount(p)
  PROVE  \E k \in Keys : Promise!Remove(k)
<1>1. sync[p] \in SyncStates /\ sync[p].key \in Keys
  BY MemType DEF SyncStates
<1>2. Evidence(p)
  BY DEF RemoveAccount, At, ReportsAreTrue
<1>3. Promise!Sufficient(sync[p].key)
  BY <1>1, <1>2 DEF Promise!Sufficient, Evidence, LocalOnly, Durable, WaivedNow
<1>4. /\ WaivedNow' = WaivedNow
      /\ UNCHANGED <<Durable(archive), Durable(backedUp)>>
  <2>1. \A q \in Procs : sync'[q].key = sync[q].key /\ sync'[q].waived = sync[q].waived
    BY <1>1 DEF RemoveAccount, Goto, TypeOK, SyncStates
  <2>2. QED BY <2>1 DEF RemoveAccount, WaivedNow, Durable, fileVars
<1>5. exists /\ exists' = FALSE
  BY DEF RemoveAccount
<1>6. QED BY <1>1, <1>3, <1>4, <1>5 DEF Promise!Remove

LEMMA ReconcileMaps ==
  ASSUME TypeOK, NEW p \in Procs, Reconcile(p), exists'
  PROVE  Promise!Recreate
<1>1. WaivedNow' = WaivedNow
  <2>1. \A q \in Procs : sync'[q].key = sync[q].key /\ sync'[q].waived = sync[q].waived
    BY MemType DEF Reconcile, TypeOK, SyncStates
  <2>2. QED BY <2>1 DEF WaivedNow
<1>2. UNCHANGED <<Durable(archive), Durable(backedUp)>>
  BY DEF Reconcile, Durable, fileVars
<1>3. QED BY <1>1, <1>2 DEF Promise!Recreate, TypeOK

\* Every step that leaves account and files alone is a Review or a stutter.
LEMMA ReviewMaps ==
  ASSUME TypeOK, TypeOK', UNCHANGED <<exists, archive, backedUp>>
  PROVE  Promise!Review
  BY WaivedNowType DEF Promise!Review, WaivedNow, Durable, TypeOK, SyncStates

LEMMA RunnerMaps ==
  ASSUME TypeOK, ReportsAreTrue, NEW j \in Slots, RunnerArchives(j) \/ RunnerBacksUp(j)
  PROVE  \E k \in Keys : Promise!Store(k) \/ Promise!Replicate(k)
<1>1. jobs[j].key \in Keys
  BY KeyOfJob
<1>2. UNCHANGED <<exists, WaivedNow>>
  BY DEF RunnerArchives, RunnerBacksUp, worldVars, unixVars, WaivedNow
<1>3. CASE RunnerArchives(j)
  <2>1. jobs[j].snap # None
    BY <1>3 DEF RunnerArchives, ReportsAreTrue
  <2>2. Durable(archive)' = Durable(archive) \union {jobs[j].key}
    BY <1>1, <1>3, <2>1 DEF RunnerArchives, Durable, TypeOK
  <2>3. Durable(backedUp)' = Durable(backedUp)
    BY <1>3 DEF RunnerArchives, Durable
  <2>4. QED BY <1>1, <1>2, <2>2, <2>3 DEF Promise!Store
<1>4. CASE RunnerBacksUp(j)
  <2>1. archive[jobs[j].key] # None
    BY <1>4 DEF RunnerBacksUp, ReportsAreTrue
  <2>2. Durable(backedUp)' = Durable(backedUp) \union {jobs[j].key}
    BY <1>1, <1>4, <2>1 DEF RunnerBacksUp, Durable, TypeOK
  <2>3. Durable(archive)' = Durable(archive) /\ jobs[j].key \in Durable(archive)
    BY <1>1, <1>4, <2>1 DEF RunnerBacksUp, Durable
  <2>4. QED BY <1>1, <1>2, <2>2, <2>3 DEF Promise!Replicate
<1>5. QED BY <1>3, <1>4

\* The lifecycle keeps the promise of AccountRetirement: accounts disappear on
\* a stored and replicated or waived archive, and archives are never lost.
THEOREM PromiseKept == Spec => KeepsPromise
<1>1. Init => Promise!Init
  BY DEF Init, Promise!Init, Durable, WaivedNow, IdleSync
<1>2. TypeOK /\ TypeOK' /\ ReportsAreTrue /\ [Next]_vars => [Promise!Next]_Promise!vars
  <2> SUFFICES ASSUME TypeOK, TypeOK', ReportsAreTrue, [Next]_vars
               PROVE  Promise!Next
    OBVIOUS
  <2>1. CASE exists' # exists
    BY <2>1, AccountChanges, RemovalMaps, ReconcileMaps DEF Promise!Next
  <2>2. CASE \E j \in Slots : RunnerArchives(j) \/ RunnerBacksUp(j)
    BY <2>2, RunnerMaps DEF Promise!Next
  <2>3. CASE exists' = exists /\ UNCHANGED <<archive, backedUp>>
    BY <2>3, ReviewMaps DEF Promise!Next
  <2>4. QED BY <2>1, <2>2, <2>3, FileChanges
<1>3. QED BY <1>1, <1>2, TypeCorrect, ReportsAreAlwaysTrue, PTL
         DEF Spec, KeepsPromise, Promise!Spec
-----------------------------------------------------------------------------
(***************************************************************************)
(* One sync process at a time: two overwrite each other's entries.  From   *)
(* the first write of a retirement on, users-state.yml and the copy of the *)
(* process name the archive that the account is removed on; once it is     *)
(* gone, nothing is written that does not name a usable archive.           *)
(***************************************************************************)
OneSync == \A p, q \in Procs : p = q

Usable(entry) ==
  /\ entry.path # None /\ archive[entry.path] # None
  /\ entry.localOnly \/ backedUp[entry.path] # None

Retiring ==
  {"scancel", "lock", "disable", "lockdata", "mark_running", "payload", "submit",
   "record_job", "wait", "collected", "backup", "mark_ready", "terminate", "userdel"}

NamesArchiveOf(entry, p) == entry.path = sync[p].key /\ entry.localOnly = LocalOnly(p)

EntriesNameArchive ==
  \A p \in Procs : sync[p].pc \in Retiring =>
    NamesArchiveOf(stateFile, p) /\ NamesArchiveOf(sync[p].mem, p)

CopiesAreUsable ==
  \A p \in Procs : ~exists /\ ~At(p, "idle") => Usable(sync[p].mem)

RestorableInv == RemovedUserIsRestorable /\ CopiesAreUsable /\ EntriesNameArchive

LEMMA InitRestorable == Init => RestorableInv
  BY DEF Init, RestorableInv, RemovedUserIsRestorable, CopiesAreUsable, EntriesNameArchive,
         IdleSync, Retiring

\* An entry that names a usable archive keeps doing so.
LEMMA UsableKept ==
  ASSUME TypeOK, ReportsAreTrue, [Next]_vars, NEW entry \in Entries, Usable(entry)
  PROVE  /\ archive'[entry.path] # None
         /\ entry.localOnly \/ backedUp'[entry.path] # None
<1>1. entry.path \in Keys
  BY DEF Usable, Entries
<1>2. QED BY <1>1, FilesKept DEF Usable

\* The steps that write nothing but the archive state and the phase.
LEMMA SameNames ==
  ASSUME OneSync, TypeOK, RestorableInv, NEW p \in Procs,
         UNCHANGED <<exists, archive, backedUp>>,
         sync' \in [Procs -> SyncStates],
         sync'[p].mem.path = sync[p].mem.path, sync'[p].mem.localOnly = sync[p].mem.localOnly,
         sync'[p].key = sync[p].key, sync'[p].waived = sync[p].waived,
         ~At(p, "idle"),
         sync'[p].pc \in Retiring => sync[p].pc \in Retiring,
         \/ stateFile' = stateFile
         \/ /\ stateFile'.path = sync[p].mem.path
            /\ stateFile'.localOnly = sync[p].mem.localOnly
  PROVE  RestorableInv'
<1>1. \A q \in Procs : q = p
  BY DEF OneSync
<1>2. RemovedUserIsRestorable'
  BY DEF RestorableInv, RemovedUserIsRestorable, CopiesAreUsable, Usable
<1>3. CopiesAreUsable'
  BY <1>1 DEF RestorableInv, CopiesAreUsable, Usable
<1>4. EntriesNameArchive'
  BY <1>1 DEF RestorableInv, EntriesNameArchive, NamesArchiveOf, LocalOnly
<1>5. QED BY <1>2, <1>3, <1>4 DEF RestorableInv

\* The steps that end the process.
LEMMA EndKeepsNames ==
  ASSUME OneSync, TypeOK, RestorableInv, NEW p \in Procs, ~At(p, "idle"), EndSync(p),
         UNCHANGED <<exists, archive, backedUp>>,
         stateFile' = stateFile \/ stateFile' = sync[p].mem
  PROVE  RestorableInv'
<1>1. \A q \in Procs : q = p
  BY DEF OneSync
<1>2. sync'[p].pc = "idle"
  BY DEF EndSync, IdleSync, TypeOK
<1>3. RemovedUserIsRestorable'
  BY DEF RestorableInv, RemovedUserIsRestorable, CopiesAreUsable, Usable
<1>4. QED BY <1>1, <1>2, <1>3 DEF RestorableInv, CopiesAreUsable, EntriesNameArchive, At, Retiring

LEMMA SyncRestorable ==
  ASSUME OneSync, TypeOK, TypeOK', ReportsAreTrue, RestorableInv, [Next]_vars,
         NEW p \in Procs, Load(p) \/ SyncStep(p) \/ Crash(p)
  PROVE  RestorableInv'
<1> USE DEF worldVars, unixVars, fileVars
<1>1. \A q \in Procs : q = p
  BY DEF OneSync
<1>2. sync[p] \in SyncStates /\ sync[p].mem \in Entries /\ sync' \in [Procs -> SyncStates]
  BY MemType DEF TypeOK
<1>3. CASE Load(p)
  <2>1. /\ sync'[p].mem = stateFile /\ sync'[p].pc \in {"lifecycle", "reconcile"}
        /\ UNCHANGED <<exists, archive, backedUp, stateFile>>
    <3>1. PICK todo :
            sync' = [sync EXCEPT ![p] =
              [IdleSync EXCEPT !.pc = IF desired = "inactive" THEN "lifecycle" ELSE "reconcile",
                               !.want = desired, !.mem = stateFile, !.todo = todo]]
      BY <1>3 DEF Load
    <3>2. QED BY <1>3, <3>1 DEF Load, IdleSync, TypeOK
  <2>2. CopiesAreUsable'
    BY <1>1, <2>1 DEF RestorableInv, RemovedUserIsRestorable, CopiesAreUsable, Usable
  <2>3. EntriesNameArchive'
    BY <1>1, <2>1 DEF EntriesNameArchive, Retiring
  <2>4. QED BY <2>1, <2>2, <2>3 DEF RestorableInv, RemovedUserIsRestorable
<1>4. CASE ReconcileRaises(p) \/ RefuseLifecycle(p) \/ Crash(p) \/ FinishSync(p) \/ LifecycleRaises(p)
  BY <1>4, EndKeepsNames
     DEF ReconcileRaises, RefuseLifecycle, Crash, FinishSync, LifecycleRaises, At, Persist
<1>5. CASE Reconcile(p)
  <2>1. /\ sync'[p].pc = "reconcile" /\ UNCHANGED <<archive, backedUp, stateFile>>
        /\ sync[p].pc = "reconcile" /\ (exists => exists')
        /\ ~exists' => sync'[p].mem = sync[p].mem
    <3>1. PICK a \in sync[p].todo :
            /\ Perform(a) \/ FailsSilently(a)
            /\ sync' = [sync EXCEPT ![p].todo = @ \ {a},
                                    ![p].mem = Updated(@, sync[p].want, exists')]
      BY <1>5 DEF Reconcile
    <3>2. exists => exists'
      BY <3>1 DEF Perform, FailsSilently
    <3>3. /\ sync'[p].pc = sync[p].pc
          /\ sync'[p].mem = Updated(sync[p].mem, sync[p].want, exists')
      BY <1>2, <3>1 DEF TypeOK, SyncStates
    <3>4. QED BY <1>5, <3>2, <3>3 DEF Reconcile, At, Updated
  <2>2. QED BY <1>1, <2>1 DEF RestorableInv, RemovedUserIsRestorable, CopiesAreUsable,
               EntriesNameArchive, Retiring, Usable, At
<1>6. ASSUME NEW waive \in BOOLEAN, BeginLifecycle(p, waive) PROVE RestorableInv'
  <2>1. /\ sync'[p].mem = stateFile' /\ stateFile'.path = sync'[p].key
        /\ stateFile'.localOnly = (waive \/ ~BackupRequired) /\ sync'[p].waived = waive
        /\ exists /\ exists'
    BY <1>2, <1>6 DEF BeginLifecycle, Persist, TypeOK, SyncStates
  <2>2. QED BY <1>1, <2>1 DEF RestorableInv, RemovedUserIsRestorable, CopiesAreUsable,
               EntriesNameArchive, NamesArchiveOf, LocalOnly
<1>7. CASE RemoveAccount(p)
  <2>1. /\ sync[p].pc = "userdel" /\ sync'[p].pc = "mark_tombstoned"
        /\ sync'[p].mem = sync[p].mem /\ UNCHANGED <<stateFile, archive, backedUp>>
    BY <1>2, <1>7 DEF RemoveAccount, At, Goto, TypeOK, SyncStates
  <2>2. Evidence(p) /\ sync[p].key # None
    <3>1. Evidence(p)
      BY <2>1 DEF ReportsAreTrue
    <3>2. QED BY <1>2, <3>1, KeysAssumption DEF SyncStates
  <2>3. Usable(sync[p].mem) /\ Usable(stateFile)
    BY <2>1, <2>2 DEF RestorableInv, EntriesNameArchive, NamesArchiveOf, Retiring, Usable, Evidence
  <2>4. QED BY <1>1, <2>1, <2>3 DEF RestorableInv, RemovedUserIsRestorable, CopiesAreUsable,
               EntriesNameArchive, Retiring, Usable
<1>8. CASE AlreadyTombstoned(p) \/ CancelJobs(p) \/ LockAccount(p) \/ DisableAssociation(p)
           \/ LockDataDir(p) \/ WritePayload(p) \/ RecordJob(p) \/ TerminateSessions(p)
  <2>1. /\ UNCHANGED <<exists, archive, backedUp>>
        /\ stateFile' = stateFile \/ stateFile' = sync[p].mem
    BY <1>8 DEF AlreadyTombstoned, CancelJobs, LockAccount, DisableAssociation, LockDataDir,
                WritePayload, RecordJob, TerminateSessions, Persist
  <2>2. /\ sync'[p].mem = sync[p].mem /\ sync'[p].key = sync[p].key
        /\ sync'[p].waived = sync[p].waived /\ ~At(p, "idle")
        /\ sync'[p].pc \in Retiring => sync[p].pc \in Retiring
    <3>1. PICK phase \in Phases : /\ Goto(p, phase) /\ ~At(p, "idle")
                                  /\ phase \in Retiring => sync[p].pc \in Retiring
      BY <1>8 DEF AlreadyTombstoned, CancelJobs, LockAccount, DisableAssociation, LockDataDir,
                  WritePayload, RecordJob, TerminateSessions, At, Retiring, Phases
    <3>2. QED BY <1>2, <3>1 DEF Goto, TypeOK, SyncStates
  <2>3. QED BY <1>2, <2>1, <2>2, SameNames
<1>9. ASSUME (\E j \in Slots : SubmitArchive(p, j)) \/ CollectResult(p) PROVE RestorableInv'
  <2>1. UNCHANGED <<exists, archive, backedUp, stateFile>>
    BY <1>9 DEF SubmitArchive, CollectResult
  <2>2. /\ sync'[p].mem = sync[p].mem /\ sync'[p].key = sync[p].key
        /\ sync'[p].waived = sync[p].waived /\ ~At(p, "idle")
        /\ sync[p].pc \in Retiring
    BY <1>2, <1>9 DEF SubmitArchive, CollectResult, At, Retiring, TypeOK, SyncStates
  <2>3. QED BY <1>2, <2>1, <2>2, SameNames
<1>10. CASE MarkRunning(p) \/ JobFailed(p) \/ JobSucceeded(p) \/ CheckBackup(p) \/ MarkReady(p)
            \/ MarkTombstoned(p)
  <2>1. PICK a \in ArchiveStates, phase \in Phases : Record(p, a, phase)
    BY <1>10 DEF MarkRunning, JobFailed, JobSucceeded, CheckBackup, MarkReady, MarkTombstoned,
                 ArchiveStates, Phases
  <2>2. UNCHANGED <<exists, archive, backedUp>> /\ ~At(p, "idle")
    BY <1>10 DEF MarkRunning, JobFailed, JobSucceeded, CheckBackup, MarkReady, MarkTombstoned, At
  <2>3. sync'[p].pc = phase /\ sync'[p].key = sync[p].key /\ sync'[p].waived = sync[p].waived
    BY <1>2, <2>1 DEF Record, TypeOK, SyncStates
  <2>4. /\ stateFile' = sync'[p].mem /\ stateFile'.path = sync[p].mem.path
        /\ stateFile'.localOnly = sync[p].mem.localOnly
    BY <1>2, <2>1 DEF Record, Persist, TypeOK, SyncStates, Entries
  <2>5. sync'[p].pc \in Retiring => sync[p].pc \in Retiring
    BY <1>2, <1>10 DEF MarkRunning, JobFailed, JobSucceeded, CheckBackup, MarkReady,
                 MarkTombstoned, Record, At, Retiring, TypeOK, SyncStates
  <2>6. QED BY <1>2, <2>2, <2>3, <2>4, <2>5, SameNames
<1>11. QED
  BY <1>3, <1>4, <1>5, <1>6, <1>7, <1>8, <1>9, <1>10 DEF SyncStep, ReconcileStep, LifecycleStep

LEMMA OthersRestorable ==
  ASSUME TypeOK, ReportsAreTrue, RestorableInv, [Next]_vars,
         UNCHANGED <<exists, stateFile, sync>>
  PROVE  RestorableInv'
<1>1. RemovedUserIsRestorable'
  BY UsableKept DEF RestorableInv, RemovedUserIsRestorable, Usable, TypeOK
<1>2. CopiesAreUsable'
  BY UsableKept, MemType DEF RestorableInv, CopiesAreUsable, Usable, At
<1>3. EntriesNameArchive'
  BY DEF RestorableInv, EntriesNameArchive, NamesArchiveOf, LocalOnly
<1>4. QED BY <1>1, <1>2, <1>3 DEF RestorableInv

\* While the account is gone, users-state.yml names an archive that exists and is
\* backed up or local only, whatever failed, was killed or lost, and however many
\* archive jobs are about, if one sync runs at a time (_apply_inactive_lifecycle).
THEOREM RemovedUsersAreRestorable ==
  ASSUME OneSync
  PROVE  Spec => []RemovedUserIsRestorable
<1>1. TypeOK /\ TypeOK' /\ ReportsAreTrue /\ RestorableInv /\ [Next]_vars => RestorableInv'
  <2> SUFFICES ASSUME TypeOK, TypeOK', ReportsAreTrue, RestorableInv, [Next]_vars
               PROVE  RestorableInv'
    OBVIOUS
  <2>1. CASE \E p \in Procs : Load(p) \/ SyncStep(p) \/ Crash(p)
    BY <2>1, SyncRestorable
  <2>2. CASE EditUsersYml \/ UserStep \/ UNCHANGED vars
    BY <2>2, OthersRestorable DEF EditUsersYml, UserStep, LogIn, SubmitJob, WriteHome, LogOut,
       JobEnds, worldVars, unixVars, vars
  <2>3. CASE \E j \in Slots : RunnerStep(j) \/ JobLost(j)
    BY <2>3, OthersRestorable DEF RunnerStep, RunnerStarts, RunnerArchives, RunnerBacksUp,
       RunnerFails, RunnerReports, JobLost, worldVars, unixVars
  <2>4. QED BY <2>1, <2>2, <2>3 DEF Next
<1>2. RestorableInv => RemovedUserIsRestorable
  BY DEF RestorableInv
<1>3. QED BY <1>1, <1>2, InitRestorable, TypeCorrect, ReportsAreAlwaysTrue, PTL DEF Spec
-----------------------------------------------------------------------------
(***************************************************************************)
(* One sync at a time, and failures that leave no archive job without the  *)
(* sync that waits for it, and no account unlocked.  Then the only archive *)
(* job is the one somebody waits for, it works behind a lock, and what it  *)
(* reports is of the home directory as it is.                              *)
(***************************************************************************)
Orderly == Faults \intersect {"crash", "squeue", "timeout", "joblost", "usermod"} = {}

Waiting == {"record_job", "wait"}
Good == {"archived", "backed_up"}

OwnJobOnly ==
  \A j \in Slots : jobs[j].stage # "none" =>
    \E p \in Procs : sync[p].pc \in Waiting /\ sync[p].job = j /\ sync[p].key = jobs[j].key

IsCurrent(p) == archive[sync[p].key] = home

\* How far the job of p has come, and that it is about the home as it is.
OwnJobIsCurrent(p) ==
  LET job == jobs[sync[p].job] IN
  /\ sync[p].job \in Slots
  /\ job.stage = "none" /\ result[sync[p].key] \in Good => IsCurrent(p)
  /\ job.stage = "archiving" => job.snap = home
  /\ job.stage = "hook" => IsCurrent(p)
  /\ job.stage = "report" /\ job.out \in Good => IsCurrent(p)

OrderlyRun(p) ==
  /\ sync[p].pc \in Retiring \union {"lifecycle"} => sync[p].want = "inactive"
  /\ sync[p].pc \in Retiring \ {"scancel", "lock"} => locked
  /\ sync[p].pc \in Waiting => OwnJobIsCurrent(p)
  /\ sync[p].pc = "collected" /\ sync[p].got \in Good => IsCurrent(p)
  /\ sync[p].pc \in {"backup", "mark_ready", "terminate", "userdel"} => IsCurrent(p)

OrderlyInv == OwnJobOnly /\ \A p \in Procs : OrderlyRun(p)

LEMMA InitOrderly == Init => OrderlyInv
  BY DEF Init, OrderlyInv, OwnJobOnly, OrderlyRun, IdleSync, NoJob, Retiring, Waiting

LEMMA NoDisorder ==
  ASSUME Orderly
  PROVE  \A kind \in {"crash", "squeue", "timeout", "joblost", "usermod"} : ~Fault(kind)
  BY DEF Orderly, Fault, CanFail

\* A process that waits for no job moves on.
LEMMA MoveOrderly ==
  ASSUME OneSync, OrderlyInv, NEW p \in Procs, UNCHANGED <<jobs, archive, home>>,
         sync[p].pc \notin Waiting, sync'[p].pc \notin Waiting \union {"collected"},
         sync'[p].pc \in Retiring \union {"lifecycle"} => sync'[p].want = "inactive",
         sync'[p].pc \in Retiring \ {"scancel", "lock"} => locked',
         sync'[p].pc \in {"backup", "mark_ready", "terminate", "userdel"} =>
           sync'[p].key = sync[p].key /\ IsCurrent(p)
  PROVE  OrderlyInv'
<1>1. \A q \in Procs : q = p
  BY DEF OneSync
<1>2. OwnJobOnly'
  BY <1>1 DEF OrderlyInv, OwnJobOnly
<1>3. OrderlyRun(p)'
  BY DEF OrderlyRun, IsCurrent
<1>4. QED BY <1>1, <1>2, <1>3 DEF OrderlyInv

LEMMA SyncOrderly ==
  ASSUME OneSync, Orderly, TypeOK, OrderlyInv, NEW p \in Procs,
         Load(p) \/ SyncStep(p) \/ Crash(p)
  PROVE  OrderlyInv'
<1> USE DEF worldVars, unixVars, userVars, fileVars
<1>1. \A q \in Procs : q = p
  BY DEF OneSync
<1>2. sync[p] \in SyncStates /\ OrderlyRun(p)
  BY MemType DEF OrderlyInv
<1>3. CASE Load(p)
  <2>1. PICK todo :
          sync' = [sync EXCEPT ![p] =
            [IdleSync EXCEPT !.pc = IF desired = "inactive" THEN "lifecycle" ELSE "reconcile",
                             !.want = desired, !.mem = stateFile, !.todo = todo]]
    BY <1>3 DEF Load
  <2>2. /\ sync'[p].want = desired /\ sync[p].pc = "idle"
        /\ sync'[p].pc = IF desired = "inactive" THEN "lifecycle" ELSE "reconcile"
    BY <1>3, <2>1 DEF Load, At, IdleSync, TypeOK
  <2>3. UNCHANGED <<jobs, archive, home>>
    BY <1>3 DEF Load
  <2>4. QED BY <2>2, <2>3, MoveOrderly DEF Retiring, Waiting
<1>4. CASE ReconcileRaises(p) \/ RefuseLifecycle(p) \/ Crash(p) \/ FinishSync(p) \/ LifecycleRaises(p)
  <2>1. UNCHANGED <<jobs, archive, home>> /\ EndSync(p) /\ sync[p].pc \notin Waiting
    BY <1>4, NoDisorder
       DEF ReconcileRaises, RefuseLifecycle, Crash, FinishSync, LifecycleRaises, At, Waiting
  <2>2. sync'[p].pc = "idle"
    BY <2>1 DEF EndSync, IdleSync, TypeOK
  <2>3. QED BY <2>1, <2>2, MoveOrderly DEF Retiring, Waiting
<1>5. CASE Reconcile(p)
  <2>1. PICK a \in sync[p].todo :
          sync' = [sync EXCEPT ![p].todo = @ \ {a},
                               ![p].mem = Updated(@, sync[p].want, exists')]
    BY <1>5 DEF Reconcile
  <2>2. sync'[p].pc = "reconcile" /\ sync[p].pc = "reconcile"
    BY <1>2, <1>5, <2>1 DEF Reconcile, At, TypeOK, SyncStates
  <2>3. UNCHANGED <<jobs, archive, home>>
    BY <1>5 DEF Reconcile
  <2>4. QED BY <2>2, <2>3, MoveOrderly DEF Retiring, Waiting
<1>6. ASSUME NEW waive \in BOOLEAN, BeginLifecycle(p, waive) PROVE OrderlyInv'
  <2>1. /\ sync[p].pc = "lifecycle" /\ sync'[p].pc = "scancel" /\ sync'[p].want = sync[p].want
        /\ UNCHANGED <<jobs, archive, home>>
    BY <1>2, <1>6 DEF BeginLifecycle, At, TypeOK, SyncStates
  <2>2. QED BY <1>2, <2>1, MoveOrderly DEF Retiring, Waiting, OrderlyRun
<1>7. CASE AlreadyTombstoned(p) \/ CancelJobs(p) \/ LockAccount(p) \/ DisableAssociation(p)
           \/ LockDataDir(p) \/ WritePayload(p) \/ TerminateSessions(p) \/ RemoveAccount(p)
  <2>1. PICK phase \in Phases :
          /\ Goto(p, phase) /\ sync[p].pc \notin Waiting /\ phase \notin Waiting \union {"collected"}
          /\ phase \in Retiring \union {"lifecycle"} => sync[p].pc \in Retiring
          /\ phase \in Retiring \ {"scancel", "lock"} =>
               locked' \/ (locked' = locked /\ sync[p].pc \in Retiring \ {"scancel", "lock"})
          /\ phase \in {"backup", "mark_ready", "terminate", "userdel"} => sync[p].pc = "terminate"
    BY <1>7, NoDisorder
       DEF AlreadyTombstoned, CancelJobs, LockAccount, DisableAssociation, LockDataDir,
           WritePayload, TerminateSessions, RemoveAccount, Unchecked, At, Retiring, Waiting, Phases
  <2>2. UNCHANGED <<jobs, archive, home>>
    BY <1>7 DEF AlreadyTombstoned, CancelJobs, LockAccount, DisableAssociation, LockDataDir,
                WritePayload, TerminateSessions, RemoveAccount
  <2>3. sync'[p].pc = phase /\ sync'[p].want = sync[p].want /\ sync'[p].key = sync[p].key
    BY <1>2, <2>1 DEF Goto, TypeOK, SyncStates
  <2>4. QED BY <1>2, <2>1, <2>2, <2>3, MoveOrderly DEF OrderlyRun
<1>8. CASE MarkRunning(p) \/ JobFailed(p) \/ JobSucceeded(p) \/ CheckBackup(p) \/ MarkReady(p)
           \/ MarkTombstoned(p)
  <2>1. PICK a \in ArchiveStates, phase \in Phases :
          /\ Record(p, a, phase) /\ sync[p].pc \notin Waiting
          /\ phase \notin Waiting \union {"collected", "lifecycle", "scancel", "lock"}
          /\ phase \in Retiring => sync[p].pc \in Retiring \ {"scancel", "lock"}
          /\ phase \in {"backup", "mark_ready", "terminate", "userdel"} =>
               \/ sync[p].pc \in {"backup", "mark_ready"}
               \/ sync[p].pc = "collected" /\ sync[p].got \in Good
    BY <1>8 DEF MarkRunning, JobFailed, JobSucceeded, CheckBackup, MarkReady, MarkTombstoned,
                ArchiveStates, Phases, At, Retiring, Waiting, Good
  <2>2. UNCHANGED <<jobs, archive, home, locked>>
    BY <1>8 DEF MarkRunning, JobFailed, JobSucceeded, CheckBackup, MarkReady, MarkTombstoned
  <2>3. sync'[p].pc = phase /\ sync'[p].want = sync[p].want /\ sync'[p].key = sync[p].key
    BY <1>2, <2>1 DEF Record, TypeOK, SyncStates
  <2>4. QED BY <1>2, <2>1, <2>2, <2>3, MoveOrderly DEF OrderlyRun
<1>9. ASSUME NEW j \in Slots, SubmitArchive(p, j) PROVE OrderlyInv'
  <2>1. /\ sync[p].pc = "submit" /\ sync'[p].pc = "record_job" /\ sync'[p].job = j
        /\ sync'[p].want = sync[p].want /\ sync'[p].key = sync[p].key
        /\ UNCHANGED locked
    BY <1>2, <1>9 DEF SubmitArchive, At, TypeOK, SyncStates
  <2>2. /\ jobs'[j].stage = "queued" /\ jobs'[j].key = sync[p].key
        /\ \A i \in Slots : i # j => jobs'[i] = jobs[i]
    BY <1>9, NoJobType DEF SubmitArchive, TypeOK, Jobs
  <2>3. OwnJobOnly'
    BY <1>1, <2>1, <2>2 DEF OrderlyInv, OwnJobOnly, Waiting
  <2>4. OrderlyRun(p)'
    BY <1>2, <2>1, <2>2 DEF OrderlyRun, OwnJobIsCurrent, Retiring, Waiting
  <2>5. QED BY <1>1, <2>3, <2>4 DEF OrderlyInv
<1>10. CASE RecordJob(p)
  <2>1. /\ sync[p].pc = "record_job" /\ sync'[p].pc = "wait" /\ sync'[p].job = sync[p].job
        /\ sync'[p].want = sync[p].want /\ sync'[p].key = sync[p].key
        /\ UNCHANGED <<locked, jobs, archive, home, result>>
    BY <1>2, <1>10 DEF RecordJob, Goto, At, TypeOK, SyncStates
  <2>2. OwnJobOnly'
    BY <1>1, <2>1 DEF OrderlyInv, OwnJobOnly, Waiting
  <2>3. OrderlyRun(p)'
    BY <1>2, <2>1 DEF OrderlyRun, OwnJobIsCurrent, IsCurrent, Retiring, Waiting
  <2>4. QED BY <1>1, <2>2, <2>3 DEF OrderlyInv
<1>11. CASE CollectResult(p)
  <2>1. /\ sync[p].pc = "wait" /\ jobs[sync[p].job].stage = "none"
        /\ UNCHANGED <<locked, jobs, archive, home>>
    BY <1>11, NoDisorder DEF CollectResult, JobHasLeft, Queued, At
  <2>2. PICK r \in {result[sync[p].key], "failed"} :
          sync' = [sync EXCEPT ![p].pc = "collected", ![p].got = r]
    BY <1>11 DEF CollectResult
  <2>3. /\ sync'[p].pc = "collected" /\ sync'[p].got = r
        /\ sync'[p].want = sync[p].want /\ sync'[p].key = sync[p].key
    BY <1>2, <2>2 DEF TypeOK, SyncStates
  <2>4. OwnJobOnly'
    BY <1>1, <2>1 DEF OrderlyInv, OwnJobOnly
  <2>5. OrderlyRun(p)'
    BY <1>2, <2>1, <2>3 DEF OrderlyRun, OwnJobIsCurrent, IsCurrent, Retiring, Waiting, Good
  <2>6. QED BY <1>1, <2>4, <2>5 DEF OrderlyInv
<1>12. QED
  BY <1>3, <1>4, <1>5, <1>6, <1>7, <1>8, <1>9, <1>10, <1>11
     DEF SyncStep, ReconcileStep, LifecycleStep

LEMMA RunnerOrderly ==
  ASSUME OneSync, Orderly, TypeOK, OrderlyInv, NEW j \in Slots, RunnerStep(j) \/ JobLost(j)
  PROVE  OrderlyInv'
<1> USE DEF worldVars, unixVars, userVars, fileVars
<1>1. UNCHANGED <<sync, home, locked>> /\ jobs[j] \in Jobs /\ jobs[j].stage # "none"
  BY DEF RunnerStep, RunnerStarts, RunnerArchives, RunnerBacksUp, RunnerFails, RunnerReports,
         JobLost, Queued, TypeOK
<1>2. PICK p \in Procs : sync[p].pc \in Waiting /\ sync[p].job = j /\ sync[p].key = jobs[j].key
  BY <1>1 DEF OrderlyInv, OwnJobOnly
<1>3. (\A q \in Procs : q = p) /\ sync[p] \in SyncStates /\ OrderlyRun(p) /\ OwnJobIsCurrent(p)
  BY <1>2, MemType DEF OneSync, OrderlyInv, OrderlyRun
<1>4. SUFFICES OwnJobOnly' /\ OwnJobIsCurrent(p)'
  BY <1>1, <1>2, <1>3 DEF OrderlyInv, OrderlyRun, Waiting, Retiring
<1>5. \A i \in Slots : i # j => jobs'[i] = jobs[i]
  BY DEF RunnerStep, RunnerStarts, RunnerArchives, RunnerBacksUp, RunnerFails, RunnerReports,
         JobLost, TypeOK
<1>6. CASE RunnerStarts(j)
  <2>1. /\ jobs'[j].stage = "archiving" /\ jobs'[j].key = jobs[j].key /\ jobs'[j].snap = home
    BY <1>1, <1>6 DEF RunnerStarts, TypeOK, Jobs
  <2>2. QED BY <1>1, <1>2, <1>3, <1>5, <2>1 DEF OrderlyInv, OwnJobOnly, OwnJobIsCurrent
<1>7. CASE RunnerArchives(j)
  <2>1. /\ jobs'[j].stage \in {"report", "hook"} /\ jobs'[j].key = jobs[j].key
        /\ archive'[jobs[j].key] = home
    BY <1>1, <1>2, <1>3, <1>7 DEF RunnerArchives, OwnJobIsCurrent, TypeOK, Jobs
  <2>2. QED BY <1>1, <1>2, <1>3, <1>5, <2>1 DEF OrderlyInv, OwnJobOnly, OwnJobIsCurrent, IsCurrent
<1>8. CASE RunnerBacksUp(j) \/ RunnerFails(j)
  <2>1. /\ jobs'[j].stage = "report" /\ jobs'[j].key = jobs[j].key /\ UNCHANGED archive
        /\ jobs'[j].out \in Good => jobs[j].stage = "hook"
    BY <1>1, <1>8 DEF RunnerBacksUp, RunnerFails, TypeOK, Jobs, Good
  <2>2. QED BY <1>1, <1>2, <1>3, <1>5, <2>1 DEF OrderlyInv, OwnJobOnly, OwnJobIsCurrent, IsCurrent
<1>9. CASE RunnerReports(j)
  <2>1. /\ jobs'[j].stage = "none" /\ result'[jobs[j].key] = jobs[j].out /\ UNCHANGED archive
        /\ jobs[j].stage = "report"
    BY <1>1, <1>9 DEF RunnerReports, NoJob, TypeOK, Jobs
  <2>2. QED BY <1>1, <1>2, <1>3, <1>5, <2>1 DEF OrderlyInv, OwnJobOnly, OwnJobIsCurrent, IsCurrent
<1>10. QED BY <1>6, <1>7, <1>8, <1>9, NoDisorder DEF RunnerStep, JobLost

LEMMA OthersOrderly ==
  ASSUME OrderlyInv, UserLeaves, EditUsersYml \/ UserStep \/ UNCHANGED vars
  PROVE  OrderlyInv'
<1> USE DEF worldVars, unixVars, userVars, fileVars
<1>1. UNCHANGED <<sync, jobs, archive, result, locked>>
  BY DEF EditUsersYml, UserStep, LogIn, SubmitJob, WriteHome, LogOut, JobEnds, vars
<1>2. home' = home \/ \A p \in Procs : sync[p].want # "inactive"
  BY DEF EditUsersYml, UserStep, LogIn, SubmitJob, WriteHome, LogOut, JobEnds, Working, vars
<1>3. QED BY <1>1, <1>2 DEF OrderlyInv, OwnJobOnly, OrderlyRun, OwnJobIsCurrent, IsCurrent,
                            Retiring, Waiting

LEMMA OrderlyInvariant ==
  ASSUME OneSync, Orderly, UserLeaves
  PROVE  Spec => [](TypeOK /\ OrderlyInv)
<1>1. TypeOK /\ OrderlyInv /\ [Next]_vars => OrderlyInv'
  BY SyncOrderly, RunnerOrderly, OthersOrderly DEF Next
<1>2. QED BY <1>1, InitOrderly, TypeCorrect, PTL DEF Spec

\* No archive job prunes the home of a user who can work in it: the lock of the
\* sync that submitted the job is still in force (run_archive_runner_payload).
THEOREM PruningIsLocked ==
  ASSUME OneSync, Orderly, UserLeaves
  PROVE  Spec => PruneOnlyWhileLocked
<1> DEFINE Locked == \A j \in Slots : jobs[j].stage = "queued" /\ jobs'[j].stage = "archiving"
                       => locked \/ ~exists
<1>1. TypeOK /\ OrderlyInv => Locked
  BY DEF OrderlyInv, OwnJobOnly, OrderlyRun, Waiting, Retiring
<1>2. PruneOnlyWhileLocked <=> [][Locked]_vars
  BY DEF PruneOnlyWhileLocked
<1>3. QED BY <1>1, <1>2, OrderlyInvariant, PTL

\* An account is removed only on an archive of its home as the user left it,
\* whatever older results are about (_wait_for_archive_job).
THEOREM RemovedHomesAreCurrent ==
  ASSUME OneSync, Orderly, UserLeaves
  PROVE  Spec => RemovedHomeIsCurrent
<1> DEFINE Current == exists /\ ~exists' => \E p \in Procs : At(p, "userdel")
                                              /\ archive[sync[p].key] = home
<1>1. TypeOK /\ OrderlyInv /\ [Next]_vars => Current
  BY AccountChanges DEF RemoveAccount, At, OrderlyInv, OrderlyRun, IsCurrent
<1>2. RemovedHomeIsCurrent <=> [][Current]_vars
  BY DEF RemovedHomeIsCurrent
<1>3. QED BY <1>1, <1>2, OrderlyInvariant, PTL DEF Spec
=============================================================================
