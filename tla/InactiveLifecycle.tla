------------------------- MODULE InactiveLifecycle -------------------------
(***************************************************************************)
(* The life of one managed user of a single-node Slurm installation, as    *)
(* ssn/users.py drives it: `ssn-sync-users --apply` reads users.yml and    *)
(* users-state.yml, reconciles an active or suspended user, and takes an   *)
(* inactive one through the archive state machine                          *)
(* (archive_pending, archive_running, archived_local_only or               *)
(* backup_complete, removal_ready, tombstoned).  The archive itself is     *)
(* made by a Slurm job that outlives the sync process and talks to it      *)
(* through a payload and a result file, both named after the operation     *)
(* hash.                                                                   *)
(*                                                                         *)
(* One step is one external command or one write of users-state.yml, so a  *)
(* crash, the user, the archive jobs, or another sync process can come     *)
(* between any two of them.                                                *)
(***************************************************************************)
EXTENDS Integers

CONSTANTS
  Procs,            \* runs of ssn-sync-users that may be in progress
  Slots,            \* archive jobs Slurm may hold at once (bound)
  BackupRequired,   \* _backup_required: replication is needed for durability
  HookInstalled,    \* an executable backup hook exists
  WaiverAllowed,    \* local_only_override = reviewed_token
  UserLeaves,       \* the user stops working when being retired
  Faults,           \* the kinds of failure the environment may produce
  MaxFaults,        \* how many of them (bound)
  MaxEdits,         \* how often users.yml changes (bound)
  MaxHome,          \* how often the home directory changes (bound)
  None

FaultKinds ==
  {"crash", "scancel", "usermod", "sacctmgr", "useradd", "datadir", "sbatch",
   "squeue", "timeout", "joblost", "archive", "hook", "loginctl", "userdel"}

ASSUME FaultsAssumption == Faults \subseteq FaultKinds
ASSUME BoundsAssumption == MaxFaults \in Nat /\ MaxEdits \in Nat /\ MaxHome \in Nat
ASSUME BooleanAssumption ==
  {BackupRequired, HookInstalled, WaiverAllowed, UserLeaves} \subseteq BOOLEAN
ASSUME NoneAssumption == None \notin Nat /\ None \notin Slots

Statuses == {"active", "suspended", "inactive"}

ArchiveStates ==
  {"none", "archive_pending", "archive_running", "archived_local_only",
   "backup_failed", "backup_complete", "removal_ready", "tombstoned"}

\* What tells two operation hashes of one user apart: the status and the
\* archive state that users-state.yml had when the sync process read it.
Keys == Statuses \X ArchiveStates
ASSUME KeysAssumption == None \notin Keys

\* The user's entry in users-state.yml; path names the archive file.
Entries == [status : Statuses, archive : ArchiveStates,
            path : Keys \union {None}, localOnly : BOOLEAN]

Versions == 0 .. MaxHome

\* What the result file of an archive job says.
Results == {"none", "archived", "backed_up", "hook_failed", "failed"}

\* The reconciliations of a plan, in the order plan_user_sync lists them.
Rank == [create_unix_user |-> 1, ensure_unlocked |-> 2, ensure_data_dir |-> 3,
         ensure_slurm_association |-> 4, lock_unix_account |-> 5,
         disable_slurm_association |-> 6, kill_jobs |-> 7, update_state |-> 8]
Reconciliations == DOMAIN Rank

Phases ==
  {"idle", "reconcile", "lifecycle", "scancel", "lock", "disable", "lockdata",
   "mark_running", "payload", "submit", "record_job", "wait", "collected", "backup", "mark_ready",
   "terminate", "userdel", "mark_tombstoned"}

SyncStates ==
  [pc : Phases, want : Statuses, mem : Entries, key : Keys, waived : BOOLEAN,
   got : Results, job : Slots \union {None}, todo : SUBSET Reconciliations]

Stages == {"none", "queued", "archiving", "hook", "report"}

Jobs == [stage : Stages, key : Keys, local : BOOLEAN,
         snap : Versions \union {None}, out : Results]

VARIABLES
  desired,      \* status of the user in users.yml
  stateFile,    \* the user's entry in users-state.yml, on disk
  exists,       \* the passwd entry
  locked,       \* usermod -L -e 1
  dataLocked,   \* /data/<user> belongs to root
  assoc,        \* the Slurm association
  session,      \* a login session of the user is open
  userJob,      \* the user has a Slurm job, pending or running
  home,         \* version of the contents of the home directory
  payload,      \* key -> the local_only flag of the payload file
  archive,      \* key -> the version the .7z file at that path holds
  backedUp,     \* key -> the version the backup hook has copied away
  result,       \* key -> the result file
  jobs,         \* archive jobs in the Slurm queue
  sync,         \* the sync processes
  faultsLeft, editsLeft

unixVars == <<exists, locked, dataLocked>>
userVars == <<session, userJob, home>>
fileVars == <<payload, archive, backedUp, result>>
worldVars == <<unixVars, userVars, assoc>>

vars == <<desired, stateFile, exists, locked, dataLocked, assoc, session,
          userJob, home, payload, archive, backedUp, result, jobs, sync,
          faultsLeft, editsLeft>>

FirstEntry == [status |-> "active", archive |-> "none", path |-> None,
               localOnly |-> FALSE]

IdleSync == [pc |-> "idle", want |-> "active", mem |-> FirstEntry,
             key |-> <<"active", "none">>, waived |-> FALSE, got |-> "none",
             job |-> None, todo |-> {}]

NoJob == [stage |-> "none", key |-> <<"active", "none">>, local |-> FALSE,
          snap |-> None, out |-> "none"]

TypeOK ==
  /\ desired \in Statuses
  /\ stateFile \in Entries
  /\ exists \in BOOLEAN /\ locked \in BOOLEAN /\ dataLocked \in BOOLEAN
  /\ assoc \in BOOLEAN /\ session \in BOOLEAN /\ userJob \in BOOLEAN
  /\ home \in Versions
  /\ payload \in [Keys -> BOOLEAN]
  /\ archive \in [Keys -> Versions \union {None}]
  /\ backedUp \in [Keys -> Versions \union {None}]
  /\ result \in [Keys -> Results]
  /\ jobs \in [Slots -> Jobs]
  /\ sync \in [Procs -> SyncStates]
  /\ faultsLeft \in 0 .. MaxFaults
  /\ editsLeft \in 0 .. MaxEdits

\* A managed, active user that ssn has already reconciled once.
Init ==
  /\ desired = "active"
  /\ stateFile = FirstEntry
  /\ exists = TRUE
  /\ locked = FALSE
  /\ dataLocked = FALSE
  /\ assoc = TRUE
  /\ session = FALSE
  /\ userJob = FALSE
  /\ home = 0
  /\ payload = [k \in Keys |-> FALSE]
  /\ archive = [k \in Keys |-> None]
  /\ backedUp = [k \in Keys |-> None]
  /\ result = [k \in Keys |-> "none"]
  /\ jobs = [j \in Slots |-> NoJob]
  /\ sync = [p \in Procs |-> IdleSync]
  /\ faultsLeft = MaxFaults
  /\ editsLeft = MaxEdits
-----------------------------------------------------------------------------
(* The administrator, the user, and what may go wrong.                     *)

CanFail(kind) == kind \in Faults /\ faultsLeft > 0
Fault(kind) == CanFail(kind) /\ faultsLeft' = faultsLeft - 1

\* A command run with check=False either works or fails without a trace.
Unchecked(kind, var, value) ==
  \/ var' = value /\ UNCHANGED faultsLeft
  \/ var' = var /\ Fault(kind)

EditUsersYml ==
  /\ editsLeft > 0
  /\ desired' \in Statuses \ {desired}
  /\ editsLeft' = editsLeft - 1
  /\ UNCHANGED <<stateFile, worldVars, fileVars, jobs, sync, faultsLeft>>

\* A user who has left touches nothing until the account is active again and
\* no run that retires it is in progress.
Working ==
  UserLeaves => desired = "active" /\ \A p \in Procs : sync[p].want # "inactive"

LogIn ==
  /\ Working /\ exists /\ ~locked /\ ~session
  /\ session' = TRUE
  /\ UNCHANGED <<desired, stateFile, unixVars, assoc, userJob, home, fileVars,
                 jobs, sync, faultsLeft, editsLeft>>

SubmitJob ==
  /\ Working /\ session /\ assoc /\ ~userJob
  /\ userJob' = TRUE
  /\ UNCHANGED <<desired, stateFile, unixVars, assoc, session, home, fileVars,
                 jobs, sync, faultsLeft, editsLeft>>

WriteHome ==
  /\ Working /\ (session \/ userJob) /\ home < MaxHome
  /\ home' = home + 1
  /\ UNCHANGED <<desired, stateFile, unixVars, assoc, session, userJob, fileVars,
                 jobs, sync, faultsLeft, editsLeft>>

LogOut ==
  /\ session
  /\ session' = FALSE
  /\ UNCHANGED <<desired, stateFile, unixVars, assoc, userJob, home, fileVars,
                 jobs, sync, faultsLeft, editsLeft>>

JobEnds ==
  /\ userJob
  /\ userJob' = FALSE
  /\ UNCHANGED <<desired, stateFile, unixVars, assoc, session, home, fileVars,
                 jobs, sync, faultsLeft, editsLeft>>
-----------------------------------------------------------------------------
(* A sync process: reading, planning, and the reconciliation of an active  *)
(* or a suspended user.                                                    *)

At(p, phase) == sync[p].pc = phase
Goto(p, phase) == sync' = [sync EXCEPT ![p].pc = phase]

\* The process ends; Persist writes its copy of the entry to users-state.yml.
EndSync(p) == sync' = [sync EXCEPT ![p] = IdleSync]
Persist(entry) == stateFile' = entry

\* Mutant: the data directory of a reactivated user is not given back.
PlanKeepsDataLocked(want, assocSeen, jobsSeen) ==
  IF want = "inactive" THEN {}
  ELSE IF want = "active" /\ ~exists
  THEN {"create_unix_user", "ensure_data_dir", "ensure_slurm_association"}
  ELSE {a \in Reconciliations :
    \/ want = "active" /\ \/ a = "ensure_unlocked" /\ locked
                          \/ a = "ensure_slurm_association" /\ ~assocSeen
    \/ want = "suspended" /\ \/ a = "lock_unix_account" /\ exists /\ ~locked
                             \/ a = "disable_slurm_association" /\ assocSeen
                             \/ a = "kill_jobs" /\ jobsSeen
    \/ a = "update_state" /\ exists /\ stateFile.status # want}

\* plan_user_sync, given what sacctmgr and squeue answered.
Plan(want, assocSeen, jobsSeen) ==
  IF want = "inactive" THEN {}
  ELSE IF want = "active" /\ ~exists
  THEN {"create_unix_user", "ensure_data_dir", "ensure_slurm_association"}
  ELSE {a \in Reconciliations :
    \/ want = "active" /\ \/ a = "ensure_unlocked" /\ locked
                          \/ a = "ensure_data_dir" /\ dataLocked
                          \/ a = "ensure_slurm_association" /\ ~assocSeen
    \/ want = "suspended" /\ \/ a = "lock_unix_account" /\ exists /\ ~locked
                             \/ a = "disable_slurm_association" /\ assocSeen
                             \/ a = "kill_jobs" /\ jobsSeen
    \/ a = "update_state" /\ exists /\ stateFile.status # want}

\* load_users, load_state, plan_user_sync.  A query that fails is taken for an
\* answer that there is no association, or no job.
Load(p) ==
  /\ At(p, "idle")
  /\ \E assocSeen, jobsSeen \in BOOLEAN :
       /\ \/ assocSeen = assoc /\ jobsSeen = userJob /\ UNCHANGED faultsLeft
          \/ assoc /\ ~assocSeen /\ jobsSeen = userJob /\ Fault("sacctmgr")
          \/ userJob /\ ~jobsSeen /\ assocSeen = assoc /\ Fault("squeue")
       /\ sync' = [sync EXCEPT ![p] =
            [IdleSync EXCEPT !.pc = IF desired = "inactive" THEN "lifecycle" ELSE "reconcile",
                             !.want = desired, !.mem = stateFile,
                             !.todo = Plan(desired, assocSeen, jobsSeen)]]
  /\ UNCHANGED <<desired, stateFile, worldVars, fileVars, jobs, editsLeft>>

\* _update_state_for_user, which does nothing when the account is missing.
Updated(entry, want, present) ==
  IF ~present THEN entry
  ELSE IF want = "active"
  THEN [entry EXCEPT !.status = want, !.archive = "none", !.localOnly = FALSE]
  ELSE [entry EXCEPT !.status = want]

First(todo, a) == a \in todo /\ \A b \in todo : Rank[a] <= Rank[b]

\* The commands that apply_user_actions runs with check=False, by fault kind.
Command(a) ==
  CASE a \in {"ensure_unlocked", "lock_unix_account"} -> "usermod"
    [] a \in {"ensure_slurm_association", "disable_slurm_association"} -> "sacctmgr"
    [] a = "kill_jobs" -> "scancel"
    [] OTHER -> "none"

Perform(a) ==
  /\ exists' = (exists \/ a = "create_unix_user")
  /\ locked' = (IF a \in {"create_unix_user", "ensure_unlocked"} THEN FALSE
                ELSE locked \/ a = "lock_unix_account")
  /\ dataLocked' = (dataLocked /\ a # "ensure_data_dir")
  /\ assoc' = (IF a = "disable_slurm_association" THEN FALSE
               ELSE assoc \/ a = "ensure_slurm_association")
  /\ userJob' = (userJob /\ a # "kill_jobs")
  /\ UNCHANGED faultsLeft

FailsSilently(a) ==
  /\ Fault(Command(a))
  /\ UNCHANGED <<unixVars, assoc, userJob>>

Raises(a) ==
  \/ a = "create_unix_user" /\ exists
  \/ a = "ensure_data_dir" /\ ~exists

Reconcile(p) ==
  /\ At(p, "reconcile")
  /\ \E a \in sync[p].todo :
       /\ First(sync[p].todo, a)
       /\ ~Raises(a)
       /\ Perform(a) \/ FailsSilently(a)
       /\ sync' = [sync EXCEPT ![p].todo = @ \ {a},
                               ![p].mem = Updated(@, sync[p].want, exists')]
  /\ UNCHANGED <<desired, stateFile, session, home, fileVars, jobs, editsLeft>>

\* A command run with check=True fails: the exception leaves the program and
\* nothing of this run reaches users-state.yml.
ReconcileRaises(p) ==
  /\ At(p, "reconcile")
  /\ \E a \in sync[p].todo :
       /\ First(sync[p].todo, a)
       /\ \/ Raises(a) /\ UNCHANGED faultsLeft
          \/ a = "create_unix_user" /\ Fault("useradd")
          \/ a = "ensure_data_dir" /\ Fault("datadir")
  /\ EndSync(p)
  /\ UNCHANGED <<desired, stateFile, worldVars, fileVars, jobs, editsLeft>>

\* sync_users_cmd writes users-state.yml once more when every action is done.
FinishSync(p) ==
  /\ At(p, "reconcile") /\ sync[p].todo = {}
  /\ Persist(sync[p].mem)
  /\ EndSync(p)
  /\ UNCHANGED <<desired, worldVars, fileVars, jobs, faultsLeft, editsLeft>>
-----------------------------------------------------------------------------
(* The inactive lifecycle: _apply_inactive_lifecycle.                      *)

\* Set archive_state in the copy of the entry and persist it.
Record(p, archiveState, phase) ==
  LET entry == [sync[p].mem EXCEPT !.archive = archiveState]
  IN  /\ Persist(entry)
      /\ sync' = [sync EXCEPT ![p].mem = entry, ![p].pc = phase]

AlreadyTombstoned(p) ==
  /\ At(p, "lifecycle")
  /\ sync[p].mem.archive = "tombstoned" /\ ~exists
  /\ Goto(p, "reconcile")
  /\ UNCHANGED <<desired, stateFile, worldVars, fileVars, jobs, faultsLeft, editsLeft>>

\* The account is missing without a tombstone, or no hook is installed where
\* one is required and no local-only token was given.
RefuseLifecycle(p) ==
  /\ At(p, "lifecycle")
  /\ \/ ~exists /\ sync[p].mem.archive # "tombstoned"
     \/ exists /\ BackupRequired /\ ~HookInstalled
  /\ EndSync(p)
  /\ UNCHANGED <<desired, stateFile, worldVars, fileVars, jobs, faultsLeft, editsLeft>>

\* Mutant: archive_local_only is taken from the policy, not from the waiver.
BeginForgettingWaiver(p, waive) ==
  /\ At(p, "lifecycle")
  /\ exists
  /\ waive => WaiverAllowed
  /\ BackupRequired => HookInstalled \/ waive
  /\ LET key == <<sync[p].mem.status, sync[p].mem.archive>>
         entry == [status |-> "inactive", archive |-> "archive_pending",
                   path |-> key, localOnly |-> ~BackupRequired]
     IN  /\ Persist(entry)
         /\ sync' = [sync EXCEPT ![p].pc = "scancel", ![p].mem = entry,
                                 ![p].key = key, ![p].waived = waive]
  /\ UNCHANGED <<desired, worldVars, fileVars, jobs, faultsLeft, editsLeft>>

BeginLifecycle(p, waive) ==
  /\ At(p, "lifecycle")
  /\ exists
  /\ waive => WaiverAllowed
  /\ BackupRequired => HookInstalled \/ waive
  /\ LET key == <<sync[p].mem.status, sync[p].mem.archive>>
         entry == [status |-> "inactive", archive |-> "archive_pending",
                   path |-> key, localOnly |-> waive \/ ~BackupRequired]
     IN  /\ Persist(entry)
         /\ sync' = [sync EXCEPT ![p].pc = "scancel", ![p].mem = entry,
                                 ![p].key = key, ![p].waived = waive]
  /\ UNCHANGED <<desired, worldVars, fileVars, jobs, faultsLeft, editsLeft>>

CancelJobs(p) ==
  /\ At(p, "scancel")
  /\ Unchecked("scancel", userJob, FALSE)
  /\ Goto(p, "lock")
  /\ UNCHANGED <<desired, stateFile, unixVars, assoc, session, home, fileVars,
                 jobs, editsLeft>>

\* Mutant: the account is not locked before it is archived.
LockNothing(p) ==
  /\ At(p, "lock")
  /\ Goto(p, "disable")
  /\ UNCHANGED <<desired, stateFile, unixVars, assoc, userVars, fileVars,
                 jobs, faultsLeft, editsLeft>>

LockAccount(p) ==
  /\ At(p, "lock")
  /\ Unchecked("usermod", locked, TRUE)
  /\ Goto(p, "disable")
  /\ UNCHANGED <<desired, stateFile, exists, dataLocked, assoc, userVars, fileVars,
                 jobs, editsLeft>>

DisableAssociation(p) ==
  /\ At(p, "disable")
  /\ Unchecked("sacctmgr", assoc, FALSE)
  /\ Goto(p, "lockdata")
  /\ UNCHANGED <<desired, stateFile, unixVars, userVars, fileVars, jobs, editsLeft>>

LockDataDir(p) ==
  /\ At(p, "lockdata")
  /\ dataLocked' = TRUE
  /\ Goto(p, "mark_running")
  /\ UNCHANGED <<desired, stateFile, exists, locked, assoc, userVars, fileVars,
                 jobs, faultsLeft, editsLeft>>

MarkRunning(p) ==
  /\ At(p, "mark_running")
  /\ Record(p, "archive_running", "payload")
  /\ UNCHANGED <<desired, worldVars, fileVars, jobs, faultsLeft, editsLeft>>

LocalOnly(p) == sync[p].waived \/ ~BackupRequired

Free(j) == jobs[j].stage = "none" /\ \A p \in Procs : sync[p].job # j

\* _run_archive_job_via_slurm: the payload file of the key is overwritten, then
\* the job is submitted, then its id persisted.  A result file that an earlier
\* job of the same key has written stays in place.
WritePayload(p) ==
  /\ At(p, "payload")
  /\ payload' = [payload EXCEPT ![sync[p].key] = LocalOnly(p)]
  /\ Goto(p, "submit")
  /\ UNCHANGED <<desired, stateFile, worldVars, archive, backedUp, result, jobs,
                 faultsLeft, editsLeft>>

SubmitArchive(p, j) ==
  /\ At(p, "submit") /\ Free(j)
  /\ jobs' = [jobs EXCEPT ![j] = [NoJob EXCEPT !.stage = "queued", !.key = sync[p].key]]
  /\ sync' = [sync EXCEPT ![p].pc = "record_job", ![p].job = j]
  /\ UNCHANGED <<desired, stateFile, worldVars, fileVars, faultsLeft, editsLeft>>

RecordJob(p) ==
  /\ At(p, "record_job")
  /\ Persist(sync[p].mem)
  /\ Goto(p, "wait")
  /\ UNCHANGED <<desired, worldVars, fileVars, jobs, faultsLeft, editsLeft>>

Queued(j) == jobs[j].stage # "none"
BeingWritten(k) == \E j \in Slots : jobs[j].stage = "report" /\ jobs[j].key = k

\* Mutant: the wait ends as soon as there is a result file.
ResultIsThere(p) == result[sync[p].key] # "none" \/ ~Queued(sync[p].job)

\* _wait_for_archive_job: poll until the job has left the queue.
JobHasLeft(p) == ~Queued(sync[p].job)

\* The wait also ends when squeue fails once, or after 7200 s; then the result
\* file is read, whichever job wrote it.  A file read while it is being
\* written is not valid JSON and counts as a failure.
CollectResult(p) ==
  /\ At(p, "wait")
  /\ \/ JobHasLeft(p) /\ UNCHANGED faultsLeft
     \/ Queued(sync[p].job) /\ (Fault("squeue") \/ Fault("timeout"))
  /\ \E r \in {result[sync[p].key]}
              \union {x \in {"failed"} : BeingWritten(sync[p].key)} :
       sync' = [sync EXCEPT ![p].pc = "collected", ![p].got = r]
  /\ UNCHANGED <<desired, stateFile, worldVars, fileVars, jobs, editsLeft>>

JobFailed(p) ==
  /\ At(p, "collected") /\ sync[p].got \in {"none", "failed", "hook_failed"}
  /\ Record(p, IF sync[p].got = "hook_failed" THEN "backup_failed" ELSE "archive_running",
            "reconcile")
  /\ UNCHANGED <<desired, worldVars, fileVars, jobs, faultsLeft, editsLeft>>

\* Mutant: an archive whose backup hook failed is good enough.
ArchiveSuffices(p) ==
  /\ At(p, "collected") /\ sync[p].got \in {"archived", "backed_up", "hook_failed"}
  /\ Record(p, "archived_local_only", "mark_ready")
  /\ UNCHANGED <<desired, worldVars, fileVars, jobs, faultsLeft, editsLeft>>

JobSucceeded(p) ==
  /\ At(p, "collected") /\ sync[p].got \in {"archived", "backed_up"}
  /\ IF LocalOnly(p) THEN Record(p, "archived_local_only", "mark_ready")
                     ELSE Record(p, "archive_running", "backup")
  /\ UNCHANGED <<desired, worldVars, fileVars, jobs, faultsLeft, editsLeft>>

CheckBackup(p) ==
  /\ At(p, "backup")
  /\ IF sync[p].got = "backed_up" THEN Record(p, "backup_complete", "mark_ready")
                                  ELSE Record(p, "backup_failed", "reconcile")
  /\ UNCHANGED <<desired, worldVars, fileVars, jobs, faultsLeft, editsLeft>>

\* Mutant: an archive state that the rest of the program does not know.
MarkUnknown(p) ==
  /\ At(p, "mark_ready")
  /\ Record(p, "ready", "terminate")
  /\ UNCHANGED <<desired, worldVars, fileVars, jobs, faultsLeft, editsLeft>>

MarkReady(p) ==
  /\ At(p, "mark_ready")
  /\ Record(p, "removal_ready", "terminate")
  /\ UNCHANGED <<desired, worldVars, fileVars, jobs, faultsLeft, editsLeft>>

TerminateSessions(p) ==
  /\ At(p, "terminate")
  /\ Unchecked("loginctl", session, FALSE)
  /\ Goto(p, "userdel")
  /\ UNCHANGED <<desired, stateFile, unixVars, assoc, userJob, home, fileVars,
                 jobs, editsLeft>>

\* userdel refuses to delete a user who is logged in or has a running process.
RemoveAccount(p) ==
  /\ At(p, "userdel") /\ exists /\ ~session
  /\ exists' = FALSE
  /\ Goto(p, "mark_tombstoned")
  /\ UNCHANGED <<desired, stateFile, locked, dataLocked, assoc, userVars, fileVars,
                 jobs, faultsLeft, editsLeft>>

MarkTombstoned(p) ==
  /\ At(p, "mark_tombstoned")
  /\ Record(p, "tombstoned", "reconcile")
  /\ UNCHANGED <<desired, worldVars, fileVars, jobs, faultsLeft, editsLeft>>

\* A step that checks its command fails: archive_last_error is recorded, the
\* entry is persisted as it stands and the exception ends the program.
LifecycleRaises(p) ==
  /\ \/ At(p, "lockdata") /\ Fault("datadir")
     \/ At(p, "submit") /\ Fault("sbatch")
     \/ At(p, "userdel") /\ exists /\ Fault("userdel")
     \/ At(p, "userdel") /\ (exists => session \/ userJob) /\ UNCHANGED faultsLeft
  /\ Persist(sync[p].mem)
  /\ EndSync(p)
  /\ UNCHANGED <<desired, worldVars, fileVars, jobs, editsLeft>>

Crash(p) ==
  /\ ~At(p, "idle")
  /\ Fault("crash")
  /\ EndSync(p)
  /\ UNCHANGED <<desired, stateFile, worldVars, fileVars, jobs, editsLeft>>

ReconcileStep(p) == Reconcile(p) \/ ReconcileRaises(p) \/ FinishSync(p)

LifecycleStep(p) ==
  \/ AlreadyTombstoned(p) \/ RefuseLifecycle(p)
  \/ \E waive \in BOOLEAN : BeginLifecycle(p, waive)
  \/ CancelJobs(p) \/ LockAccount(p) \/ DisableAssociation(p) \/ LockDataDir(p)
  \/ MarkRunning(p)
  \/ WritePayload(p)
  \/ \E j \in Slots : SubmitArchive(p, j)
  \/ RecordJob(p) \/ CollectResult(p) \/ JobFailed(p) \/ JobSucceeded(p) \/ CheckBackup(p)
  \/ MarkReady(p) \/ TerminateSessions(p) \/ RemoveAccount(p) \/ MarkTombstoned(p)
  \/ LifecycleRaises(p)

SyncStep(p) == ReconcileStep(p) \/ LifecycleStep(p)
-----------------------------------------------------------------------------
(* The archive job: run_archive_runner_payload.                            *)

\* Mutant: an older archive is deleted before the new one is made.
RunnerStartsAfresh(j) ==
  /\ jobs[j].stage = "queued"
  /\ archive' = [archive EXCEPT ![jobs[j].key] = None]
  /\ jobs' = [jobs EXCEPT ![j].stage = "archiving", ![j].snap = home,
                          ![j].local = payload[jobs[j].key]]
  /\ UNCHANGED <<desired, stateFile, worldVars, payload, backedUp, result, sync,
                 faultsLeft, editsLeft>>

\* Reads the payload, prunes the home directory, starts the compressor.
RunnerStarts(j) ==
  /\ jobs[j].stage = "queued"
  /\ jobs' = [jobs EXCEPT ![j].stage = "archiving", ![j].snap = home,
                          ![j].local = payload[jobs[j].key]]
  /\ UNCHANGED <<desired, stateFile, worldVars, fileVars, sync, faultsLeft, editsLeft>>

\* The compressor updates the .7z file of the key to the directory as it was
\* when it started.
RunnerArchives(j) ==
  /\ jobs[j].stage = "archiving"
  /\ archive' = [archive EXCEPT ![jobs[j].key] = jobs[j].snap]
  /\ jobs' = [jobs EXCEPT ![j].stage = IF jobs[j].local THEN "report" ELSE "hook",
                          ![j].out = "archived"]
  /\ UNCHANGED <<desired, stateFile, worldVars, payload, backedUp, result, sync,
                 faultsLeft, editsLeft>>

RunnerBacksUp(j) ==
  /\ jobs[j].stage = "hook"
  /\ backedUp' = [backedUp EXCEPT ![jobs[j].key] = archive[jobs[j].key]]
  /\ jobs' = [jobs EXCEPT ![j].stage = "report", ![j].out = "backed_up"]
  /\ UNCHANGED <<desired, stateFile, worldVars, payload, archive, result, sync,
                 faultsLeft, editsLeft>>

\* Mutant: a failed job cleans up after itself.
RunnerCleansUp(j) ==
  /\ \/ /\ jobs[j].stage = "hook" /\ Fault("hook")
        /\ \E out \in {"hook_failed", "failed"} :
             jobs' = [jobs EXCEPT ![j].stage = "report", ![j].out = out]
     \/ /\ jobs[j].stage = "archiving" /\ Fault("archive")
        /\ jobs' = [jobs EXCEPT ![j].stage = "report", ![j].out = "failed"]
  /\ archive' = [archive EXCEPT ![jobs[j].key] = None]
  /\ UNCHANGED <<desired, stateFile, worldVars, payload, backedUp, result, sync, editsLeft>>

\* The hook exits non-zero or times out, or cannot be started at all, which
\* is reported as if there were no archive; or the compressor fails.
RunnerFails(j) ==
  /\ \/ /\ jobs[j].stage = "hook" /\ Fault("hook")
        /\ \E out \in {"hook_failed", "failed"} :
             jobs' = [jobs EXCEPT ![j].stage = "report", ![j].out = out]
     \/ /\ jobs[j].stage = "archiving" /\ Fault("archive")
        /\ jobs' = [jobs EXCEPT ![j].stage = "report", ![j].out = "failed"]
  /\ UNCHANGED <<desired, stateFile, worldVars, fileVars, sync, editsLeft>>

RunnerReports(j) ==
  /\ jobs[j].stage = "report"
  /\ result' = [result EXCEPT ![jobs[j].key] = jobs[j].out]
  /\ jobs' = [jobs EXCEPT ![j] = NoJob]
  /\ UNCHANGED <<desired, stateFile, worldVars, payload, archive, backedUp, sync,
                 faultsLeft, editsLeft>>

\* The job leaves the queue before it is done: node failure, time or memory
\* limit, cancellation.  It may leave half a result file.
JobLost(j) ==
  /\ Queued(j)
  /\ Fault("joblost")
  /\ \/ UNCHANGED result
     \/ /\ jobs[j].stage = "report"
        /\ result' = [result EXCEPT ![jobs[j].key] = "failed"]
  /\ jobs' = [jobs EXCEPT ![j] = NoJob]
  /\ UNCHANGED <<desired, stateFile, worldVars, payload, archive, backedUp, sync,
                 editsLeft>>

RunnerStep(j) ==
  RunnerStarts(j) \/ RunnerArchives(j) \/ RunnerBacksUp(j) \/ RunnerFails(j)
  \/ RunnerReports(j)

UserStep == LogIn \/ SubmitJob \/ WriteHome \/ LogOut \/ JobEnds

Next ==
  \/ EditUsersYml
  \/ UserStep
  \/ \E p \in Procs : Load(p) \/ SyncStep(p) \/ Crash(p)
  \/ \E j \in Slots : RunnerStep(j) \/ JobLost(j)

Spec == Init /\ [][Next]_vars

\* A started sync process and a submitted job make progress, and an
\* administrator runs ssn-sync-users again as long as there is work.
Fairness ==
  /\ \A p \in Procs : WF_vars(Load(p)) /\ WF_vars(SyncStep(p))
  /\ \A j \in Slots : WF_vars(RunnerStep(j))

FairSpec == Spec /\ Fairness
-----------------------------------------------------------------------------
(* What must hold.                                                         *)

\* The archive a process is about to remove the account on.
Evidence(p) ==
  /\ archive[sync[p].key] # None
  /\ LocalOnly(p) \/ backedUp[sync[p].key] # None

\* What an archive job reports of a key is true of the files, and stays true.
Attests(report, k) ==
  /\ report \in {"archived", "backed_up"} => archive[k] # None
  /\ report = "backed_up" => backedUp[k] # None

\* Nobody is told of an archive or a replica that does not exist: neither by a
\* result file, however old, nor by a job about to report, nor by a process
\* that has read a result and acts on it several commands later
\* (_run_archive_job_via_slurm, run_archive_runner_payload).
ReportsAreTrue ==
  /\ \A k \in Keys : Attests(result[k], k)
  /\ \A j \in Slots :
       /\ jobs[j].stage = "archiving" => jobs[j].snap # None
       /\ jobs[j].stage = "hook" => archive[jobs[j].key] # None
       /\ jobs[j].stage = "report" => Attests(jobs[j].out, jobs[j].key)
  /\ \A p \in Procs :
       /\ sync[p].pc \in {"collected", "backup"} => Attests(sync[p].got, sync[p].key)
       /\ sync[p].pc = "backup" => sync[p].got \in {"archived", "backed_up"}
       /\ sync[p].pc \in {"mark_ready", "terminate", "userdel"} => Evidence(p)

\* The account is only ever deleted by a process whose archive file exists and
\* has been through the backup hook, unless replication is waived or not
\* required, whatever crashed, failed or was lost before
\* (_apply_inactive_lifecycle, docs/decisions.md:417).
RemovalHasEvidence ==
  [][exists /\ ~exists' => \E p \in Procs : At(p, "userdel") /\ Evidence(p)]_vars

\* While the account is gone, users-state.yml names an archive that exists and
\* that is backed up, or says that it is local only: what an administrator
\* would restore from (archive_path, archive_local_only).
RemovedUserIsRestorable ==
  ~exists =>
    /\ stateFile.path # None
    /\ archive[stateFile.path] # None
    /\ stateFile.localOnly \/ backedUp[stateFile.path] # None

\* The archive of a removed account holds the home directory as the user left
\* it: retries, failed hooks and reactivations never leave an older one behind
\* (_wait_for_archive_job must not accept what an earlier job reported).
RemovedHomeIsCurrent ==
  [][exists /\ ~exists' => \E p \in Procs : At(p, "userdel")
                             /\ archive[sync[p].key] = home]_vars

\* An archive job prunes a home directory only while its owner is locked out:
\* it deletes caches and environments a working user would miss.
PruneOnlyWhileLocked ==
  [][\A j \in Slots : jobs[j].stage = "queued" /\ jobs'[j].stage = "archiving"
        => locked \/ ~exists]_vars

\* Once users.yml stops changing, reruns of ssn-sync-users bring accounts,
\* Slurm association, data directory and users-state.yml to what it asks for
\* (docs/decisions.md:1136).
Reconciled ==
  CASE desired = "active" -> /\ exists /\ ~locked /\ ~dataLocked /\ assoc
                             /\ stateFile.status = "active"
                             /\ stateFile.archive = "none"
    [] desired = "suspended" -> ~assoc /\ ~userJob /\ (exists => locked /\ stateFile.status = "suspended")
    [] desired = "inactive" -> ~exists /\ stateFile.archive = "tombstoned"
Converges == <>[]Reconciled

\* An archive job starts only when the user has no Slurm job left
\* (docs/decisions.md:191).
ArchiveStartsOnClearQueue ==
  [][\A j \in Slots : jobs[j].stage = "queued" /\ jobs'[j].stage = "archiving"
        => ~userJob]_vars

\* The account is removed only after the archive job of this very run has
\* left the queue (docs/decisions.md:417).
RemovalAfterOwnJob ==
  [][exists /\ ~exists' => \E p \in Procs : At(p, "userdel") /\ JobHasLeft(p)]_vars

\* The lifecycle implements the promise of AccountRetirement.
Durable(files) == {k \in Keys : files[k] # None}
WaivedNow == {sync[p].key : p \in {q \in Procs : sync[q].waived}}
Promise == INSTANCE AccountRetirement WITH
  Archives <- Keys, account <- exists, stored <- Durable(archive),
  replicated <- Durable(backedUp), waived <- WaivedNow
KeepsPromise == Promise!Spec
=============================================================================
