# A verification of slurm-single-node in TLA+

`slurm-single-node` (the `ssn` package, its Ansible roles and the `bin/ssn-*`
wrappers) turns one Linux host into a Slurm cluster: it installs and
reconfigures Slurm, reconciles Unix users with a reviewed `users.yml`, retires
users through an archive job, and takes a GPU node into a CPU-only recovery mode
and back.  It has no daemon of its own.  Every command is a sequence of external
commands (`usermod`, `sacctmgr`, `sbatch`, `scontrol`, `ansible-playbook`) and of
writes to small state files, and every one of these can fail, be interrupted, or
find that Slurm, its users or another administrator have moved in between.  That
is what the modules here are about: one step of a model is one external command
or one write.

Paths below are relative to the repository.  `users.py:979` is
`src/ssn/users.py`, line 979.

## 1. The system

| Component | State it keeps | Operations | What makes it correct |
|---|---|---|---|
| Retirement and return of users, `ssn/users.py`, `cli.sync_users_cmd` | `users.yml` (wanted), `users-state.yml` (reached), the account, its lock, its Slurm association, its data directory; payload, archive and result files per operation hash | plan, reconcile actions, the archive state machine, the archive job, backup hooks | the account goes only on the strength of an archive; reports are true; a rerun reaches what `users.yml` asks |
| User identity, `users.py:253-355, 1489-1738, 1852-1925, 2015-2087` | UIDs, GIDs, groups, memberships, tombstones in `users-state.yml` | validation, plan, allocation, adoption, group reconciliation | the UID of a retired user is not given away and is his again when he returns; a clean sync leaves what `users.yml` asks |
| Service changes, `cli.apply_cmd`, `install.Installer`, `ssn-gpu-recovery`, `ops.py` | the DRAIN flag of the node, `drain_info`, `gpu-recovery-state.json`, reports | queue gate, drain, wait, job actions, ansible, verification, smoke jobs, resume | no drained work beside running jobs; a drain is undone or reported and never undoes the operator's; held jobs come back |
| Plan tokens, `ops.py:390-478` | one JSON record per token | create, validate, mark used | single use, bound to a plan, expiring |
| Scratch cleanup, `storage.py:402-545`; retention cleanup, `safety.py` | report files | report, guarded deletion | deletes what was reviewed, where it may, and not under a job |
| Storage quotas, `storage.py:77-324` | fstab, mount options, active quotas | plan, enable with rollback, recovery commands; fixture quotas | reports are true; a failed enabling leaves the host as it was, or says how to get there |
| Scratch and GPU access of jobs, prolog and epilog, `storage.py:326-389`, `login.py` | unhealthy marker, job directories, GPU mode file, device ACL and its reference files | prolog, epilog, health check, login isolation | a job keeps its GPU until it ends, and not longer; the marker follows the state of /scratch |
| Predecessor, `tesla-scheduler-v2/tools/sync_users.py`, `tesla-tier-change` | `users.csv`, accounts, tier groups, Slurm accounts, NAS directories, daily archives | reconcile active and inactive rows, write UIDs back, change a tier | no home is deleted without an archive; a clean sync reconciles; no writer loses the other's change |
| Login slices, GPU collector, GPU verification, modules, configuration, schema, units, YAML, redaction | none, or a snapshot | reads, checks and pure functions | |
| Ansible roles, wrappers, user kit, CSV validation and bootstrap | - | declarative tasks, examples | |

Components talk through files (`users-state.yml`, the payload and result file of
an archive job, `gpu-recovery-state.json`, report and token files, the GPU mode
file, the marker, `users.csv`), through Slurm (an archive job outlives the sync
that submitted it; a drain holds back the jobs of everybody; prologs and epilogs of
jobs run at the same time) and through the administrator, who runs them and reads
their reports.  No component of the `ssn` package takes a lock.

The hard behaviours, each listed in `PROJECT.json` under `hazards` with its line:
crashes between an external command and the record of it; results of one attempt
read as those of another; commands run with `check=False`; failing queries taken
for an empty answer; a queue or a plan looked at long before it matters; a state
file overwritten by a second attempt or by the actions before the one that reads
it; scripts of two jobs crossing; resumption after every partial failure.

## 2. Modules

| Module | Lines of the code it stands for | Checked by | Proved in |
|---|---|---|---|
| `AccountRetirement`, `InactiveLifecycle` | `users.py` 786-1218 and what calls it | `lifecycle_*`, `archive_queue_not_clear`, `removal_stale_result` | `InactiveLifecycle_proofs` |
| `UserIdentity` | `users.py` 253-355, 723-783, 1489-2087 | `user_identity`, `dropped_group_kept` | `UserIdentity_proofs` |
| `NodeMaintenance` | `cli.py` 228-393, 860-1008; `install.py` 102-332, 482-632; `ops.py` 35-92 | `maintenance` | `NodeMaintenance_proofs` |
| `JobScratch` | prolog, epilog, `storage.py` 326-389, `login.py` 65-188 | `job_scratch` | `JobScratch_proofs` |
| `PlanTokens` | `ops.py` 390-478 | `guarded_cleanup` | `PlanTokens_proofs` |
| `GuardedCleanup` | `storage.py` 402-545, 912-947; `safety.py` 15-195; `cli.py` 1342-1499 | `guarded_cleanup` | `GuardedCleanup_proofs` |
| `StorageQuotas` | `storage.py` 190-324, 545-586, 737-827 | `storage_quotas` | `StorageQuotas_proofs` |
| `CsvSync` | `sync_users.py`, `tesla-tier-change` | `csv_sync`, `tier_change_lost` | `CsvSync_proofs` |

`MC...` modules give constants to the modules they are named for.  `GuardedCleanup`
composes the token protocol with its client: it EXTENDS `PlanTokens`, takes its
actions as the token steps of a cleanup, and implements its specification.
`InactiveLifecycle` and `UserIdentity` cut the same code along two lines: the one
has the archive of one user in every detail, the other has several users and
leaves of an archive only how it ends.

### AccountRetirement

The abstract promise of retirement in four variables: does the account exist,
which archives are stored, which are replicated, which are waived.  `Remove` is
enabled only with a stored archive that is replicated or waived (or with a policy
that asks for no replication).  Nothing is said of jobs, files or retries.

### InactiveLifecycle (with MCInactiveLifecycle and InactiveLifecycle_proofs)

One managed user, any number of `ssn-sync-users --apply` processes, any number of
archive jobs.

| Model | Code |
|---|---|
| `desired`, `EditUsersYml` | the user's status in `users.yml` |
| `stateFile` | the entry in `users-state.yml`: status, `archive_state`, `archive_path`, `archive_local_only` |
| `exists`, `locked`, `assoc`, `dataLocked`, `loggedIn`, `userJob`, `home` | the host: account, lock, Slurm association, data directory, sessions, jobs, version of the home directory |
| `payload`, `archive`, `backedUp`, `result` | the files of an archive job, indexed by operation hash.  `Keys` is what tells two hashes of one user apart, the status and archive state that the state file had (`_inactive_operation_payload`) |
| `sync[p]` | the locals of `apply_user_actions` and `_apply_inactive_lifecycle`: its copy of the entry (`mem`), the actions still to perform, where it is (`pc`), the result it has read |
| `jobs[j]` | an archive job: queued, archiving, in the backup hook, about to report |
| `Load`, `Plan`, `Perform`, `Reconcile`, `FinishSync` | `sync_users_cmd`, `plan_user_sync`, `apply_user_actions`, in the order of the code |
| `BeginLifecycle` .. `MarkTombstoned`, `LifecycleRaises` | the statements of `_apply_inactive_lifecycle`, one action each, and its `except` clause |
| `WritePayload`, `SubmitArchive`, `RecordJob`, `CollectResult` | `_run_archive_job_via_slurm`, `_wait_for_archive_job`, `_archive_job_accounting_state` |
| `RunnerStarts` .. `RunnerReports` | `run_archive_runner_payload` inside the job |
| `Crash`, `JobLost`, `Fault(kind)` | the process is killed, a job dies, a command fails; each kind is a member of `FaultKinds`, and a run says which ones happen |

A command that the code runs with `check=False` continues after its failure
(`Unchecked`), a checked one raises.  The data of an archive is the version of the
home directory it was made from.

### NodeMaintenance (with NodeMaintenance_proofs)

`ssn-apply`, `ssn-install` and `ssn-gpu-recovery enter` and `exit`, which share one
skeleton: look at the queue or drain and wait, change services with ansible,
verify, put the node back, record.

| Model | Code |
|---|---|
| `drained`, `byOperator` | the DRAIN flag, and whether the operator wants it |
| `jobs` | the Slurm queue; a `held` job is pending in squeue.  `GpuJobs` are jobs of test users; enter refuses others (`cli.py:875`) |
| `overlay` | the CPU-only profile is installed |
| `plan` | the reviewed recovery plan with an unspent token: states of the GPU jobs, as its operation hash has them |
| `file` | `gpu-recovery-state.json`: status and the jobs listed as held |
| `run[p]` | a command: kind, mode, where it is, `mine` = `drain_info["initiated_by_ssn"]`, `started` = `apply_started` or `service_change_started`, jobs to act on, jobs held, its smoke job |
| `reported` | the drain in force is in a report (`manual_recovery`, `resume_error`) |
| `faults` | failures left to happen, and whether a blind one has happened (below) |
| `Gate`, `CheckPlan`, `ReadNode`, `DrainNode`, `WaitForJobs`, `ActOnJob` | the gates, `drain_node` in two commands (sinfo, then scontrol), `wait_for_no_active_jobs`, `_apply_recovery_job_actions` |
| `Prepare`, `StartAnsible`, `EndAnsible`, `Verify`, `SubmitSmoke`, `AwaitSmoke`, `ReleaseJob` | the work |
| `ResumeAfterSuccess`, `Record`, `UndoDrain`, `Fail`, `RecordFailure` | the endings: resume, report, undo after a drain timeout, the `except` clauses |

`--check` and `--dry-run` change nothing and are left out.  A run that fails before
its gate is one that does not start.

### UserIdentity (with MCUserIdentity and UserIdentity_proofs)

| Model | Code |
|---|---|
| `doc` | `users.yml`: a row per user (status, explicit uid and gid, groups, `adopt_existing`), and per project group whether it is absent, defined, or defined with adoption |
| `passwd`, `group`, `members` | the host's accounts, GIDs of private and project groups, supplementary members |
| `file`, `proc.mem` | `users-state.yml` on disk and the `state_doc` of the running sync; `gone` folds the archive states into none, leaving and tombstoned |
| `StartSync` | `load_users`, `load_state`, `validate_users` (`ValidDoc`, `NoLocalConflict`), `plan_user_sync` (`Plan`, `MayReturn`); a sync that validation refuses does nothing and is no step |
| `Create`, `SetLock`, `Primary`, `Join`, `Leave`, `Record` | the actions of `apply_user_actions`, each with the `_update_state_for_user` that follows it (`Recorded`) |
| `Retire`, `Userdel`, `Tombstone` | the first write, `userdel` and the last write of `_apply_inactive_lifecycle` |
| `Finish`, `Crash` | the write at the end of `sync_users_cmd`; an exception or a kill, after which the state in memory is lost |
| `Edit`, `ByHand` | edits of `users.yml`; useradd, userdel and gpasswd by an administrator |

The plan is made of a state and a host that the sync then changes: the model keeps
it, as the code does, and carries it out in the order of the names (`Before`, `At`).
The code's one list, which is sorted by name, is a list of steps per user here.
`GroupaddGid` and the choice of
`useradd` are the external rules of shadow-utils.

### JobScratch (with MCJobScratch and JobScratch_proofs)

| Model | Code |
|---|---|
| `phase[j]` | where the prolog or the epilog of job `j` is; `trap` is the EXIT trap, `skipped`, `left` and `lost` are epilogs that read another mode, failed, or never ran |
| `CheckMarker` .. `Grant`, `Trap` | `ssn-job-scratch-prolog.j2` line by line |
| `RemoveDir` .. `Revoke` | `ssn-job-scratch-epilog.j2` line by line; `find` and `setfacl -x` are two steps |
| `refs`, `roots`, `acl` | the reference files of jobs, the directories of users that hold them, the users on the device ACL |
| `mode`, `LoginOpen`, `LoginWrite`, `LoginRestrict` | the GPU mode file, truncated and then written by `apply_login_isolation`, and `apply_gpu_acl_baseline` |
| `marker`, `HealthCheck`, `HealthWrite` | `scratch_health_report` and, later, `write_scratch_health_state` by its verdict |
| `ScratchChanges`, `Reboot` | mounts and unmounts; a reboot empties /run and the device ACL and leaves the mode file |

### PlanTokens and GuardedCleanup (with MCGuardedCleanup and two proof modules)

`PlanTokens` is the abstract protocol: a report in a file that anybody may write, a
token made for it (`CreateToken`), and a command that reads the file, checks the
record, marks it used, works and ends, with a crash possible between any two of
these.  Commands run at the same time; nothing locks the record, and `crossed`
remembers the tokens that two of them have both found unused.  `input` is what
`token_input_hash` digests, and `reviewed` remembers what was in the report when the
token was made.  `GuardedCleanup` refines it for `ssn-scratch-cleanup` and
`ssn-retention-cleanup`:

| Model | Code |
|---|---|
| `ScratchBody`, `RetentionBody`, `Digest` | the reports, and what of them `cleanup_operation_hash` and `retention_operation_hash` cover: not the users |
| `Refuses` | the guards of the three apply functions |
| `Path`, `Resolve` | the scratch modes resolve a candidate before they look at it, the retention mode does not |
| `Deletable` | `_safe_user_cleanup_path` with the candidate's user, `_safe_fixture_cleanup_path`, `_safe_retention_path`, of the path |
| `Skip`, `Take` | the skips, and the choice of a path to delete; in user mode behind the answer of squeue, in the other modes behind none |
| `Remove`, `PassOver` | `is_symlink`, `exists` and the deletion, after the answer |
| `Done` | the report written back over whatever is in the file by then |
| `Touch`, `GrowOld`, `Relink`, `StartJob`, `EndJob` | users and time: an entry is used or made again, ages, is replaced by a link to another entry; jobs come and go |
| `EditReport` | somebody adds a candidate or names other users and leaves the hash as it was |

### StorageQuotas (with StorageQuotas_proofs)

| Model | Code |
|---|---|
| `fstab`, `live`, `on` | quota options per mount in fstab and of the mounted filesystem, the quotas that are active (user, group or both) |
| `plan`, `Current` | `storage-quota-plan.json`, and what a plan made now would say |
| `proc` | the locals of `enable_storage_quotas`: the plan, fstab as it was (`before`), the mounts a loop has still to do |
| `Begin`, `RefuseMount`, `EditFstab`, `Remount`, `QuotaCheck`, `QuotaOn`, `Enabled` | the `try` part, one step per command and mount |
| `Observe`, `Restore`, `RemountBack`, `Restored`, `Report` | the `except` part: which quotas are on, the rollback, what is reported |
| `Recover` | the operator runs the printed `recovery_commands` |
| `Reboot`, `Crash`, `EditByOther` | the host and other administrators |

`quotacheck` refuses a mount with a quota on and `quotaon` acts on user and group
quotas one after the other: a failing one may have turned one of them on.

### CsvSync (with CsvSync_proofs)

| Model | Code |
|---|---|
| `csv`, `tmp` | `users.csv` and the temporary file both writers use |
| `sync` | `main` and `Reconciler`: the rows read at the start, the row in work, whether anything was done |
| `EnsureAccount`, `EnsureGroups`, `EnsureSlurm` | `apply_active`: useradd and the UID written into the row, tier groups, keys and NAS directory, `ensure_slurm_user` |
| `BeginArchive`, `EndArchive`, `RemoveSlurm`, `Userdel` | `apply_inactive`: `archive_home` begins and ends (a crash in between leaves a torn archive), `sacctmgr remove`, `userdel -r` |
| `WriteTmp`, `Replace`, `NothingDone` | `CSVFile.write` |
| `change`, `ChangeSlurm`, `ChangeGroup`, `ChangeCsv`, `ChangeMv` | `tesla-tier-change` |
| `Edit`, `Work`, `NextDay` | the administrator's editor, the user, the calendar |

## 3. Runs

| Run | Instance | Question |
|---|---|---|
| `lifecycle_faults` | 1 sync, 2 archive jobs, 2 edits of `users.yml`, all 14 kinds of failure, 2 failures | types; no report is ever false; evidence before removal; the state file of a removed user names a usable archive; refinement of `AccountRetirement` |
| `lifecycle_orderly` | 1 sync, 1 job, 3 edits, 1 change of the home directory, 2 failures out of the orderly ones, fairness | the archive is current at removal; pruning behind a lock; reruns converge |
| `archive_queue_not_clear` | no failures | refuted: the archive job starts on a clear queue |
| `removal_stale_result` | squeue and userdel may fail | refuted: removal waits for the run's own job |
| `user_identity` | 2 users, 1 project group, 4 IDs, 3 edits, 1 act by hand, 1 failure | UIDs of retired users stay theirs; tombstones stay; a user returns as himself and stays so; clean syncs reconcile |
| `dropped_group_kept` | the same users, group rows, 4 edits, no failures | refuted: the `groups` field is authoritative |
| `maintenance` | 3 commands of any kind and mode in sequence, 1 CPU and 1 GPU job, all 11 kinds of failure, 2 failures, fairness | the invariants and action properties below, and that commands end |
| `job_scratch` | 2 GPU jobs of one user, 3 mounts, reboots or mode switches, 1 failing command, fairness | a job keeps its GPU; access ends; the marker follows /scratch |
| `guarded_cleanup` | 1 user with two files in his cache, a fixture directory and a production artifact, 1 token, 2 commands at once, 2 events (plans, edits, jobs, links, ageing, expiry), 1 failure, 1 crash | one review one operation; deletions were reviewed; jobs keep the cache and tmp of their user; refinement of `PlanTokens` |
| `storage_quotas` | 2 mounts in every initial state, 2 failures, 2 events, fairness | true reports, persistent activation, recovery, retries |
| `csv_sync` | 2 users (one of them restless), 2 tiers, 3 UIDs, 2 days, up to 3 of: 2 edits, 1 tier change, 1 failure, the night; fairness | archive before deletion; clean syncs reconcile; reruns converge |
| `tier_change_lost` | the same without failures | refuted: a tier change is not undone by a sync |

**Bounds.**  Two failures are enough for "a failure, and another one in the
clean-up of it", the longest chain the `except` clauses handle; two archive jobs
are an orphan and its successor; two edits take a user away and back, three let
him leave again.  A changing home directory needs one change to tell a stale
archive from a current one.  In `maintenance` three commands make an enter, a
retried enter and an exit, or an install between a failed and a successful exit.
The bound on Slurm's job count is one of each sort because no property compares
two jobs of the same sort.  In `user_identity` four IDs are one for each user, one
to spare and the group's, so that a tombstone, an explicit ID and an allocation can
compete for one number; three edits retire a user, bring in another and bring the
first back.  In `job_scratch` two jobs of one owner are the smallest crossing of an
epilog with a prolog; jobs of different owners share nothing but the marker, and
the proofs cover any number.  In `guarded_cleanup` the two commands share the one
token, at once or one after the other; the first event is the plan that is reviewed,
the second changes the file, the queue or the entries somewhere under the applies, and
the second file of the user is what a link in the place of the first leads to.
In `storage_quotas` two mounts are one that went well
and one that failed; two events make a reboot, a crash or an edit by another in
any order.  In `csv_sync` the third UID is the one a returning user gets when his
own was taken.  Symmetry is used for archive jobs, commands and the two files of a user and only in
runs without liveness.

**What is excluded, and what happens without the exclusion.**
`lifecycle_orderly` runs with `OrderlyFaults`: no crash, lost job, expired wait or
failing squeue, each of which leaves an orphaned archive job that prunes or
archives later, and no failing `usermod`, after which the home is pruned
unlocked because its result is not looked at (`users.py:873`).
`RemovedHomeIsCurrent` and `PruneOnlyWhileLocked` fail with them.
`RemovedUserIsRestorable`, `TombstoneKeepsUid` and `ReturnsAsHimself` are checked with
one sync process; two concurrent ones overwrite each other's entries (`users.py:1020`).  In
`NodeMaintenance`, `Informed` means that no command has been killed, has taken a
failing `squeue` or `sinfo` for an answer, or has overlooked a failing `scontrol
release`.  Each property that mentions it fails without it: a killed command leaves
its drain and its held jobs on no record, a failing sinfo makes the operator's
drain look like ssn's own, a failing squeue is an empty queue.
`NoJobStartsBesideWork` and `CommandsEnd` hold without it.  `maintenance` has one
command at a time: with two, the one that drained the node resumes it under the
work of the one that found it drained, and `NoJobStartsBesideWork` fails (14 steps,
no failure).  In `JobScratch` a job is `excused` when its own `setfacl` failed or its
reference came between the `find` and the `setfacl -x` of another epilog: the
scripts cannot see that, and `GrantedJobKeepsAcl` fails for such a job.  `SingleUse`
is about tokens that are not `crossed`: without the exclusion TLC has two commands
run on one review in 9 states.  `DeletedWasReviewed` lets the scratch modes delete
where a link in the place of a reviewed candidate has led (`linked`); without that it
fails in 10 states.  `SteadyJobsKeepFiles` is about cache and tmp, about jobs that
were there when the cleanup began and about a squeue that answered: the fixture mode
asks nobody, and deletes only directly below /scratch what is named like a fixture.
In `StorageQuotas` the
properties about reports exclude a command whose look at the active quotas failed
(`blind`), and `RecoveryUndoes` excludes a report that is older than the last reboot
(`rebooted`): booting turns quotas on wherever the failed enable has left the options,
and the report's list of `quotaoff` commands is then too short; the property fails
without the exclusion.  In `UserIdentity` an ID that an administrator handed out with useradd or
freed with userdel is in `byHand`, and `TombstoneKeepsUid` says nothing of a retired
user whose first UID is among them: the sync looks at IDs when it begins and cannot
see what is done by hand under it; `ReturnsAsHimself` lets a sync move an account to
another GID when a group of another name has the one it had, which happens to a
returning user whose GID a `groupadd` has taken earlier in the same sync (without the
exception it fails in 17 steps, without a failure); `SyncReconciles` is about a sync during
which nothing failed and nobody interfered (`hurt`).  In `CsvSync`,
`DeletedHomeIsArchived` is about days without an earlier archive (`fresh`): a torn or
older archive of the same day is taken for good, and the home is deleted.  Its
`SyncReconciles` claims the tier as default account only of a user who has an
association with it (without that it fails in 15 steps), and the UID of the account in
`users.csv`, whatever UID was there.  Who is in `tesla_users` is not modelled, only
that putting a user there may fail.  Only `Restless` users are synced one at a time or edited.

**Fairness.**  A started process goes on (weak fairness of its steps: Python runs
the next statement, and every external command returns), Slurm starts jobs it can
start and ends running ones (time limits), and, in `lifecycle_orderly`, the
administrator runs `ssn-sync-users` again while there is work (`Load`): the docs
make a rerun the way out of a failed sync.  Nothing is assumed of users, operators
or failures.  In `maintenance`, `StartJob` is enabled only on a node that is not
drained, so a pending job on a drained node is never forced to start.  In
`job_scratch`, slurmd finishes the scripts it starts and `ssn-scratch-health` is run
again and again by the operator, whom the messages of the submit filter and the
prolog send there; jobs are not forced to end.  In `storage_quotas` the administrator plans and enables again and
at some time runs the recovery commands; `EnablingConverges` is conditional on plans
that are current when they are used.  In `csv_sync` the whole sync is started again
and again (strong fairness, since a sync for one user may hold the lock whenever it
is looked at).

**What the properties say.**  `ReportsAreTrue`: no result file, job or process
claims an archive or replica that does not exist, however old the file is.
`RemovalHasEvidence`, `RemovedUserIsRestorable`, `RemovedHomeIsCurrent`: what the
removal rests on, what users-state.yml says of it later, that the content is the
last one.  `KeepsPromise`: refinement.  `Converges`: once `users.yml` is stable,
account, association, data directory and state file reach it.
`TombstoneKeepsUid`, `ReturnsAsHimself`: checked when the sync begins, used after the
actions of other users; what a sync remembers, and the lifecycle of another user writes
out half-way through a return, takes no tombstone away, and no later step of a sync
undoes what useradd gave.  `SyncReconciles`
(`UserIdentity` and `CsvSync`): no action of a sync undoes an earlier one, and none acts on what was true only at the start.
`DrainedMeansIdle`: drained work runs on an idle node.  `OperatorDrainSurvives`,
`DrainIsUndoneOrReported`, `OverlayIsOnRecord`: after any success or failure the
node is in service, or drained by the operator, or its report says so; the
CPU-only overlay is never installed under a record that says `normal`.
`HeldJobsComeBack`: a successful exit frees what is on record, over failed exits.
`CommandsEnd`: no wait depends on jobs that depend on the drain.
`GrantedJobKeepsAcl`, `AclEndsWithJobs`, `MarkerFollowsScratch`: GPU access of a job
lasts as long as the job, and submissions are refused exactly while /scratch is bad,
in the end.  `SingleUse`, `AdmittedAsReviewed`, `DeletedWasReviewed`,
`SteadyJobsKeepFiles`: what a review guarantees, over other commands, edits, links
that replace what was reviewed, and jobs.  `EnabledIsTrue`, `RestoredIsTrue`,
`ActivationIsPersistent`, `RecoveryUndoes`, `EnablingConverges`: reports and rollback of
the quotas.  `DeletedHomeIsArchived` and `CsvSync`'s `Converges`: the same questions of
the predecessor.

## 4. Findings

Four claims of the docs and comments are refuted by a run: the queue that is not
clear when archiving starts, the removal on a stale result, the group a user stays
in although users.yml no longer has it, and the tier change that a sync writes over.
`PROJECT.json` quotes each claim beside the lines that break it.

Disagreements that the model shows and that the properties except, so that no run
refutes them; each is a hazard, and the exceptions are those of section 3:

- **Links are followed by the scratch cleanups.**  `Path.resolve` comes before
  `is_symlink` (`storage.py:476-480`, `518-528`), which is then never true: a reviewed
  candidate that a link has replaced has the link's target deleted.
  `docs/production-safety-bridge.md:159` and `docs/storage-quotas.md:96` say that
  links are skipped.  The target is in the same user's cache or tmp, or a fixture.
- **The fixture cleanup asks no queue** (`storage.py:475-490`).  The docs promise the
  look at jobs for the cleanup of users, and for it alone the property claims it.
- **A token can be spent twice at once** (`ops.py:462-476`, no lock).
- **A returning user can end with another GID** (`users.py:1856`, `1730-1738`), against
  `docs/decisions.md:142`, and **a tombstone's GID can be given away**, against
  `docs/decisions.md:143`.
- **A promotion in `users.csv` alone does not happen in Slurm** (`sync_users.py:389`):
  an unchecked `modify` names an account with which the user has no association.
  `src/tesla-scheduler-v2/users/README.md:87` and `sync_users.py:305` say otherwise.
- **A UID in `users.csv` is overwritten** (`sync_users.py:278-281`) when a user returns
  under another one; `sync_users.py:13` says that existing values are preserved.

Further weaknesses among the hazards with a note: a removed account without a
tombstone, a gate looked at too early, smoke jobs on a drained node, held jobs that a
second enter forgets, an archive that is torn, and a job directory that is made on the
root disk when /scratch has gone since the last health check.

## 5. Proofs

Every theorem below is for every value of the constants (sets of processes, users,
jobs, mounts, commands, every bound and every set of failures) that satisfies the
assumptions named in its module.  TLC has checked each invariant on the instances of
section 3 first.

**`InactiveLifecycle_proofs`**: `TypeCorrect`; `ReportsAreAlwaysTrue`
(`Spec => []ReportsAreTrue`); `RemovalNeedsEvidence` (`Spec => RemovalHasEvidence`);
`PromiseKept` (`Spec => KeepsPromise`, the refinement of `AccountRetirement`).
Assumed: `Faults` is a set of known kinds, the bounds are naturals, the policy
constants are Booleans and `None` is neither a version nor a job.

Removal happens several steps after a result has been read, so "there is an archive
when userdel runs" is not inductive by itself.  The inductive invariant is
`TypeOK /\ ReportsAreTrue`: it follows a claim from the job that is about to report
it, through the result file, to the process that has read it and to the one that is
about to remove the account.  It survives orphaned jobs, overwritten payloads and
stale result files because archive files and replicas are never taken away
(`FilesKept`), which is why stale evidence is evidence of something.
`ResultsStayTrue`, `JobsStayTrue` and `SyncsStayTrue` carry the three conjuncts over
a step; `JobFrame` and `SyncFrame` say what a step leaves alone.
`RemovalNeedsEvidence` reads the invariant at the only step that deletes the account
(`AccountChanges`); `PromiseKept` maps every step to one of `AccountRetirement` or a
stutter (`RemovalMaps`, `ReconcileMaps`, `ReviewMaps`, `RunnerMaps`).

Three more theorems need one sync process (`OneSync`), without which they are false:
`RemovedUsersAreRestorable` (`[]RemovedUserIsRestorable`), whatever fails, and, with
orderly failures (`Orderly`: none of the five kinds named under "What is excluded")
and a user who stops working (`UserLeaves`), `PruningIsLocked` and
`RemovedHomesAreCurrent`.  `RestorableInv` says that from the first write of a
retirement on the state file and the copy that the sync holds name the archive of
the same key, and that this archive is usable once the sync has believed a result.
`OrderlyInv` says that the only archive job is the one somebody waits for, that it
runs behind the lock, and that what it reports is of the home as it is; without
`Orderly` an orphaned job breaks the first part, a failing `usermod` the second.

**`NodeMaintenance_proofs`**: `TypeCorrect` for any number of commands at a time;
`DrainedNodeIsIdle`, `OperatorKeepsNode`, `DrainsAreAccountedFor`,
`OverlaysAreOnRecord`, `HeldJobsAreReleased` and `NoJobStartsBeside` under the
hypothesis `OneAtATime` (at most one command runs), without which
`NoJobStartsBesideWork` is false.  The queue is any set of jobs and any number of
commands follow one another.  The inductive invariant `NodeInv` follows the drain from
the look at the node to the report.  While a command is between its drain and its
resume the DRAIN flag is set (`DrainHolds`); what it saw at `sinfo` still holds at
`scontrol` (`DrainIsSeen`); a drain that is nobody's report belongs to the operator or
to the command that runs (`DrainHasOwner`, `MineIsNotTheOperators`); an overlay
that the file does not admit belongs to an enter that has yet to write it
(`OverlayHasOwner`); an exit that has come to its verification has restored the GPU
profile (`ExitHasRestored`) and carries the held jobs of the file until each is
released (`ExitKnowsHeld`).  Each of these is needed because the file, the flag and
the record are written in separate steps.

**`JobScratch_proofs`**: `TypeCorrect`, `GrantedJobs` (`[]GrantedJobKeepsAcl`),
`AccessEnds` (`[]AclEndsWithJobs`), for any number of jobs and owners and any number
of epilogs that fail.  `DeviceInv`: a reference file belongs to a job between its
prolog and its `rm` (`RefsBelongToJobs`); an epilog that is about to revoke found no
reference, so one that exists now came later and its job is `excused`
(`RevokersSawNoRefs`); a user on the ACL has a job that still refers to him, or an
epilog that has yet to look (`AclIsOwed`).

**`PlanTokens_proofs`** and **`GuardedCleanup_proofs`**: `TokensAreSingleUse` and
`OperationsAreReviewed` of the protocol; `CleanupKeepsProtocol`, the refinement, and
with it the same two theorems for the cleanups (`CleanupTokensAreSingleUse`,
`CleanupsAreReviewed`); `DeletionsAreReviewed`, `JobsKeepFiles` and
`CleanupTypeCorrect`.  `TokenInv` ties a record to the review it was made for and a
command that has passed the check to the record, over the time in which anybody may
write the report file.  Two commands that are between check and mark with one token
have crossed (`CrossedIsKnown`), and the record of any other token is still unused
under the one command that is there (`CheckedIsUnused`).  `CleanupInv` adds that
reports, reviews and commands hold reports a plan can have made or an editor left
behind, that a command has the risk its options give, that one at work has a report
whose hash fits its body, that what it still has to delete is in that body, and that
the path it has in hand is one of these candidates or where a link in its place has
led (`WorkIsHashed`, with `LinksKnown` for the links).

**`StorageQuotas_proofs`**: `TypeCorrect`, `ActivationsPersist`, `SuccessIsTrue`
(`EnabledIsTrue`), `RollbackIsTrue` (`RestoredIsTrue`), `RecoveryIsComplete`
(`RecoveryUndoes`).  `QuotaInv`: what the command
has turned on is among the mounts it has put into fstab, and when it gives up either
it sees those quotas and leaves fstab alone, or there are none.  `ProgressInv`: each
loop has finished with the mounts it no longer has to do, and fstab is written back
only when no quota of a selected mount is on.  `ReportIsCurrent`: what a failed report
says is on stays what is on until the report is used or the host is rebooted.

**`CsvSync_proofs`**: `TypeCorrect`, which includes that `useradd` always finds a UID
(`SomeUidIsFree`, by counting: `UidsAssumption` has no more users than UIDs), and
`DeletedHomesAreArchived` (`DeletedHomeIsArchived`).  `ArchiveInv` follows a new
archive from the first byte to `userdel -r`: it is of the home as it is, or the user
has worked since and the archive no longer counts as fresh.
`QuietSyncReconciles` (`SyncReconciles`) needs a second invariant, about a sync that is
not hurt.  `QuietInv`: nobody else is at work (`NobodyElse`), the rows it has read are
still those of `users.csv` (`RowsAreCopied`), each row it has begun is as its row asks,
whatever the rows after it did (`BegunIsDone`), but for the row in work, of which
`RowSoFar` says how far it is at each step.  `AccountsFirst`, that only an account has a
home or groups, is needed because the row of an inactive user without an account is
skipped, and skipped is gone only if nothing was left of him.  The users may work on
their homes all the while.  `NoneAssumption` says that `None` is none of the values it
is told from.

**`UserIdentity_proofs`**: `TypeCorrect`, `TombstonesKeepUids` (`[]TombstoneKeepsUid`),
`UsersReturnAsThemselves` (`ReturnsAsHimself`) and `SyncsReconcile`, for any number of
users and project groups, with failing commands, crashes, edits and work by hand.  The lemmas at the
beginning show what the ID pickers pick (`NextFreeIsFree`, `GroupaddPicksId`) and
how a plan is ordered (`PlanFollows`).  `IdentityInv` carries what was checked when
the sync began to the step that uses it, across the steps of other users: an account
that is still to be created has the memory and the row that were checked
(`CreatesAreReturns`), and a UID that `users.yml` asks for is that of no retired user
and of none whom this sync may yet retire (`AskedIsFree`).  `Kept` is
`TombstoneKeepsUid` of the file and of the state in memory, which `Finish` makes the
file (`MemoryFollowsFile` says what of it a crash loses).  `EntryIsOfAccount` ties an
entry to the account it was made for, `RemovalGoesOn` covers the time between
`userdel` and the tombstone, when the account is gone and its UID is not reserved yet,
and `UidsAreDistinct` makes the UID of the retired account nobody else's to begin with.
That a tombstone stays (`TombstoneStays`, a part of `ReturnsAsHimself`) follows from
the same invariant: an entry in memory that differs from the one in the file is of a
user who is not retired (`MemoryFollowsFile`), hence has an account
(`EntryIsOfAccount`), and with his UID.
That an account stays as it was given (`AccountStaysHis`, another part) needs one more
invariant, `GidsAreOfGroups`: the primary group of every account is a group, over
returns and `groupadd`, because no step of a sync takes a GID from a group
(`GroupsGrow`) but `userdel`, which leaves a group that is somebody's primary one.  When
`_ensure_private_primary_group` finds another GID than that of the private group, the
group that has it is then somebody else's.
`SyncsReconcile` (`SyncReconciles`) rests on `ReconcileInv`: as long as a sync is not
hurt, what an active user lacks is still a step of what is left of his plan, and what is
left asks for nothing he should not have (`OnCourse`).  That is so of the plan as it is made
(`ActivePlan`, with `GroupStepsHave` for the steps `usermod -aG` takes), the step at the
head of a plan provides what it stood for (`StaysOnCourse`), and a step for another
user, his removal included, leaves the account, the groups and the entry as they are
(`OwnCourse`).  An empty rest of every plan then is the property.  `ActiveAreHere`
ties the status of an entry to how far the user's removal has come.

**Only model-checked.**  Liveness, which rests on fairness: `Converges` twice,
`CommandsEnd`, `EnablingConverges` and `MarkerFollowsScratch`.  Every other property of
a passing run is stated by a theorem.

## 6. Not modelled

Inside the components that have a module: the content of files and reports beyond what
the properties tell apart; which paths the prune manifest selects; the expiry and
binding of the `--force` token of `ssn-apply`, which in `NodeMaintenance` is a check
that may refuse and whose protocol is `PlanTokens`; torn writes of `users-state.yml`
and `gpu-recovery-state.json`, which the code writes in place and has no recovery for;
`--check` and `--dry-run`; SSH keys, limits and the Slurm associations of several users
at a time; fixture quotas, each one `setquota` and a look at its result.

Without a module: the slice drop-ins of login isolation and the GPU status collector,
which write what they have read and talk to nobody; redaction, a rewriting of text;
configuration, profiles, schema, units and YAML parsing, which are sequential functions
of files that stay as they are while a command runs, and belong to the unit tests of
the repository; environment modules and CUDA; what ansible installs; the wrappers and
the user kit; validation and bootstrap of `users.csv`.

## 7. Plan

The components in which anything interleaves, fails half-way or is resumed have a
module.  What is left, most useful first:

1. `UserIdentity` with the Slurm associations of several users, composed with
   `InactiveLifecycle` instead of its folded archive states.
2. Fixture quotas as a second client of the quota state of `StorageQuotas`.
3. Pure functions against reference definitions: `deep_merge`, unit parsing, the
   fixture path guards.
