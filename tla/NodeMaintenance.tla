-------------------------- MODULE NodeMaintenance --------------------------
(***************************************************************************)
(* The commands that change the services of the node: ssn-apply            *)
(* (cli.apply_cmd), ssn-install (install.Installer) and ssn-gpu-recovery   *)
(* enter / exit (cli._gpu_recovery_enter, _gpu_recovery_exit).  Each of    *)
(* them first makes sure that no Slurm job is in its way, by looking at    *)
(* the queue or by draining the node and waiting, then runs                *)
(* ansible-playbook, and puts the node back into service if it was the one *)
(* that drained it.  GPU recovery also holds the pending GPU jobs and      *)
(* remembers them in gpu-recovery-state.json until it is left again.       *)
(*                                                                         *)
(* One step is one external command.  Slurm, its users and the operator of *)
(* the node move between any two of them.                                  *)
(***************************************************************************)
EXTENDS Naturals, FiniteSets

CONSTANTS
  Procs,        \* maintenance commands that may run at the same time
  CpuJobs,      \* Slurm jobs (bound)
  GpuJobs,      \* Slurm jobs of test users that ask for a GPU (bound)
  Modes,        \* subset of {"plain", "force", "drain"} for apply and install
  Kinds,        \* the commands that are used
  SmokeTests,   \* ssn-install runs with a smoke user
  Faults,       \* kinds of failure the environment may produce
  MaxFaults,    \* how many of them (bound)
  MaxRuns,      \* how many commands are started (bound)
  None

FaultKinds ==
  {"crash", "sinfo", "drain", "resume", "squeue", "jobaction", "release",
   "prepare", "ansible", "verify", "smoke"}

AllKinds == {"apply", "install", "enter", "exit"}
Recovery == {"enter", "exit"}
AllModes == {"plain", "force", "drain"}

\* Failures that the commands take for an answer, or do not survive.
BlindFaults == {"crash", "sinfo", "squeue", "release"}

ASSUME SubsetsAssumption ==
  Modes \subseteq AllModes /\ Kinds \subseteq AllKinds /\ Faults \subseteq FaultKinds
ASSUME BoundsAssumption == MaxFaults \in Nat /\ MaxRuns \in Nat
ASSUME SmokeAssumption == SmokeTests \in BOOLEAN
ASSUME JobsAssumption == CpuJobs \intersect GpuJobs = {} /\ None \notin CpuJobs \union GpuJobs

Jobs == CpuJobs \union GpuJobs
JobStates == {"absent", "pending", "held", "running", "done"}

\* What scontrol and scancel are asked to do to the GPU jobs.
JobActions == {"hold", "cancel", "release"}

Phases ==
  {"idle", "gate", "check_plan", "read_node", "drain", "job_actions", "wait", "undo",
   "prepare", "ansible", "applying", "verify", "release", "smoke", "await_smoke",
   "resume", "record", "failed", "record_failure"}

Commands ==
  [kind : AllKinds, mode : AllModes, pc : Phases,
   mine : BOOLEAN,             \* drain_info["initiated_by_ssn"]
   started : BOOLEAN,          \* apply_started, service_change_started
   todo : SUBSET (GpuJobs \X JobActions),
   held : SUBSET GpuJobs,      \* job_actions of the recovery state
   smoke : CpuJobs \union {None}]

VARIABLES
  drained,    \* the DRAIN flag of the node
  byOperator, \* the operator wants it drained
  jobs,       \* the Slurm queue
  overlay,    \* the CPU-only profile is installed
  plan,       \* the reviewed recovery plan: GPU jobs and their states
  file,       \* gpu-recovery-state.json
  run,        \* the commands
  reported,   \* the drain in force is in a report, with the way out of it
  faults,     \* failures left, and whether a blind one has happened
  runsLeft

slurm == <<drained, byOperator, jobs, overlay>>
vars == <<drained, byOperator, jobs, overlay, plan, file, run, reported,
          faults, runsLeft>>

NotRunning == [kind |-> "apply", mode |-> "plain", pc |-> "idle",
               mine |-> FALSE, started |-> FALSE, todo |-> {}, held |-> {}, smoke |-> None]

Statuses == {"normal", "cpu_only", "failed_enter", "failed_exit"}
Views == [GpuJobs -> JobStates]

TypeOK ==
  /\ drained \in BOOLEAN /\ byOperator \in BOOLEAN /\ overlay \in BOOLEAN
  /\ reported \in BOOLEAN
  /\ jobs \in [Jobs -> JobStates]
  /\ plan \in Views \union {None}
  /\ file \in [status : Statuses, held : SUBSET GpuJobs]
  /\ run \in [Procs -> Commands]
  /\ faults \in [left : 0 .. MaxFaults, blind : BOOLEAN]
  /\ runsLeft \in 0 .. MaxRuns

\* A node in service with its reviewed profile and an empty queue.
Init ==
  /\ drained = FALSE
  /\ byOperator = FALSE
  /\ jobs = [j \in Jobs |-> "absent"]
  /\ overlay = FALSE
  /\ plan = None
  /\ file = [status |-> "normal", held |-> {}]
  /\ run = [p \in Procs |-> NotRunning]
  /\ reported = FALSE
  /\ faults = [left |-> MaxFaults, blind |-> FALSE]
  /\ runsLeft = MaxRuns
-----------------------------------------------------------------------------
(* Slurm, its users, the operator, and what may go wrong.                  *)

Fault(kind) ==
  /\ kind \in Faults /\ faults.left > 0
  /\ faults' = [left |-> faults.left - 1, blind |-> faults.blind \/ kind \in BlindFaults]

At(p, phase) == run[p].pc = phase
NobodyRuns == \A p \in Procs : At(p, "idle")

Queued == {j \in Jobs : jobs[j] \in {"pending", "held", "running"}}
Active == {j \in Jobs : jobs[j] = "running"}

SubmitJob(j) ==
  /\ jobs[j] = "absent"
  /\ j \in GpuJobs => ~overlay
  /\ jobs' = [jobs EXCEPT ![j] = "pending"]
  /\ UNCHANGED <<drained, byOperator, overlay, plan, file, run, reported,
                 faults, runsLeft>>

StartJob(j) ==
  /\ jobs[j] = "pending" /\ ~drained
  /\ j \in GpuJobs => ~overlay
  /\ jobs' = [jobs EXCEPT ![j] = "running"]
  /\ UNCHANGED <<drained, byOperator, overlay, plan, file, run, reported,
                 faults, runsLeft>>

EndJob(j) ==
  /\ jobs[j] = "running"
  /\ jobs' = [jobs EXCEPT ![j] = "done"]
  /\ UNCHANGED <<drained, byOperator, overlay, plan, file, run, reported,
                 faults, runsLeft>>

\* An operator keeps his hands off the node while ssn works on it.
OperatorDrains ==
  /\ NobodyRuns /\ ~drained
  /\ drained' = TRUE
  /\ byOperator' = TRUE
  /\ UNCHANGED <<jobs, overlay, plan, file, run, reported, faults, runsLeft>>

\* scontrol update State=RESUME by hand.
OperatorResumes ==
  /\ NobodyRuns /\ drained
  /\ drained' = FALSE
  /\ byOperator' = FALSE
  /\ reported' = FALSE
  /\ UNCHANGED <<jobs, overlay, plan, file, run, faults, runsLeft>>

\* gpu_recovery_plan: what the plan's operation hash depends on.
GpuView == [j \in GpuJobs |-> IF jobs[j] \in {"absent", "done"} THEN "absent"
                              ELSE IF jobs[j] = "held" THEN "pending" ELSE jobs[j]]

ReviewPlan ==
  /\ "enter" \in Kinds /\ plan # GpuView
  /\ plan' = GpuView
  /\ UNCHANGED <<slurm, file, run, reported, faults, runsLeft>>
-----------------------------------------------------------------------------
(* Starting: the gate of ssn-apply and ssn-install, the plan of a recovery. *)

Goto(p, phase) == run' = [run EXCEPT ![p].pc = phase]
End(p) == run' = [run EXCEPT ![p] = NotRunning]

\* Mutant: a recovery that failed is not taken up again.
HeldByActiveRecovery(kind) ==
  IF kind = "exit" /\ file.status = "cpu_only" THEN file.held ELSE {}

\* _gpu_recovery_exit loads the state file; _gpu_recovery_enter starts a new one.
HeldAtStart(kind) == IF kind = "exit" THEN file.held ELSE {}

FirstPhase(kind, mode) ==
  CASE kind = "enter" -> "check_plan"
    [] kind = "exit" \/ mode = "drain" -> "read_node"
    [] OTHER -> "gate"

Start(p, kind, mode) ==
  /\ At(p, "idle") /\ runsLeft > 0
  /\ kind \in Recovery => mode = "drain"
  /\ run' = [run EXCEPT ![p] = [NotRunning EXCEPT
               !.kind = kind, !.mode = mode, !.pc = FirstPhase(kind, mode),
               !.held = HeldAtStart(kind)]]
  /\ runsLeft' = runsLeft - 1
  /\ UNCHANGED <<slurm, plan, file, reported, faults>>

AfterGate(p) == IF run[p].kind = "install" THEN "prepare" ELSE "ansible"

\* queued_jobs; a squeue that fails shows an empty queue.  With jobs in the
\* queue the command goes on only with --force and a valid token.
Gate(p) ==
  /\ At(p, "gate")
  /\ \/ /\ Queued = {} \/ run[p].mode = "force"
        /\ Goto(p, AfterGate(p))
        /\ UNCHANGED faults
     \/ /\ Queued # {}
        /\ Fault("squeue")
        /\ Goto(p, AfterGate(p))
     \/ /\ Queued # {}
        /\ Goto(p, "failed")
        /\ UNCHANGED faults
  /\ UNCHANGED <<slurm, plan, file, reported, runsLeft>>

Actions(view) ==
  {<<j, IF view[j] = "pending" THEN "hold" ELSE "cancel">> :
     j \in {g \in GpuJobs : view[g] # "absent"}}

\* The token is spent and the operation must still be the reviewed one.
CheckPlan(p) ==
  /\ At(p, "check_plan")
  /\ IF plan = GpuView
     THEN /\ run' = [run EXCEPT ![p].pc = "read_node", ![p].todo = Actions(GpuView)]
          /\ plan' = None
     ELSE End(p) /\ UNCHANGED plan
  /\ UNCHANGED <<slurm, file, reported, faults, runsLeft>>
-----------------------------------------------------------------------------
(* Draining the node and waiting for its jobs: ops.py.                     *)

\* Mutant: a node that is already drained counts as drained by the command.
ReadNodeAsOurs(p) ==
  /\ At(p, "read_node")
  /\ run' = [run EXCEPT ![p].pc = "drain", ![p].mine = TRUE]
  /\ UNCHANGED <<slurm, plan, file, reported, faults, runsLeft>>

\* drain_node, first half: sinfo; no output counts as not drained.
ReadNode(p) ==
  /\ At(p, "read_node")
  /\ \E seen \in BOOLEAN :
       /\ \/ seen = drained /\ UNCHANGED faults
          \/ drained /\ ~seen /\ Fault("sinfo")
       /\ run' = [run EXCEPT ![p].pc = "drain", ![p].mine = ~seen]
  /\ UNCHANGED <<slurm, plan, file, reported, runsLeft>>

\* Mutant: the return code of scontrol is not looked at.
DrainUnchecked(p) ==
  /\ At(p, "drain")
  /\ \/ drained' = TRUE /\ UNCHANGED faults
     \/ Fault("drain") /\ UNCHANGED drained
  /\ Goto(p, IF run[p].kind = "enter" THEN "job_actions" ELSE "wait")
  /\ UNCHANGED <<byOperator, jobs, overlay, plan, file, reported, runsLeft>>

\* drain_node, second half.  When it raises, no drain_info is kept.
DrainNode(p) ==
  /\ At(p, "drain")
  /\ \/ /\ drained' = TRUE
        /\ Goto(p, IF run[p].kind = "enter" THEN "job_actions" ELSE "wait")
        /\ UNCHANGED faults
     \/ /\ Fault("drain")
        /\ run' = [run EXCEPT ![p].pc = "failed", ![p].mine = FALSE]
        /\ UNCHANGED drained
  /\ UNCHANGED <<byOperator, jobs, overlay, plan, file, reported, runsLeft>>

\* _apply_recovery_job_actions: one scontrol hold or scancel; the first that
\* fails ends it, a job that is no longer pending cannot be held.
ActOnJob(p) ==
  /\ At(p, "job_actions")
  /\ \E j \in GpuJobs, a \in {"hold", "cancel"} :
       /\ <<j, a>> \in run[p].todo
       /\ \/ /\ a = "hold" => jobs[j] \in {"pending", "held"}
             /\ jobs' = [jobs EXCEPT ![j] = IF a = "hold" THEN "held" ELSE "done"]
             /\ run' = [run EXCEPT ![p].todo = @ \ {<<j, a>>},
                                   ![p].held = IF a = "hold" THEN @ \union {j} ELSE @]
             /\ UNCHANGED faults
          \/ /\ IF a = "hold" /\ jobs[j] \notin {"pending", "held"}
                THEN UNCHANGED faults ELSE Fault("jobaction")
             /\ Goto(p, "failed")
             /\ UNCHANGED jobs
  /\ UNCHANGED <<drained, byOperator, overlay, plan, file, reported, runsLeft>>

ActionsDone(p) ==
  /\ At(p, "job_actions") /\ run[p].todo = {}
  /\ Goto(p, "wait")
  /\ UNCHANGED <<slurm, plan, file, reported, faults, runsLeft>>

\* Mutant: the wait has no deadline, and pending jobs count as well.
WaitForEmptyQueue(p) ==
  /\ At(p, "wait")
  /\ Queued = {} /\ Goto(p, AfterGate(p))
  /\ UNCHANGED <<slurm, plan, file, reported, faults, runsLeft>>

\* Mutant: the answer of the wait is not looked at.
WaitAndGoOn(p) ==
  /\ At(p, "wait")
  /\ Goto(p, AfterGate(p))
  /\ UNCHANGED <<slurm, plan, file, reported, faults, runsLeft>>

\* wait_for_no_active_jobs; a squeue that fails shows no jobs.  After the
\* timeout ssn-apply and ssn-install resume the node before they fail.
WaitForJobs(p) ==
  /\ At(p, "wait")
  /\ \/ Active = {} /\ Goto(p, AfterGate(p)) /\ UNCHANGED faults
     \/ Active # {} /\ Goto(p, AfterGate(p)) /\ Fault("squeue")
     \/ /\ Active # {}
        /\ Goto(p, IF run[p].kind \notin Recovery /\ run[p].mine THEN "undo" ELSE "failed")
        /\ UNCHANGED faults
  /\ UNCHANGED <<slurm, plan, file, reported, runsLeft>>

\* resume_node, with initiated_by_ssn cleared only when it has worked.
ResumeNode(p, next, otherwise) ==
  \/ /\ drained' = FALSE /\ reported' = FALSE
     /\ run' = [run EXCEPT ![p].pc = next, ![p].mine = FALSE]
     /\ UNCHANGED faults
  \/ /\ Fault("resume")
     /\ Goto(p, otherwise)
     /\ UNCHANGED <<drained, reported>>

UndoDrain(p) ==
  /\ At(p, "undo")
  /\ ResumeNode(p, "failed", "failed")
  /\ UNCHANGED <<byOperator, jobs, overlay, plan, file, runsLeft>>
-----------------------------------------------------------------------------
(* Changing the services.                                                  *)

\* ssn-install between its preflight and ansible: packages, feature gates,
\* rendering, backup, prompts.  Installing packages counts as a change.
Prepare(p) ==
  /\ At(p, "prepare")
  /\ \E packages \in BOOLEAN :
       \/ /\ run' = [run EXCEPT ![p].pc = "ansible", ![p].started = packages]
          /\ UNCHANGED faults
       \/ /\ run' = [run EXCEPT ![p].pc = "failed", ![p].started = packages]
          /\ Fault("prepare")
  /\ UNCHANGED <<slurm, plan, file, reported, runsLeft>>

StartAnsible(p) ==
  /\ At(p, "ansible")
  /\ run' = [run EXCEPT ![p].pc = "applying", ![p].started = TRUE]
  /\ UNCHANGED <<slurm, plan, file, reported, faults, runsLeft>>

\* A play that fails has changed some of it.
EndAnsible(p) ==
  /\ At(p, "applying")
  /\ \/ /\ overlay' = (run[p].kind = "enter")
        /\ Goto(p, IF run[p].kind = "enter" THEN "resume" ELSE "verify")
        /\ UNCHANGED faults
     \/ /\ overlay' \in {overlay, run[p].kind = "enter"}
        /\ Goto(p, "failed")
        /\ Fault("ansible")
  /\ UNCHANGED <<drained, byOperator, jobs, plan, file, reported, runsLeft>>

Verify(p) ==
  /\ At(p, "verify")
  /\ \/ /\ run' = [run EXCEPT
             ![p].pc = CASE run[p].kind = "exit" -> "release"
                         [] run[p].kind = "install" /\ SmokeTests -> "smoke"
                         [] OTHER -> "resume",
             ![p].todo = IF run[p].kind = "exit"
                         THEN run[p].held \X {"release"} ELSE {}]
        /\ UNCHANGED faults
     \/ Goto(p, "failed") /\ Fault("verify")
  /\ UNCHANGED <<slurm, plan, file, reported, runsLeft>>

\* _release_held_jobs: one scontrol release, whose result is not looked at.
ReleaseJob(p) ==
  /\ At(p, "release")
  /\ \E j \in GpuJobs :
       /\ <<j, "release">> \in run[p].todo
       /\ \/ /\ jobs' = [jobs EXCEPT ![j] = IF @ = "held" THEN "pending" ELSE @]
             /\ UNCHANGED faults
          \/ UNCHANGED jobs /\ Fault("release")
       /\ run' = [run EXCEPT ![p].todo = @ \ {<<j, "release">>}]
  /\ UNCHANGED <<drained, byOperator, overlay, plan, file, reported, runsLeft>>

ReleasesDone(p) ==
  /\ At(p, "release") /\ run[p].todo = {}
  /\ Goto(p, "resume")
  /\ UNCHANGED <<slurm, plan, file, reported, faults, runsLeft>>

\* _run_smoke_jobs: an ordinary job of the smoke user.  A pending job of the
\* model may stand for several.
SubmitSmoke(p) ==
  /\ At(p, "smoke")
  /\ \/ \E j \in CpuJobs :
          /\ jobs[j] # "running"
          /\ jobs' = [jobs EXCEPT ![j] = "pending"]
          /\ run' = [run EXCEPT ![p].pc = "await_smoke", ![p].smoke = j]
          /\ UNCHANGED faults
     \/ Goto(p, "failed") /\ Fault("smoke") /\ UNCHANGED jobs
  /\ UNCHANGED <<drained, byOperator, overlay, plan, file, reported, runsLeft>>

\* _wait_for_job_done: 120 seconds are enough for a job that can start.
AwaitSmoke(p) ==
  /\ At(p, "await_smoke")
  /\ \/ run[p].smoke \notin Queued /\ Goto(p, "resume") /\ UNCHANGED faults
     \/ run[p].smoke \in Queued /\ Goto(p, "resume") /\ Fault("squeue")
     \/ run[p].smoke \in Queued /\ Goto(p, "failed")
        /\ IF drained /\ jobs[run[p].smoke] # "running"
           THEN UNCHANGED faults ELSE Fault("smoke")
  /\ UNCHANGED <<slurm, plan, file, reported, runsLeft>>
-----------------------------------------------------------------------------
(* The end of a command.                                                   *)

ResumeAfterSuccess(p) ==
  /\ At(p, "resume")
  /\ IF run[p].mine THEN ResumeNode(p, "record", "failed")
                    ELSE Goto(p, "record") /\ UNCHANGED <<drained, reported, faults>>
  /\ UNCHANGED <<byOperator, jobs, overlay, plan, file, runsLeft>>

\* Mutant: the state keeps the status it was created with.
RecordAsCreated(p) ==
  /\ At(p, "record")
  /\ file' = IF run[p].kind \in Recovery
             THEN [status |-> "entering_cpu_only", held |-> run[p].held] ELSE file
  /\ End(p)
  /\ UNCHANGED <<slurm, plan, reported, faults, runsLeft>>

\* The final report, or gpu-recovery-state.json, in place of what was there.
Record(p) ==
  /\ At(p, "record")
  /\ file' = CASE run[p].kind = "enter" -> [status |-> "cpu_only", held |-> run[p].held]
               [] run[p].kind = "exit" -> [status |-> "normal", held |-> run[p].held]
               [] OTHER -> file
  /\ End(p)
  /\ UNCHANGED <<slurm, plan, reported, faults, runsLeft>>

\* Mutant: initiated_by_ssn is forgotten before the node is resumed.
FailForgettingDrain(p) ==
  /\ At(p, "failed")
  /\ run' = [run EXCEPT ![p].pc = "record_failure", ![p].mine = FALSE]
  /\ UNCHANGED <<slurm, plan, file, reported, faults, runsLeft>>

\* The except clauses: a drain is undone only before services were touched.
Fail(p) ==
  /\ At(p, "failed")
  /\ IF run[p].mine /\ ~run[p].started
     THEN ResumeNode(p, "record_failure", "record_failure")
     ELSE Goto(p, "record_failure") /\ UNCHANGED <<drained, reported, faults>>
  /\ UNCHANGED <<byOperator, jobs, overlay, plan, file, runsLeft>>

\* Mutant: the recovery state is written on success only.
ReportOnly(p) ==
  /\ At(p, "record_failure")
  /\ reported' = (reported \/ run[p].mine)
  /\ End(p)
  /\ UNCHANGED <<slurm, plan, file, faults, runsLeft>>

\* The report, or the state file, of a failed command: manual_recovery or
\* resume_error when its own drain is still in force.
RecordFailure(p) ==
  /\ At(p, "record_failure")
  /\ reported' = (reported \/ run[p].mine)
  /\ file' = CASE run[p].kind = "enter" -> [status |-> "failed_enter", held |-> run[p].held]
               [] run[p].kind = "exit" -> [status |-> "failed_exit", held |-> run[p].held]
               [] OTHER -> file
  /\ End(p)
  /\ UNCHANGED <<slurm, plan, faults, runsLeft>>

Crash(p) ==
  /\ ~At(p, "idle")
  /\ Fault("crash")
  /\ End(p)
  /\ UNCHANGED <<slurm, plan, file, reported, runsLeft>>

Step(p) ==
  \/ Gate(p) \/ CheckPlan(p) \/ ReadNode(p) \/ DrainNode(p) \/ ActOnJob(p)
  \/ ActionsDone(p) \/ WaitForJobs(p) \/ UndoDrain(p) \/ Prepare(p) \/ StartAnsible(p)
  \/ EndAnsible(p) \/ Verify(p) \/ ReleaseJob(p) \/ ReleasesDone(p) \/ SubmitSmoke(p)
  \/ AwaitSmoke(p) \/ ResumeAfterSuccess(p) \/ Record(p) \/ Fail(p) \/ RecordFailure(p)

SlurmStep == \E j \in Jobs : SubmitJob(j) \/ StartJob(j) \/ EndJob(j)

Next ==
  \/ SlurmStep
  \/ OperatorDrains \/ OperatorResumes \/ ReviewPlan
  \/ \E p \in Procs : Step(p) \/ Crash(p)
  \/ \E p \in Procs, k \in Kinds, m \in Modes \union {"drain"} : Start(p, k, m)

Spec == Init /\ [][Next]_vars

\* A command that has been started goes on, and Slurm's time limits end jobs.
Fairness ==
  /\ \A p \in Procs : WF_vars(Step(p))
  /\ \A j \in Jobs : WF_vars(StartJob(j)) /\ WF_vars(EndJob(j))

FairSpec == Spec /\ Fairness
-----------------------------------------------------------------------------
(* What must hold.  Some of it can be asked only of commands that were not *)
(* misled or killed: README.md says which failure breaks it otherwise.     *)

Informed == ~faults.blind

AtWork(p) ==
  run[p].mode = "drain" /\ run[p].pc \in {"prepare", "ansible", "applying", "verify"}

\* A command that drained the node, or found it drained, works on services
\* while no job runs, from the end of its wait to the end of its verification
\* (wait_for_no_active_jobs; docs/ssn-current-status.md:338).
DrainedMeansIdle ==
  \A p \in Procs :
    Informed /\ AtWork(p) => Active = {}

\* The node an operator took out of service stays out of service whatever ssn
\* does meanwhile, succeeding or failing (drain_node, initiated_by_ssn).
OperatorDrainSurvives == Informed /\ byOperator => drained

\* When no command is in progress the node is in service, or the operator has
\* drained it, or the report of the command that did says how to undo it.
DrainIsUndoneOrReported == Informed /\ NobodyRuns /\ drained => byOperator \/ reported

\* A node that runs the CPU-only overlay is on record as such as soon as no
\* command is in progress, whichever step of enter or exit failed.
OverlayIsOnRecord == Informed /\ NobodyRuns /\ overlay => file.status # "normal"

\* When the exit of a recovery succeeds, the jobs on record as held are free
\* again, also when earlier exits failed half-way (_release_held_jobs).
HeldJobsComeBack ==
  [][\A p \in Procs : Informed /\ At(p, "record") /\ run[p].kind = "exit" /\ run'[p].pc = "idle"
        => \A j \in file.held : jobs'[j] # "held"]_vars

\* Whatever fails, seen or unseen, no job starts beside the work of a command
\* that drained the node or found it drained.
NoJobStartsBesideWork ==
  [][\A p \in Procs, j \in Jobs :
        jobs[j] # "running" /\ jobs'[j] = "running" => ~AtWork(p)]_vars

\* Whatever fails, a command ends: it waits for jobs that can end, not for ones
\* that its own drain keeps from starting (wait_for_no_active_jobs,
\* _wait_for_job_done).  With DrainIsUndoneOrReported, no drain lasts unseen.
CommandsEnd == \A p \in Procs : ~At(p, "idle") ~> At(p, "idle")

=============================================================================
