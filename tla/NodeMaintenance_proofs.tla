----------------------- MODULE NodeMaintenance_proofs -----------------------
(***************************************************************************)
(* Proofs about NodeMaintenance: type correctness for any number of        *)
(* commands at the same time, and what holds of the node, of the recovery  *)
(* state and of the held jobs when they run one at a time.                 *)
(***************************************************************************)
EXTENDS NodeMaintenance, TLAPS

LEMMA NotRunningType == NotRunning \in Commands
  BY DEF NotRunning, Commands, AllKinds, AllModes, Phases

\* A failure leaves the counter of failures in its type.
LEMMA FaultType ==
  ASSUME TypeOK, NEW kind, Fault(kind)
  PROVE  faults' \in [left : 0 .. MaxFaults, blind : BOOLEAN]
  BY BoundsAssumption DEF TypeOK, Fault

\* A step that changes the command of one process to one of the type.
LEMMA RunType ==
  ASSUME TypeOK, NEW p \in Procs, NEW c \in Commands, run' = [run EXCEPT ![p] = c]
  PROVE  run' \in [Procs -> Commands]
  BY DEF TypeOK

LEMMA GotoType ==
  ASSUME TypeOK, NEW p \in Procs, NEW phase \in Phases, Goto(p, phase)
  PROVE  run' \in [Procs -> Commands]
  BY DEF TypeOK, Goto, Commands

LEMMA EndType ==
  ASSUME TypeOK, NEW p \in Procs, End(p)
  PROVE  run' \in [Procs -> Commands]
  BY NotRunningType DEF TypeOK, End

\* Two fields of a command change.
LEMMA PhaseMineType ==
  ASSUME TypeOK, NEW p \in Procs, NEW phase \in Phases, NEW b \in BOOLEAN,
         run' = [run EXCEPT ![p].pc = phase, ![p].mine = b]
  PROVE  run' \in [Procs -> Commands]
<1>1. run[p] \in Commands
  BY DEF TypeOK
<1>2. [run[p] EXCEPT !.pc = phase, !.mine = b] \in Commands
  BY <1>1 DEF Commands
<1>3. run' = [run EXCEPT ![p] = [run[p] EXCEPT !.pc = phase, !.mine = b]]
  BY DEF TypeOK
<1>4. QED BY <1>2, <1>3, RunType

LEMMA PhaseStartedType ==
  ASSUME TypeOK, NEW p \in Procs, NEW phase \in Phases, NEW b \in BOOLEAN,
         run' = [run EXCEPT ![p].pc = phase, ![p].started = b]
  PROVE  run' \in [Procs -> Commands]
<1>1. run[p] \in Commands
  BY DEF TypeOK
<1>2. [run[p] EXCEPT !.pc = phase, !.started = b] \in Commands
  BY <1>1 DEF Commands
<1>3. run' = [run EXCEPT ![p] = [run[p] EXCEPT !.pc = phase, !.started = b]]
  BY DEF TypeOK
<1>4. QED BY <1>2, <1>3, RunType

LEMMA PhaseSmokeType ==
  ASSUME TypeOK, NEW p \in Procs, NEW phase \in Phases, NEW j \in CpuJobs,
         run' = [run EXCEPT ![p].pc = phase, ![p].smoke = j]
  PROVE  run' \in [Procs -> Commands]
<1>1. run[p] \in Commands
  BY DEF TypeOK
<1>2. [run[p] EXCEPT !.pc = phase, !.smoke = j] \in Commands
  BY <1>1 DEF Commands
<1>3. run' = [run EXCEPT ![p] = [run[p] EXCEPT !.pc = phase, !.smoke = j]]
  BY DEF TypeOK
<1>4. QED BY <1>2, <1>3, RunType

LEMMA PhaseTodoType ==
  ASSUME TypeOK, NEW p \in Procs, NEW phase \in Phases,
         NEW todo \in SUBSET (GpuJobs \X JobActions),
         run' = [run EXCEPT ![p].pc = phase, ![p].todo = todo]
  PROVE  run' \in [Procs -> Commands]
<1>1. run[p] \in Commands
  BY DEF TypeOK
<1>2. [run[p] EXCEPT !.pc = phase, !.todo = todo] \in Commands
  BY <1>1 DEF Commands
<1>3. run' = [run EXCEPT ![p] = [run[p] EXCEPT !.pc = phase, !.todo = todo]]
  BY DEF TypeOK
<1>4. QED BY <1>2, <1>3, RunType

LEMMA ResumeNodeType ==
  ASSUME TypeOK, NEW p \in Procs, NEW next \in Phases, NEW otherwise \in Phases,
         ResumeNode(p, next, otherwise)
  PROVE  /\ run' \in [Procs -> Commands]
         /\ drained' \in BOOLEAN /\ reported' \in BOOLEAN
         /\ faults' \in [left : 0 .. MaxFaults, blind : BOOLEAN]
<1>1. CASE /\ drained' = FALSE /\ reported' = FALSE
           /\ run' = [run EXCEPT ![p].pc = next, ![p].mine = FALSE]
           /\ UNCHANGED faults
  BY <1>1, PhaseMineType DEF TypeOK
<1>2. CASE Fault("resume") /\ Goto(p, otherwise) /\ UNCHANGED <<drained, reported>>
  BY <1>2, FaultType, GotoType DEF TypeOK
<1>3. QED BY <1>1, <1>2 DEF ResumeNode
-----------------------------------------------------------------------------
(***************************************************************************)
(* Types, action by action.                                                *)
(***************************************************************************)
LEMMA InitType == Init => TypeOK
<1> SUFFICES ASSUME Init PROVE TypeOK
  OBVIOUS
<1>1. run \in [Procs -> Commands]
  BY NotRunningType DEF Init
<1>2. file \in [status : Statuses, held : SUBSET GpuJobs]
  BY DEF Init, Statuses
<1>3. faults \in [left : 0 .. MaxFaults, blind : BOOLEAN] /\ runsLeft \in 0 .. MaxRuns
  BY BoundsAssumption DEF Init
<1>4. jobs \in [Jobs -> JobStates]
  BY DEF Init, JobStates
<1>5. QED BY <1>1, <1>2, <1>3, <1>4 DEF Init, TypeOK

LEMMA SlurmType ==
  ASSUME TypeOK, NEW j \in Jobs, SubmitJob(j) \/ StartJob(j) \/ EndJob(j)
  PROVE  TypeOK'
  BY DEF TypeOK, SubmitJob, StartJob, EndJob, JobStates

LEMMA OperatorType ==
  ASSUME TypeOK, OperatorDrains \/ OperatorResumes \/ ReviewPlan
  PROVE  TypeOK'
<1>1. GpuView \in Views
  BY DEF GpuView, Views, TypeOK, Jobs, JobStates
<1>2. CASE OperatorDrains
  BY <1>2 DEF TypeOK, OperatorDrains
<1>3. CASE OperatorResumes
  BY <1>3 DEF TypeOK, OperatorResumes
<1>4. CASE ReviewPlan
  BY <1>1, <1>4 DEF TypeOK, ReviewPlan, slurm
<1>5. QED BY <1>2, <1>3, <1>4

LEMMA StartType ==
  ASSUME TypeOK, NEW p \in Procs, NEW k \in Kinds, NEW m \in Modes \union {"drain"},
         Start(p, k, m)
  PROVE  TypeOK'
<1>1. HeldAtStart(k) \subseteq GpuJobs /\ FirstPhase(k, m) \in Phases
  BY DEF HeldAtStart, FirstPhase, TypeOK, Phases
<1>2. k \in AllKinds /\ m \in AllModes
  BY SubsetsAssumption DEF AllModes
<1>3. [NotRunning EXCEPT !.kind = k, !.mode = m, !.pc = FirstPhase(k, m),
                         !.held = HeldAtStart(k)] \in Commands
  BY <1>1, <1>2 DEF NotRunning, Commands
<1>4. run' \in [Procs -> Commands]
  BY <1>3 DEF TypeOK, Start
<1>5. runsLeft' \in 0 .. MaxRuns
  BY BoundsAssumption DEF TypeOK, Start
<1>6. QED BY <1>4, <1>5 DEF TypeOK, Start, slurm

LEMMA AfterGateType == \A p : AfterGate(p) \in Phases
  BY DEF AfterGate, Phases

LEMMA GateType ==
  ASSUME TypeOK, NEW p \in Procs, Gate(p) \/ CheckPlan(p)
  PROVE  TypeOK'
<1>1. CASE Gate(p)
  <2>1. run' \in [Procs -> Commands]
    BY <1>1, GotoType, AfterGateType DEF Gate, Phases
  <2>2. faults' \in [left : 0 .. MaxFaults, blind : BOOLEAN]
    BY <1>1, FaultType DEF Gate, TypeOK
  <2>3. QED BY <1>1, <2>1, <2>2 DEF TypeOK, Gate, slurm
<1>2. CASE CheckPlan(p)
  <2>1. Actions(GpuView) \subseteq GpuJobs \X JobActions
    BY DEF Actions, JobActions
  <2>2. run' \in [Procs -> Commands]
    <3>1. CASE plan = GpuView
      <4>1. run' = [run EXCEPT ![p].pc = "read_node", ![p].todo = Actions(GpuView)]
        BY <1>2, <3>1 DEF CheckPlan
      <4>2. "read_node" \in Phases
        BY DEF Phases
      <4>3. QED BY <2>1, <4>1, <4>2, PhaseTodoType
    <3>2. CASE plan # GpuView
      BY <1>2, <3>2, EndType DEF CheckPlan
    <3>3. QED BY <3>1, <3>2
  <2>3. QED BY <1>2, <2>2 DEF TypeOK, CheckPlan, slurm
<1>3. QED BY <1>1, <1>2

LEMMA DrainType ==
  ASSUME TypeOK, NEW p \in Procs, ReadNode(p) \/ DrainNode(p)
  PROVE  TypeOK'
<1>1. CASE ReadNode(p)
  <2>1. PICK seen \in BOOLEAN :
          /\ \/ seen = drained /\ UNCHANGED faults
             \/ drained /\ ~seen /\ Fault("sinfo")
          /\ run' = [run EXCEPT ![p].pc = "drain", ![p].mine = ~seen]
    BY <1>1 DEF ReadNode
  <2>2. run' \in [Procs -> Commands]
    BY <2>1, PhaseMineType DEF Phases
  <2>3. faults' \in [left : 0 .. MaxFaults, blind : BOOLEAN]
    BY <2>1, FaultType DEF TypeOK
  <2>4. QED BY <1>1, <2>2, <2>3 DEF TypeOK, ReadNode, slurm
<1>2. CASE DrainNode(p)
  <2>1. run' \in [Procs -> Commands] /\ drained' \in BOOLEAN
    <3>1. CASE drained' = TRUE /\ Goto(p, IF run[p].kind = "enter" THEN "job_actions" ELSE "wait")
      BY <3>1, GotoType DEF Phases
    <3>2. CASE run' = [run EXCEPT ![p].pc = "failed", ![p].mine = FALSE] /\ UNCHANGED drained
      BY <3>2, PhaseMineType DEF TypeOK, Phases
    <3>3. QED BY <1>2, <3>1, <3>2 DEF DrainNode
  <2>2. faults' \in [left : 0 .. MaxFaults, blind : BOOLEAN]
    BY <1>2, FaultType DEF DrainNode, TypeOK
  <2>3. QED BY <1>2, <2>1, <2>2 DEF TypeOK, DrainNode
<1>3. QED BY <1>1, <1>2

LEMMA JobActionType ==
  ASSUME TypeOK, NEW p \in Procs, ActOnJob(p) \/ ActionsDone(p) \/ ReleaseJob(p) \/ ReleasesDone(p)
  PROVE  TypeOK'
<1>1. CASE ActOnJob(p)
  <2>1. PICK j \in GpuJobs, a \in {"hold", "cancel"} :
       /\ <<j, a>> \in run[p].todo
       /\ \/ /\ a = "hold" => jobs[j] \in {"pending", "held"}
             /\ jobs' = [jobs EXCEPT ![j] = IF a = "hold" THEN "held" ELSE "done"]
             /\ run' = [run EXCEPT ![p].todo = @ \ {<<j, a>>},
                                   ![p].held = IF a = "hold" THEN @ \union {j} ELSE @]
             /\ UNCHANGED faults
          \/ /\ IF a = "hold" /\ jobs[j] \notin {"pending", "held"}
                THEN UNCHANGED faults ELSE Fault("jobaction")
             /\ Goto(p, "failed")
             /\ UNCHANGED jobs
    BY <1>1 DEF ActOnJob
  <2>2. run' \in [Procs -> Commands]
    <3>1. CASE run' = [run EXCEPT ![p].todo = @ \ {<<j, a>>},
                                  ![p].held = IF a = "hold" THEN @ \union {j} ELSE @]
      <4> DEFINE todo == run[p].todo \ {<<j, a>>}
                 held == IF a = "hold" THEN run[p].held \union {j} ELSE run[p].held
      <4>1. run[p] \in Commands
        BY DEF TypeOK
      <4>2. todo \subseteq GpuJobs \X JobActions /\ held \subseteq GpuJobs
        BY <4>1 DEF Commands
      <4>3. [run[p] EXCEPT !.todo = todo, !.held = held] \in Commands
        <5> HIDE DEF todo, held
        <5> QED BY <4>1, <4>2 DEF Commands
      <4>4. run' = [run EXCEPT ![p] = [run[p] EXCEPT !.todo = todo, !.held = held]]
        BY <3>1 DEF TypeOK
      <4> HIDE DEF todo, held
      <4>5. QED BY <4>3, <4>4, RunType
    <3>2. CASE Goto(p, "failed")
      BY <3>2, GotoType DEF Phases
    <3>3. QED BY <2>1, <3>1, <3>2
  <2>3. jobs' \in [Jobs -> JobStates]
    BY <2>1 DEF TypeOK, Jobs, JobStates
  <2>4. faults' \in [left : 0 .. MaxFaults, blind : BOOLEAN]
    BY <2>1, FaultType DEF TypeOK
  <2>5. QED BY <1>1, <2>2, <2>3, <2>4 DEF TypeOK, ActOnJob
<1>2. CASE ActionsDone(p)
  BY <1>2, GotoType DEF ActionsDone, TypeOK, Phases, slurm
<1>3. CASE ReleaseJob(p)
  <2>1. PICK j \in GpuJobs :
       /\ <<j, "release">> \in run[p].todo
       /\ \/ /\ jobs' = [jobs EXCEPT ![j] = IF @ = "held" THEN "pending" ELSE @]
             /\ UNCHANGED faults
          \/ UNCHANGED jobs /\ Fault("release")
       /\ run' = [run EXCEPT ![p].todo = @ \ {<<j, "release">>}]
    BY <1>3 DEF ReleaseJob
  <2>2. run' \in [Procs -> Commands]
    BY <2>1 DEF TypeOK, Commands
  <2>3. jobs' \in [Jobs -> JobStates]
    BY <2>1 DEF TypeOK, Jobs, JobStates
  <2>4. faults' \in [left : 0 .. MaxFaults, blind : BOOLEAN]
    BY <2>1, FaultType DEF TypeOK
  <2>5. QED BY <1>3, <2>2, <2>3, <2>4 DEF TypeOK, ReleaseJob
<1>4. CASE ReleasesDone(p)
  BY <1>4, GotoType DEF ReleasesDone, TypeOK, Phases, slurm
<1>5. QED BY <1>1, <1>2, <1>3, <1>4

LEMMA WaitType ==
  ASSUME TypeOK, NEW p \in Procs, WaitForJobs(p) \/ UndoDrain(p)
  PROVE  TypeOK'
<1>1. CASE WaitForJobs(p)
  <2>1. run' \in [Procs -> Commands]
    BY <1>1, GotoType, AfterGateType DEF WaitForJobs, Phases
  <2>2. faults' \in [left : 0 .. MaxFaults, blind : BOOLEAN]
    BY <1>1, FaultType DEF WaitForJobs, TypeOK
  <2>3. QED BY <1>1, <2>1, <2>2 DEF TypeOK, WaitForJobs, slurm
<1>2. CASE UndoDrain(p)
  BY <1>2, ResumeNodeType DEF UndoDrain, TypeOK, Phases
<1>3. QED BY <1>1, <1>2

LEMMA WorkType ==
  ASSUME TypeOK, NEW p \in Procs, Prepare(p) \/ StartAnsible(p) \/ EndAnsible(p) \/ Verify(p)
  PROVE  TypeOK'
<1>1. CASE Prepare(p)
  <2>1. PICK packages \in BOOLEAN :
       \/ /\ run' = [run EXCEPT ![p].pc = "ansible", ![p].started = packages]
          /\ UNCHANGED faults
       \/ /\ run' = [run EXCEPT ![p].pc = "failed", ![p].started = packages]
          /\ Fault("prepare")
    BY <1>1 DEF Prepare
  <2>2. run' \in [Procs -> Commands]
    BY <2>1, PhaseStartedType DEF Phases
  <2>3. faults' \in [left : 0 .. MaxFaults, blind : BOOLEAN]
    BY <2>1, FaultType DEF TypeOK
  <2>4. QED BY <1>1, <2>2, <2>3 DEF TypeOK, Prepare, slurm
<1>2. CASE StartAnsible(p)
  <2>1. run' \in [Procs -> Commands]
    BY <1>2, PhaseStartedType DEF StartAnsible, Phases
  <2>2. QED BY <1>2, <2>1 DEF TypeOK, StartAnsible, slurm
<1>3. CASE EndAnsible(p)
  <2>1. run' \in [Procs -> Commands]
    BY <1>3, GotoType DEF EndAnsible, Phases
  <2>2. faults' \in [left : 0 .. MaxFaults, blind : BOOLEAN] /\ overlay' \in BOOLEAN
    BY <1>3, FaultType DEF EndAnsible, TypeOK
  <2>3. QED BY <1>3, <2>1, <2>2 DEF TypeOK, EndAnsible
<1>4. CASE Verify(p)
  <2>1. run' \in [Procs -> Commands]
    <3> DEFINE next == CASE run[p].kind = "exit" -> "release"
                         [] run[p].kind = "install" /\ SmokeTests -> "smoke"
                         [] OTHER -> "resume"
               todo == IF run[p].kind = "exit" THEN run[p].held \X {"release"} ELSE {}
    <3>1. next \in Phases
      BY DEF Phases
    <3>2. todo \subseteq GpuJobs \X JobActions
      BY DEF TypeOK, Commands, JobActions
    <3> HIDE DEF next, todo
    <3>3. CASE run' = [run EXCEPT ![p].pc = next, ![p].todo = todo]
      BY <3>1, <3>2, <3>3, PhaseTodoType
    <3>4. CASE Goto(p, "failed")
      BY <3>4, GotoType DEF Phases
    <3>5. QED BY <1>4, <3>3, <3>4 DEF Verify, next, todo
  <2>2. faults' \in [left : 0 .. MaxFaults, blind : BOOLEAN]
    BY <1>4, FaultType DEF Verify, TypeOK
  <2>3. QED BY <1>4, <2>1, <2>2 DEF TypeOK, Verify, slurm
<1>5. QED BY <1>1, <1>2, <1>3, <1>4

LEMMA SmokeType ==
  ASSUME TypeOK, NEW p \in Procs, SubmitSmoke(p) \/ AwaitSmoke(p)
  PROVE  TypeOK'
<1>1. CASE SubmitSmoke(p)
  <2>1. CASE Goto(p, "failed") /\ Fault("smoke") /\ UNCHANGED jobs
    <3>1. run' \in [Procs -> Commands]
      BY <2>1, GotoType DEF Phases
    <3>2. QED BY <1>1, <2>1, <3>1, FaultType DEF TypeOK, SubmitSmoke
  <2>2. ASSUME NEW j \in CpuJobs,
               jobs' = [jobs EXCEPT ![j] = "pending"],
               run' = [run EXCEPT ![p].pc = "await_smoke", ![p].smoke = j],
               UNCHANGED faults
        PROVE  TypeOK'
    <3>1. run' \in [Procs -> Commands]
      BY <2>2, PhaseSmokeType DEF Phases
    <3>2. jobs' \in [Jobs -> JobStates]
      BY <2>2 DEF TypeOK, Jobs, JobStates
    <3>3. QED BY <1>1, <2>2, <3>1, <3>2 DEF TypeOK, SubmitSmoke
  <2>3. QED BY <1>1, <2>1, <2>2 DEF SubmitSmoke
<1>2. CASE AwaitSmoke(p)
  <2>1. run' \in [Procs -> Commands]
    BY <1>2, GotoType DEF AwaitSmoke, Phases
  <2>2. faults' \in [left : 0 .. MaxFaults, blind : BOOLEAN]
    BY <1>2, FaultType DEF AwaitSmoke, TypeOK
  <2>3. QED BY <1>2, <2>1, <2>2 DEF TypeOK, AwaitSmoke, slurm
<1>3. QED BY <1>1, <1>2

LEMMA EndingType ==
  ASSUME TypeOK, NEW p \in Procs,
         ResumeAfterSuccess(p) \/ Record(p) \/ Fail(p) \/ RecordFailure(p) \/ Crash(p)
  PROVE  TypeOK'
<1>1. run[p].held \subseteq GpuJobs /\ run[p].mine \in BOOLEAN
  BY DEF TypeOK, Commands
<1>2. CASE ResumeAfterSuccess(p)
  <2>1. CASE run[p].mine
    BY <1>2, <2>1, ResumeNodeType DEF ResumeAfterSuccess, TypeOK, Phases
  <2>2. CASE ~run[p].mine
    BY <1>2, <2>2, GotoType DEF ResumeAfterSuccess, TypeOK, Phases
  <2>3. QED BY <2>1, <2>2
<1>3. CASE Record(p)
  <2>1. file' \in [status : Statuses, held : SUBSET GpuJobs]
    BY <1>1, <1>3 DEF Record, TypeOK, Statuses
  <2>2. QED BY <1>3, <2>1, EndType DEF TypeOK, Record, slurm
<1>4. CASE Fail(p)
  <2>1. CASE run[p].mine /\ ~run[p].started
    BY <1>4, <2>1, ResumeNodeType DEF Fail, TypeOK, Phases
  <2>2. CASE ~(run[p].mine /\ ~run[p].started)
    BY <1>4, <2>2, GotoType DEF Fail, TypeOK, Phases
  <2>3. QED BY <2>1, <2>2
<1>5. CASE RecordFailure(p)
  <2>1. file' \in [status : Statuses, held : SUBSET GpuJobs]
    BY <1>1, <1>5 DEF RecordFailure, TypeOK, Statuses
  <2>2. QED BY <1>1, <1>5, <2>1, EndType DEF TypeOK, RecordFailure, slurm
<1>6. CASE Crash(p)
  BY <1>6, EndType, FaultType DEF TypeOK, Crash, slurm
<1>7. QED BY <1>2, <1>3, <1>4, <1>5, <1>6

LEMMA NextType == TypeOK /\ [Next]_vars => TypeOK'
<1> SUFFICES ASSUME TypeOK, [Next]_vars PROVE TypeOK'
  OBVIOUS
<1>1. CASE UNCHANGED vars
  BY <1>1 DEF vars, TypeOK
<1>2. CASE SlurmStep
  BY <1>2, SlurmType DEF SlurmStep
<1>3. CASE OperatorDrains \/ OperatorResumes \/ ReviewPlan
  BY <1>3, OperatorType
<1>4. ASSUME NEW p \in Procs, Step(p) \/ Crash(p) PROVE TypeOK'
  BY <1>4, GateType, DrainType, JobActionType, WaitType, WorkType, SmokeType, EndingType DEF Step
<1>5. ASSUME NEW p \in Procs, NEW k \in Kinds, NEW m \in Modes \union {"drain"}, Start(p, k, m)
      PROVE  TypeOK'
  BY <1>5, StartType
<1>6. QED BY <1>1, <1>2, <1>3, <1>4, <1>5 DEF Next

\* Every variable keeps its type, whatever fails and however many commands run
\* at the same time.
THEOREM TypeCorrect == Spec => []TypeOK
  BY InitType, NextType, PTL DEF Spec
-----------------------------------------------------------------------------
(***************************************************************************)
(* One command at a time.  The invariant follows the drain from the look   *)
(* at the node to the report: who has set it (mine), whom it belongs to,   *)
(* and what the file says of the overlay and of the held jobs.             *)
(***************************************************************************)
OneAtATime == \A p, q \in Procs : p = q

IdleIsBlank == \A p \in Procs : At(p, "idle") => run[p] = NotRunning

\* What the phase of a command says about it.
PhasesFit ==
  \A p \in Procs :
    /\ run[p].pc \in {"gate", "check_plan", "read_node", "record"} => ~run[p].mine
    /\ run[p].pc = "gate" => run[p].mode # "drain"
    /\ run[p].pc = "undo" => run[p].mine
    /\ run[p].pc \in {"smoke", "await_smoke"} => run[p].kind = "install"
    /\ run[p].pc = "release" => run[p].kind = "exit"
    /\ run[p].pc = "job_actions" => run[p].kind = "enter"

DrainHolds ==
  \A p \in Procs :
    /\ run[p].mode = "drain"
    /\ run[p].pc \in {"job_actions", "wait", "undo", "prepare", "ansible", "applying", "verify"}
    => drained

MineIsNotTheOperators ==
  \A p \in Procs : Informed /\ run[p].mine => ~byOperator

DrainIsSeen ==
  \A p \in Procs : Informed /\ run[p].pc = "drain" => run[p].mine = ~drained

DrainHasOwner ==
  Informed /\ drained /\ ~byOperator /\ ~reported => \E p \in Procs : run[p].mine

OverlayHasOwner ==
  Informed /\ overlay /\ file.status = "normal" =>
    \E p \in Procs : /\ run[p].kind = "enter"
                     /\ run[p].pc \in {"resume", "record", "failed", "record_failure"}

ExitHasRestored ==
  \A p \in Procs :
    run[p].kind = "exit" /\ run[p].pc \in {"verify", "release", "resume", "record"} => ~overlay

ExitKnowsHeld ==
  \A p \in Procs : run[p].kind = "exit" =>
    /\ run[p].held = file.held
    /\ Informed /\ run[p].pc = "release" =>
         \A j \in file.held : jobs[j] = "held" => <<j, "release">> \in run[p].todo
    /\ Informed /\ run[p].pc \in {"resume", "record"} =>
         \A j \in file.held : jobs[j] # "held"

NodeInv ==
  /\ IdleIsBlank /\ PhasesFit /\ DrainHolds /\ DrainedMeansIdle
  /\ OperatorDrainSurvives /\ MineIsNotTheOperators /\ DrainIsSeen /\ DrainHasOwner
  /\ OverlayHasOwner /\ ExitHasRestored /\ ExitKnowsHeld

LEMMA InitNode == Init => NodeInv
  BY DEF Init, NodeInv, NotRunning, IdleIsBlank, PhasesFit, DrainHolds, DrainedMeansIdle, AtWork,
         OperatorDrainSurvives, MineIsNotTheOperators, DrainIsSeen, DrainHasOwner,
         OverlayHasOwner, ExitHasRestored, ExitKnowsHeld, At

\* What a failure does to what the commands may be asked for.
LEMMA FaultIsRemembered ==
  ASSUME TypeOK, NEW kind, Fault(kind)
  PROVE  Informed' <=> Informed /\ kind \notin BlindFaults
<1>1. faults'.blind = (faults.blind \/ kind \in BlindFaults)
  BY DEF Fault
<1>2. QED BY <1>1 DEF Informed

LEMMA GateNode ==
  ASSUME OneAtATime, TypeOK, NodeInv, NEW p \in Procs, Gate(p)
  PROVE  NodeInv'
<1> \A q \in Procs : q = p
  BY DEF OneAtATime
<1> QED
  BY DEF TypeOK, NodeInv, IdleIsBlank, PhasesFit, DrainHolds, DrainedMeansIdle, AtWork,
         OperatorDrainSurvives, MineIsNotTheOperators, DrainIsSeen, DrainHasOwner,
         OverlayHasOwner, ExitHasRestored, ExitKnowsHeld, Informed, At, Active, Commands,
         Gate, Goto, End, NotRunning, Fault, AfterGate, Queued, slurm, BlindFaults

LEMMA CheckPlanNode ==
  ASSUME OneAtATime, TypeOK, NodeInv, NEW p \in Procs, CheckPlan(p)
  PROVE  NodeInv'
<1> \A q \in Procs : q = p
  BY DEF OneAtATime
<1> USE DEF TypeOK, NodeInv, IdleIsBlank, PhasesFit, DrainHolds, DrainedMeansIdle, AtWork,
             OperatorDrainSurvives, MineIsNotTheOperators, DrainIsSeen, DrainHasOwner,
             OverlayHasOwner, ExitHasRestored, ExitKnowsHeld, Informed, At, Active, Commands,
             CheckPlan, End, NotRunning, slurm
<1>1. CASE plan = GpuView
  BY <1>1
<1>2. CASE plan # GpuView
  BY <1>2
<1>3. QED BY <1>1, <1>2

LEMMA ReadNodeNode ==
  ASSUME OneAtATime, TypeOK, NodeInv, NEW p \in Procs, ReadNode(p)
  PROVE  NodeInv'
<1> \A q \in Procs : q = p
  BY DEF OneAtATime
<1> QED
  BY DEF TypeOK, NodeInv, IdleIsBlank, PhasesFit, DrainHolds, DrainedMeansIdle, AtWork,
         OperatorDrainSurvives, MineIsNotTheOperators, DrainIsSeen, DrainHasOwner,
         OverlayHasOwner, ExitHasRestored, ExitKnowsHeld, Informed, At, Active, Commands,
         ReadNode, Fault, slurm, BlindFaults

LEMMA DrainNodeNode ==
  ASSUME OneAtATime, TypeOK, NodeInv, NEW p \in Procs, DrainNode(p)
  PROVE  NodeInv'
<1> \A q \in Procs : q = p
  BY DEF OneAtATime
<1> QED
  BY DEF TypeOK, NodeInv, IdleIsBlank, PhasesFit, DrainHolds, DrainedMeansIdle, AtWork,
         OperatorDrainSurvives, MineIsNotTheOperators, DrainIsSeen, DrainHasOwner,
         OverlayHasOwner, ExitHasRestored, ExitKnowsHeld, Informed, At, Active, Commands,
         DrainNode, Goto, End, NotRunning, Fault, BlindFaults

LEMMA ActOnJobNode ==
  ASSUME OneAtATime, TypeOK, NodeInv, NEW p \in Procs, ActOnJob(p)
  PROVE  NodeInv'
<1> \A q \in Procs : q = p
  BY DEF OneAtATime
<1> QED
  BY DEF TypeOK, NodeInv, IdleIsBlank, PhasesFit, DrainHolds, DrainedMeansIdle, AtWork,
         OperatorDrainSurvives, MineIsNotTheOperators, DrainIsSeen, DrainHasOwner,
         OverlayHasOwner, ExitHasRestored, ExitKnowsHeld, Informed, At, Active, Commands,
         ActOnJob, Goto, End, NotRunning, Fault, BlindFaults, Jobs

LEMMA ActionsDoneNode ==
  ASSUME OneAtATime, TypeOK, NodeInv, NEW p \in Procs, ActionsDone(p)
  PROVE  NodeInv'
<1> \A q \in Procs : q = p
  BY DEF OneAtATime
<1> QED
  BY DEF TypeOK, NodeInv, IdleIsBlank, PhasesFit, DrainHolds, DrainedMeansIdle, AtWork,
         OperatorDrainSurvives, MineIsNotTheOperators, DrainIsSeen, DrainHasOwner,
         OverlayHasOwner, ExitHasRestored, ExitKnowsHeld, Informed, At, Active, Commands,
         ActionsDone, Goto, End, NotRunning, slurm

LEMMA WaitForJobsNode ==
  ASSUME OneAtATime, TypeOK, NodeInv, NEW p \in Procs, WaitForJobs(p)
  PROVE  NodeInv'
<1> \A q \in Procs : q = p
  BY DEF OneAtATime
<1> QED
  BY DEF TypeOK, NodeInv, IdleIsBlank, PhasesFit, DrainHolds, DrainedMeansIdle, AtWork,
         OperatorDrainSurvives, MineIsNotTheOperators, DrainIsSeen, DrainHasOwner,
         OverlayHasOwner, ExitHasRestored, ExitKnowsHeld, Informed, At, Active, Commands,
         WaitForJobs, Goto, End, NotRunning, Fault, AfterGate, Recovery, slurm, BlindFaults

LEMMA UndoDrainNode ==
  ASSUME OneAtATime, TypeOK, NodeInv, NEW p \in Procs, UndoDrain(p)
  PROVE  NodeInv'
<1> \A q \in Procs : q = p
  BY DEF OneAtATime
<1> QED
  BY DEF TypeOK, NodeInv, IdleIsBlank, PhasesFit, DrainHolds, DrainedMeansIdle, AtWork,
         OperatorDrainSurvives, MineIsNotTheOperators, DrainIsSeen, DrainHasOwner,
         OverlayHasOwner, ExitHasRestored, ExitKnowsHeld, Informed, At, Active, Commands,
         UndoDrain, ResumeNode, Goto, End, NotRunning, Fault, BlindFaults

LEMMA PrepareNode ==
  ASSUME OneAtATime, TypeOK, NodeInv, NEW p \in Procs, Prepare(p)
  PROVE  NodeInv'
<1> \A q \in Procs : q = p
  BY DEF OneAtATime
<1> QED
  BY DEF TypeOK, NodeInv, IdleIsBlank, PhasesFit, DrainHolds, DrainedMeansIdle, AtWork,
         OperatorDrainSurvives, MineIsNotTheOperators, DrainIsSeen, DrainHasOwner,
         OverlayHasOwner, ExitHasRestored, ExitKnowsHeld, Informed, At, Active, Commands,
         Prepare, Fault, slurm, BlindFaults

LEMMA StartAnsibleNode ==
  ASSUME OneAtATime, TypeOK, NodeInv, NEW p \in Procs, StartAnsible(p)
  PROVE  NodeInv'
<1> \A q \in Procs : q = p
  BY DEF OneAtATime
<1> QED
  BY DEF TypeOK, NodeInv, IdleIsBlank, PhasesFit, DrainHolds, DrainedMeansIdle, AtWork,
         OperatorDrainSurvives, MineIsNotTheOperators, DrainIsSeen, DrainHasOwner,
         OverlayHasOwner, ExitHasRestored, ExitKnowsHeld, Informed, At, Active, Commands,
         StartAnsible, slurm

LEMMA EndAnsibleNode ==
  ASSUME OneAtATime, TypeOK, NodeInv, NEW p \in Procs, EndAnsible(p)
  PROVE  NodeInv'
<1> \A q \in Procs : q = p
  BY DEF OneAtATime
<1>1. run' = [run EXCEPT ![p].pc = run'[p].pc]
      /\ run'[p].pc \in {"failed", IF run[p].kind = "enter" THEN "resume" ELSE "verify"}
  BY DEF EndAnsible, Goto, TypeOK, Commands
<1>2. (UNCHANGED <<drained, byOperator, jobs, plan, file, reported>>) /\ (Informed' <=> Informed)
  BY FaultIsRemembered DEF EndAnsible, BlindFaults, Informed
<1>3. run[p].pc = "applying" /\ run[p] \in Commands
  BY DEF EndAnsible, At, TypeOK
<1>4. \/ overlay' = (run[p].kind = "enter")
      \/ run'[p].pc = "failed" /\ overlay' \in {overlay, run[p].kind = "enter"}
  BY DEF EndAnsible, Goto, TypeOK, Commands
<1>5. (IdleIsBlank /\ PhasesFit /\ DrainHolds)'
  BY <1>1, <1>2, <1>3 DEF NodeInv, IdleIsBlank, PhasesFit, DrainHolds, At, Commands, TypeOK
<1>6. (DrainedMeansIdle /\ OperatorDrainSurvives /\ MineIsNotTheOperators)'
  BY <1>1, <1>2, <1>3 DEF NodeInv, DrainedMeansIdle, AtWork, Active, OperatorDrainSurvives,
    MineIsNotTheOperators, Commands, TypeOK
<1>7. (DrainIsSeen /\ DrainHasOwner /\ ExitKnowsHeld)'
  BY <1>1, <1>2, <1>3 DEF NodeInv, DrainIsSeen, DrainHasOwner, ExitKnowsHeld, Commands, TypeOK
<1>8. (OverlayHasOwner /\ ExitHasRestored)'
  <2> USE <1>1, <1>2, <1>3 DEF NodeInv, OverlayHasOwner, ExitHasRestored, Commands, TypeOK
  <2>1. CASE run[p].kind = "enter"
    BY <2>1
  <2>2. CASE run[p].kind # "enter"
    <3>1. (run[p].kind = "enter") = FALSE
      BY <2>2
    <3>2. ~overlay' \/ (run'[p].pc = "failed" /\ overlay' = overlay)
      BY <3>1, <1>4
    <3>3. QED BY <2>2, <3>2
  <2>3. QED BY <2>1, <2>2
<1>9. QED BY <1>5, <1>6, <1>7, <1>8 DEF NodeInv

LEMMA VerifyNode ==
  ASSUME OneAtATime, TypeOK, NodeInv, NEW p \in Procs, Verify(p)
  PROVE  NodeInv'
<1> \A q \in Procs : q = p
  BY DEF OneAtATime
<1> QED
  BY DEF TypeOK, NodeInv, IdleIsBlank, PhasesFit, DrainHolds, DrainedMeansIdle, AtWork,
         OperatorDrainSurvives, MineIsNotTheOperators, DrainIsSeen, DrainHasOwner,
         OverlayHasOwner, ExitHasRestored, ExitKnowsHeld, Informed, At, Active, Commands,
         Verify, Goto, End, NotRunning, Fault, slurm, BlindFaults

LEMMA ReleaseJobNode ==
  ASSUME OneAtATime, TypeOK, NodeInv, NEW p \in Procs, ReleaseJob(p)
  PROVE  NodeInv'
<1> \A q \in Procs : q = p
  BY DEF OneAtATime
<1> USE DEF TypeOK, NodeInv, IdleIsBlank, PhasesFit, DrainHolds, DrainedMeansIdle, AtWork,
             OperatorDrainSurvives, MineIsNotTheOperators, DrainIsSeen, DrainHasOwner,
             OverlayHasOwner, ExitHasRestored, ExitKnowsHeld, Informed, At, Active, Commands,
             ReleaseJob, Fault, BlindFaults, Jobs
<1>1. PICK j \in GpuJobs :
        /\ <<j, "release">> \in run[p].todo
        /\ \/ jobs' = [jobs EXCEPT ![j] = IF @ = "held" THEN "pending" ELSE @] /\ UNCHANGED faults
           \/ UNCHANGED jobs /\ Fault("release")
        /\ run' = [run EXCEPT ![p].todo = @ \ {<<j, "release">>}]
  OBVIOUS
<1>3. ASSUME NEW g \in file.held, Informed', jobs'[g] = "held"
      PROVE  <<g, "release">> \in run'[p].todo
  <2> HIDE DEF NodeInv, At, Active, Fault, Informed
  <2>1. Fault("release") => ~Informed'
    BY FaultIsRemembered
  <2>2. j \in Jobs
    OBVIOUS
  <2>3. g # j
    BY <1>1, <1>3, <2>1, <2>2
  <2> USE DEF NodeInv, At, Active, Fault, Informed
  <2>4. jobs[g] = "held" /\ Informed
    BY <1>1, <1>3
  <2>5. <<g, "release">> \in run[p].todo
    BY <2>4
  <2>6. QED BY <1>1, <2>3, <2>5
<1>4. ExitKnowsHeld'
  BY <1>1, <1>3
<1>5. DrainedMeansIdle'
  BY <1>1
<1>6. IdleIsBlank' /\ PhasesFit' /\ DrainHolds'
  BY <1>1
<1>7. QED BY <1>1, <1>4, <1>5, <1>6

LEMMA ReleasesDoneNode ==
  ASSUME OneAtATime, TypeOK, NodeInv, NEW p \in Procs, ReleasesDone(p)
  PROVE  NodeInv'
<1> \A q \in Procs : q = p
  BY DEF OneAtATime
<1> USE DEF TypeOK, NodeInv, IdleIsBlank, PhasesFit, DrainHolds, DrainedMeansIdle, AtWork,
             OperatorDrainSurvives, MineIsNotTheOperators, DrainIsSeen, DrainHasOwner,
             OverlayHasOwner, ExitHasRestored, ExitKnowsHeld, Informed, At, Active, Commands,
             ReleasesDone, Goto, End, NotRunning, slurm
<1>1. Informed => \A j \in file.held : jobs[j] # "held"
  OBVIOUS
<1>2. QED BY <1>1

LEMMA SubmitSmokeNode ==
  ASSUME OneAtATime, TypeOK, NodeInv, NEW p \in Procs, SubmitSmoke(p)
  PROVE  NodeInv'
<1> \A q \in Procs : q = p
  BY DEF OneAtATime
<1> QED
  BY DEF TypeOK, NodeInv, IdleIsBlank, PhasesFit, DrainHolds, DrainedMeansIdle, AtWork,
         OperatorDrainSurvives, MineIsNotTheOperators, DrainIsSeen, DrainHasOwner,
         OverlayHasOwner, ExitHasRestored, ExitKnowsHeld, Informed, At, Active, Commands,
         SubmitSmoke, Goto, End, NotRunning, Fault, BlindFaults, Jobs

LEMMA AwaitSmokeNode ==
  ASSUME OneAtATime, TypeOK, NodeInv, NEW p \in Procs, AwaitSmoke(p)
  PROVE  NodeInv'
<1> \A q \in Procs : q = p
  BY DEF OneAtATime
<1> QED
  BY DEF TypeOK, NodeInv, IdleIsBlank, PhasesFit, DrainHolds, DrainedMeansIdle, AtWork,
         OperatorDrainSurvives, MineIsNotTheOperators, DrainIsSeen, DrainHasOwner,
         OverlayHasOwner, ExitHasRestored, ExitKnowsHeld, Informed, At, Active, Commands,
         AwaitSmoke, Goto, End, NotRunning, Fault, Queued, slurm, BlindFaults

LEMMA ResumeAfterSuccessNode ==
  ASSUME OneAtATime, TypeOK, NodeInv, NEW p \in Procs, ResumeAfterSuccess(p)
  PROVE  NodeInv'
<1> \A q \in Procs : q = p
  BY DEF OneAtATime
<1> QED
  BY DEF TypeOK, NodeInv, IdleIsBlank, PhasesFit, DrainHolds, DrainedMeansIdle, AtWork,
         OperatorDrainSurvives, MineIsNotTheOperators, DrainIsSeen, DrainHasOwner,
         OverlayHasOwner, ExitHasRestored, ExitKnowsHeld, Informed, At, Active, Commands,
         ResumeAfterSuccess, Goto, End, NotRunning, ResumeNode, Fault, BlindFaults

LEMMA RecordNode ==
  ASSUME OneAtATime, TypeOK, NodeInv, NEW p \in Procs, Record(p)
  PROVE  NodeInv'
<1> \A q \in Procs : q = p
  BY DEF OneAtATime
<1> QED
  BY ZenonT(30) DEF TypeOK, NodeInv, IdleIsBlank, PhasesFit, DrainHolds, DrainedMeansIdle, AtWork,
         OperatorDrainSurvives, MineIsNotTheOperators, DrainIsSeen, DrainHasOwner,
         OverlayHasOwner, ExitHasRestored, ExitKnowsHeld, Informed, At, Active, Commands,
         Record, End, NotRunning, slurm

LEMMA FailNode ==
  ASSUME OneAtATime, TypeOK, NodeInv, NEW p \in Procs, Fail(p)
  PROVE  NodeInv'
<1> \A q \in Procs : q = p
  BY DEF OneAtATime
<1> QED
  BY DEF TypeOK, NodeInv, IdleIsBlank, PhasesFit, DrainHolds, DrainedMeansIdle, AtWork,
         OperatorDrainSurvives, MineIsNotTheOperators, DrainIsSeen, DrainHasOwner,
         OverlayHasOwner, ExitHasRestored, ExitKnowsHeld, Informed, At, Active, Commands,
         Fail, Goto, End, NotRunning, ResumeNode, Fault, BlindFaults

LEMMA RecordFailureNode ==
  ASSUME OneAtATime, TypeOK, NodeInv, NEW p \in Procs, RecordFailure(p)
  PROVE  NodeInv'
<1> \A q \in Procs : q = p
  BY DEF OneAtATime
<1> USE DEF TypeOK, NodeInv, IdleIsBlank, PhasesFit, DrainHolds, DrainedMeansIdle, AtWork,
             OperatorDrainSurvives, MineIsNotTheOperators, DrainIsSeen, DrainHasOwner,
             OverlayHasOwner, ExitHasRestored, ExitKnowsHeld, Informed, At, Active, Commands,
             RecordFailure, End, NotRunning, slurm
<1>1. DrainHasOwner'
  OBVIOUS
<1>2. OverlayHasOwner'
  OBVIOUS
<1>3. ExitKnowsHeld' /\ ExitHasRestored' /\ IdleIsBlank' /\ PhasesFit' /\ DrainHolds'
  OBVIOUS
<1>4. DrainedMeansIdle' /\ OperatorDrainSurvives'
  OBVIOUS
<1>5. MineIsNotTheOperators' /\ DrainIsSeen'
  BY ZenonT(30)
<1>6. QED BY <1>1, <1>2, <1>3, <1>4, <1>5

LEMMA CrashNode ==
  ASSUME OneAtATime, TypeOK, NodeInv, NEW p \in Procs, Crash(p)
  PROVE  NodeInv'
<1> \A q \in Procs : q = p
  BY DEF OneAtATime
<1> QED
  BY ZenonT(30) DEF TypeOK, NodeInv, IdleIsBlank, PhasesFit, DrainHolds, DrainedMeansIdle, AtWork,
         OperatorDrainSurvives, MineIsNotTheOperators, DrainIsSeen, DrainHasOwner,
         OverlayHasOwner, ExitHasRestored, ExitKnowsHeld, Informed, At, Active, Commands,
         Crash, End, NotRunning, Fault, slurm, BlindFaults

LEMMA SlurmNode ==
  ASSUME OneAtATime, TypeOK, NodeInv, SlurmStep
  PROVE  NodeInv'
<1> USE DEF NodeInv, At
<1>1. PICK j \in Jobs : SubmitJob(j) \/ StartJob(j) \/ EndJob(j)
  BY DEF SlurmStep
<1>2. UNCHANGED <<drained, byOperator, overlay, file, run, reported, faults>>
  BY <1>1 DEF SubmitJob, StartJob, EndJob
<1>3. /\ \A i \in Jobs : jobs'[i] = "running" /\ jobs[i] # "running" => ~drained
      /\ \A i \in Jobs : jobs'[i] = "held" => jobs[i] = "held"
  BY <1>1 DEF SubmitJob, StartJob, EndJob, TypeOK
<1>4. DrainedMeansIdle'
  BY <1>2, <1>3 DEF DrainedMeansIdle, DrainHolds, AtWork, Active, Informed
<1>5. ExitKnowsHeld'
  BY <1>2, <1>3 DEF ExitKnowsHeld, Informed, TypeOK, Jobs
<1>6. QED
  BY <1>2, <1>4, <1>5 DEF IdleIsBlank, PhasesFit, DrainHolds, OperatorDrainSurvives, Informed,
    MineIsNotTheOperators, DrainIsSeen, DrainHasOwner, OverlayHasOwner, ExitHasRestored

LEMMA OperatorNode ==
  ASSUME TypeOK, NodeInv, OperatorDrains \/ OperatorResumes \/ ReviewPlan
  PROVE  NodeInv'
<1> USE DEF NodeInv, At
<1>1. UNCHANGED <<jobs, overlay, file, run, faults>>
  BY DEF OperatorDrains, OperatorResumes, ReviewPlan, slurm
<1>2. \/ UNCHANGED <<drained, byOperator, reported>>
      \/ (\A p \in Procs : run[p].pc = "idle" /\ ~run[p].mine)
  BY DEF OperatorDrains, OperatorResumes, ReviewPlan, slurm, NobodyRuns, IdleIsBlank, NotRunning
<1>3. (OperatorDrainSurvives /\ DrainHasOwner)'
  BY <1>1, <1>2 DEF OperatorDrains, OperatorResumes, ReviewPlan, slurm, OperatorDrainSurvives,
    DrainHasOwner, Informed, TypeOK
<1>4. (DrainHolds /\ MineIsNotTheOperators /\ DrainIsSeen)'
  BY <1>1, <1>2 DEF DrainHolds, MineIsNotTheOperators, DrainIsSeen, Informed
<1>5. QED
  BY <1>1, <1>3, <1>4 DEF IdleIsBlank, PhasesFit, DrainedMeansIdle, AtWork, Active, Informed,
    OverlayHasOwner, ExitHasRestored, ExitKnowsHeld

LEMMA StartNode ==
  ASSUME OneAtATime, TypeOK, NodeInv,
         NEW p \in Procs, NEW k \in Kinds, NEW m \in Modes \union {"drain"}, Start(p, k, m)
  PROVE  NodeInv'
<1> \A q \in Procs : q = p
  BY DEF OneAtATime
<1> USE DEF NodeInv, At
<1>1. UNCHANGED <<drained, byOperator, jobs, overlay, file, reported, faults>>
  BY DEF Start, slurm
<1>2. run[p] = NotRunning
  BY DEF Start, IdleIsBlank
<1>3. /\ run'[p].kind = k /\ run'[p].mode = m /\ run'[p].held = HeldAtStart(k)
      /\ run'[p].pc = FirstPhase(k, m) /\ ~run'[p].mine
  BY DEF Start, NotRunning, TypeOK
<1>4. /\ FirstPhase(k, m) \in {"check_plan", "read_node", "gate"}
      /\ FirstPhase(k, m) = "gate" => m # "drain"
  BY DEF FirstPhase, Start, Recovery
<1>5. (IdleIsBlank /\ PhasesFit /\ DrainHolds /\ MineIsNotTheOperators /\ DrainIsSeen)'
  BY <1>3, <1>4 DEF IdleIsBlank, PhasesFit, DrainHolds, MineIsNotTheOperators, DrainIsSeen
<1>6. (DrainedMeansIdle /\ OperatorDrainSurvives /\ DrainHasOwner)'
  BY <1>1, <1>2, <1>3, <1>4 DEF NotRunning, DrainedMeansIdle, AtWork, OperatorDrainSurvives,
    DrainHasOwner, Informed
<1>7. (OverlayHasOwner /\ ExitHasRestored)'
  BY <1>1, <1>2, <1>3, <1>4 DEF NotRunning, OverlayHasOwner, ExitHasRestored, Informed
<1>8. ExitKnowsHeld'
  BY <1>1, <1>3, <1>4 DEF ExitKnowsHeld, HeldAtStart
<1>9. QED BY <1>5, <1>6, <1>7, <1>8

LEMMA NextNode == OneAtATime /\ TypeOK /\ NodeInv /\ [Next]_vars => NodeInv'
<1> SUFFICES ASSUME OneAtATime, TypeOK, NodeInv, [Next]_vars PROVE NodeInv'
  OBVIOUS
<1>1. CASE UNCHANGED vars
  BY <1>1 DEF vars, NodeInv, IdleIsBlank, PhasesFit, DrainHolds, DrainedMeansIdle, AtWork, Active,
    OperatorDrainSurvives, MineIsNotTheOperators, DrainIsSeen, DrainHasOwner, OverlayHasOwner,
    ExitHasRestored, ExitKnowsHeld, Informed, At
<1>2. CASE SlurmStep
  BY <1>2, SlurmNode
<1>3. CASE OperatorDrains \/ OperatorResumes \/ ReviewPlan
  BY <1>3, OperatorNode
<1>4. ASSUME NEW p \in Procs, Step(p) \/ Crash(p) PROVE NodeInv'
  BY <1>4, GateNode, CheckPlanNode, ReadNodeNode, DrainNodeNode, ActOnJobNode, ActionsDoneNode,
    WaitForJobsNode, UndoDrainNode, PrepareNode, StartAnsibleNode, EndAnsibleNode, VerifyNode,
    ReleaseJobNode, ReleasesDoneNode, SubmitSmokeNode, AwaitSmokeNode, ResumeAfterSuccessNode,
    RecordNode, FailNode, RecordFailureNode, CrashNode DEF Step
<1>5. ASSUME NEW p \in Procs, NEW k \in Kinds, NEW m \in Modes \union {"drain"}, Start(p, k, m)
      PROVE  NodeInv'
  BY <1>5, StartNode
<1>6. QED BY <1>1, <1>2, <1>3, <1>4, <1>5 DEF Next

LEMMA NodeInvariant == ASSUME OneAtATime PROVE Spec => [](TypeOK /\ NodeInv)
<1>1. TypeOK /\ NodeInv /\ [Next]_vars => NodeInv'
  BY NextNode
<1>2. QED BY <1>1, InitNode, TypeCorrect, PTL DEF Spec

\* While a command that drained the node, or found it drained, works on its
\* services, no job runs (wait_for_no_active_jobs).
THEOREM DrainedNodeIsIdle == ASSUME OneAtATime PROVE Spec => []DrainedMeansIdle
<1>1. NodeInv => DrainedMeansIdle
  BY DEF NodeInv
<1>2. QED BY <1>1, NodeInvariant, PTL

\* No command puts a node back into service that the operator had drained
\* (drain_node's initiated_by_ssn).
THEOREM OperatorKeepsNode == ASSUME OneAtATime PROVE Spec => []OperatorDrainSurvives
<1>1. NodeInv => OperatorDrainSurvives
  BY DEF NodeInv
<1>2. QED BY <1>1, NodeInvariant, PTL

\* A drain that outlives its command is in the report, with the way out of it.
THEOREM DrainsAreAccountedFor == ASSUME OneAtATime PROVE Spec => []DrainIsUndoneOrReported
<1>1. NodeInv => DrainIsUndoneOrReported
  BY DEF NodeInv, DrainIsUndoneOrReported, DrainHasOwner, IdleIsBlank, NotRunning, NobodyRuns, At
<1>2. QED BY <1>1, NodeInvariant, PTL

\* gpu-recovery-state.json knows of the CPU-only overlay once nothing runs.
THEOREM OverlaysAreOnRecord == ASSUME OneAtATime PROVE Spec => []OverlayIsOnRecord
<1>1. NodeInv => OverlayIsOnRecord
  BY DEF NodeInv, OverlayIsOnRecord, OverlayHasOwner, NobodyRuns, At
<1>2. QED BY <1>1, NodeInvariant, PTL

\* A recovery that is left with success has freed every job on record as held
\* (_release_held_jobs).
THEOREM HeldJobsAreReleased == ASSUME OneAtATime PROVE Spec => HeldJobsComeBack
<1> DEFINE Left(p) == Informed /\ At(p, "record") /\ run[p].kind = "exit" /\ run'[p].pc = "idle"
           Free == \A p \in Procs : Left(p) => \A j \in file.held : jobs'[j] # "held"
<1>1. TypeOK /\ NodeInv /\ [Next]_vars => [Free]_vars
  <2> SUFFICES ASSUME TypeOK, NodeInv, Next, NEW p \in Procs, Left(p), NEW j \in file.held
               PROVE  jobs'[j] # "held"
    BY DEF vars
  <2>1. jobs[j] # "held" /\ j \in Jobs
    BY DEF NodeInv, ExitKnowsHeld, At, TypeOK, Jobs
  <2>2. Record(p) \/ Crash(p) \/ jobs' = jobs \/ SlurmStep
    <3>1. \A q \in Procs : q = p
      BY DEF OneAtATime
    <3>2. ~ReleaseJob(p) /\ ~SubmitSmoke(p) /\ ~ActOnJob(p)
      BY DEF ReleaseJob, SubmitSmoke, ActOnJob, At
    <3>3. ASSUME Step(p) PROVE jobs' = jobs
      BY <3>2, <3>3 DEF Step, Gate, CheckPlan, ReadNode, DrainNode, ActionsDone, WaitForJobs,
        UndoDrain, Prepare, StartAnsible, EndAnsible, Verify, ReleasesDone, AwaitSmoke,
        ResumeAfterSuccess, Record, Fail, RecordFailure, slurm
    <3>4. QED
      BY <3>1, <3>3 DEF Next, OperatorDrains, OperatorResumes, ReviewPlan, Start, slurm
  <2>3. CASE SlurmStep
    BY <2>1, <2>3 DEF SlurmStep, SubmitJob, StartJob, EndJob, TypeOK
  <2>4. QED BY <2>1, <2>2, <2>3 DEF Record, Crash, slurm
<1>2. QED BY <1>1, NodeInvariant, PTL DEF Spec, HeldJobsComeBack

\* Whatever fails, seen or unseen, no job starts beside the work of a command
\* that drained the node or found it drained.
THEOREM NoJobStartsBeside == ASSUME OneAtATime PROVE Spec => NoJobStartsBesideWork
<1> DEFINE Beside == \A p \in Procs, j \in Jobs :
                       jobs[j] # "running" /\ jobs'[j] = "running" => ~AtWork(p)
<1>1. TypeOK /\ NodeInv /\ [Next]_vars => [Beside]_vars
  <2> SUFFICES ASSUME TypeOK, NodeInv, Next, NEW p \in Procs, NEW j \in Jobs,
                      jobs[j] # "running", jobs'[j] = "running"
               PROVE  ~AtWork(p)
    BY DEF vars
  <2>1. ASSUME NEW q \in Procs, Step(q) PROVE FALSE
    BY <2>1 DEF Step, Gate, CheckPlan, ReadNode, DrainNode, ActOnJob, ActionsDone, WaitForJobs,
      UndoDrain, Prepare, StartAnsible, EndAnsible, Verify, ReleaseJob, ReleasesDone,
      SubmitSmoke, AwaitSmoke, ResumeAfterSuccess, Record, Fail, RecordFailure, slurm, TypeOK, Jobs
  <2>2. SlurmStep
    BY <2>1 DEF Next, OperatorDrains, OperatorResumes, ReviewPlan, Crash, Start, slurm
  <2>3. ~drained
    BY <2>2 DEF SlurmStep, SubmitJob, StartJob, EndJob, TypeOK
  <2>4. QED BY <2>3 DEF AtWork, NodeInv, DrainHolds
<1>2. QED BY <1>1, NodeInvariant, PTL DEF Spec, NoJobStartsBesideWork
=============================================================================
