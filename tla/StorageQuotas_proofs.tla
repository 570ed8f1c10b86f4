------------------------ MODULE StorageQuotas_proofs ------------------------
(***************************************************************************)
(* Proofs about StorageQuotas: type correctness, and that fstab never      *)
(* loses the options of a mount whose quota the command has turned on.     *)
(***************************************************************************)
EXTENDS StorageQuotas, TLAPS

\* Each edit of other lines of fstab is one of the bounded events, also in the
\* copies that the command and its report hold.
EditsAreCounted ==
    /\ fstab.rest <= events
    /\ proc # Idle => proc.before.rest <= events
    /\ result # None => result.backup.rest <= events

\* A running command is known by its phase.
LEMMA RunningType ==
  ASSUME TypeOK, proc.pc # "idle"
  PROVE  proc \in Running
  BY DEF TypeOK, Idle

LEMMA IdleIsNotRunning == Idle \notin Running
  BY DEF Idle, Running

LEMMA FaultType == TypeOK /\ Fault => faults' \in 0 .. MaxFaults
  BY BoundsAssumption DEF TypeOK, Fault

LEMMA EventType == TypeOK /\ Event => events' \in 0 .. MaxEvents
  BY BoundsAssumption DEF TypeOK, Event

LEMMA SelectedType ==
  \A q \in Plans : Selected(q) \subseteq q.needed /\ Selected(q) \subseteq Mounts
  BY DEF Plans, Selected

LEMMA CurrentType == Current \in Plans
  BY DEF Current, Plans, Active

LEMMA ReportType ==
  ASSUME TypeOK, proc \in Running,
         NEW status \in {"enabled", "failed"}, NEW rollback \in {"none", "restored", "skipped"},
         NEW off \in SUBSET Mounts
  PROVE  Report(status, rollback, off) \in Results
  BY SelectedType DEF TypeOK, Report, Results, Running

LEMMA InitType == Init => TypeOK
  BY BoundsAssumption DEF Init, TypeOK, Fstabs, Both

\* The steps of the command that only move it on.
LEMMA MoveType ==
  ASSUME TypeOK, proc \in Running,
         NEW pc \in {"edit", "remount", "check", "on", "observe", "restore", "back"}
  PROVE  /\ Goto(pc) => proc' \in Running
         /\ \A ms \in SUBSET Mounts : GotoLoop(pc, ms) => proc' \in Running
  BY ZenonT(30) DEF Goto, GotoLoop, Running

LEMMA PlanStepType ==
  ASSUME TypeOK, MakePlan \/ Begin
  PROVE  TypeOK'
<1>1. CASE MakePlan
  BY <1>1, CurrentType DEF MakePlan, TypeOK, hostVars
<1>2. CASE Begin
  <2>1. proc' \in Running
    BY <1>2 DEF Begin, TypeOK, Running, Plans
  <2>2. QED
    BY <1>2, <2>1 DEF Begin, TypeOK, hostVars
<1>3. QED BY <1>1, <1>2

LEMMA EditType ==
  ASSUME TypeOK, RefuseMount \/ EditFstab \/ AllRemounted \/ Enabled
  PROVE  TypeOK'
<1>1. proc \in Running
  BY RunningType DEF RefuseMount, EditFstab, AllRemounted, Enabled
<1>2. proc.plan \in Plans /\ proc.before \in Fstabs /\ proc.todo \in SUBSET Mounts
  BY <1>1 DEF Running
<1>3. CASE RefuseMount
  BY <1>1, <1>3, MoveType DEF RefuseMount, Fail, TypeOK, hostVars
<1>4. CASE EditFstab
  <2>1. proc' \in Running
    BY <1>1, <1>2, <1>4, MoveType, SelectedType DEF EditFstab, Fail
  <2>2. fstab' \in Fstabs
    BY <1>2, <1>4, SelectedType DEF EditFstab, TypeOK, Fstabs
  <2>3. QED BY <1>4, <2>1, <2>2, FaultType DEF EditFstab, TypeOK
<1>5. CASE AllRemounted
  <2>1. Activation(proc.plan) \in SUBSET Mounts
    BY <1>2, SelectedType DEF Activation
  <2>2. proc' \in Running
    BY <1>1, <1>5, <2>1, MoveType DEF AllRemounted
  <2>3. QED BY <1>5, <2>2 DEF AllRemounted, TypeOK, hostVars
<1>6. CASE Enabled
  BY <1>1, <1>6, ReportType DEF Enabled, TypeOK, hostVars
<1>7. QED BY <1>3, <1>4, <1>5, <1>6

LEMMA MountType ==
  ASSUME TypeOK, NEW m \in Mounts, Remount(m) \/ QuotaCheck(m) \/ RemountBack(m)
  PROVE  TypeOK'
<1>1. proc \in Running
  BY RunningType DEF Remount, QuotaCheck, RemountBack
<1>2. proc.todo \ {m} \in SUBSET Mounts
  BY <1>1 DEF Running
<1>3. Remounted(m) \subseteq Mounts
  BY DEF Remounted, TypeOK
<1>4. CASE Remount(m)
  <2>1. proc' \in Running
    BY <1>1, <1>2, <1>4, MoveType DEF Remount, Fail
  <2>2. QED BY <1>3, <1>4, <2>1, FaultType DEF Remount, TypeOK
<1>5. CASE QuotaCheck(m)
  <2>1. proc' \in Running
    BY <1>1, <1>5, MoveType DEF QuotaCheck, Fail, Running
  <2>2. QED BY <1>5, <2>1, FaultType DEF QuotaCheck, TypeOK, hostVars
<1>6. CASE RemountBack(m)
  <2>1. proc' \in Running
    BY <1>1, <1>2, <1>6, MoveType DEF RemountBack
  <2>2. QED BY <1>3, <1>6, <2>1, FaultType DEF RemountBack, TypeOK
<1>7. QED BY <1>4, <1>5, <1>6

LEMMA QuotaOnType ==
  ASSUME TypeOK, proc.pc = "on" => proc.mount \in Mounts, QuotaOn
  PROVE  TypeOK'
<1>1. proc \in Running
  BY RunningType DEF QuotaOn
<1>2. proc.mount \in Mounts
  BY DEF QuotaOn
<1>3. proc' \in Running
  <2>1. Fail => proc' \in Running
    BY <1>1, MoveType DEF Fail
  <2>2. proc.todo \ {proc.mount} \in SUBSET Mounts
    BY <1>1 DEF Running
  <2>3. ASSUME proc' = [proc EXCEPT !.pc = "check", !.todo = @ \ {proc.mount}, !.mount = None]
        PROVE  proc' \in Running
    BY <1>1, <2>2, <2>3 DEF Running
  <2>4. QED BY <2>1, <2>3 DEF QuotaOn
<1>4. on' \in [Mounts -> SUBSET Both] /\ mine' \subseteq Mounts
  BY <1>2 DEF QuotaOn, TypeOK, Both
<1>5. QED BY <1>3, <1>4, FaultType DEF QuotaOn, TypeOK

LEMMA EndType ==
  ASSUME TypeOK, Observe \/ Restore \/ Restored
  PROVE  TypeOK'
<1>1. proc \in Running
  BY RunningType DEF Observe, Restore, Restored
<1>2. Selected(proc.plan) \in SUBSET Mounts /\ proc.before \in Fstabs
  BY <1>1, SelectedType DEF Running
<1>3. CASE Observe
  <2> DEFINE seen == AnyQuota(Selected(proc.plan))
  <2>1. seen \in SUBSET Mounts
    BY <1>2 DEF AnyQuota
  <2>2. proc' \in Running \cup {Idle}
    BY <1>1, <1>3, MoveType DEF Observe, Running
  <2>3. result' \in Results \cup {None}
    BY <1>1, <1>3, <2>1, ReportType DEF Observe, TypeOK
  <2>4. QED BY <1>3, <2>2, <2>3, FaultType DEF Observe, TypeOK, hostVars
<1>4. CASE Restore
  BY <1>1, <1>2, <1>4, MoveType DEF Restore, TypeOK
<1>5. CASE Restored
  BY <1>1, <1>5, ReportType DEF Restored, TypeOK, hostVars
<1>6. QED BY <1>3, <1>4, <1>5

LEMMA AroundType ==
  ASSUME TypeOK, EditsAreCounted, Recover \/ EditByOther \/ Crash \/ Reboot
  PROVE  TypeOK'
<1>1. CASE Recover
  <2>1. result \in Results
    BY <1>1 DEF Recover, TypeOK
  <2>2. on' \in [Mounts -> SUBSET Both]
    BY <1>1 DEF Recover, TypeOK
  <2>3. QED BY <1>1, <2>1, <2>2 DEF Recover, TypeOK, Results, Fstabs
<1>2. CASE EditByOther
  <2>1. fstab' \in Fstabs
    BY <1>2, BoundsAssumption DEF EditByOther, EditsAreCounted, TypeOK, Fstabs, Event
  <2>2. QED BY <1>2, <2>1, EventType DEF EditByOther, TypeOK
<1>3. CASE Crash
  BY <1>3, EventType DEF Crash, TypeOK, hostVars
<1>4. CASE Reboot
  <2>1. on' \in [Mounts -> SUBSET Both] /\ live' \subseteq Mounts
    BY <1>4 DEF Reboot, TypeOK, Fstabs, Both
  <2>2. result' \in Results \cup {None}
    BY <1>4 DEF Reboot, TypeOK, Results
  <2>3. QED BY <1>4, <2>1, <2>2, EventType DEF Reboot, TypeOK
<1>5. QED BY <1>1, <1>2, <1>3, <1>4

\* Someone else's edit of fstab is the only step that makes a new version of it.
LEMMA NextCounts ==
  ASSUME TypeOK, EditsAreCounted, [Next]_vars
  PROVE  EditsAreCounted'
<1> USE DEF EditsAreCounted
<1>2. CASE UNCHANGED vars
  BY <1>2 DEF vars, hostVars
<1>3. CASE MakePlan \/ Begin
  BY <1>3, IdleIsNotRunning DEF MakePlan, Begin, hostVars
<1>4. CASE EnableStep
  <2>1. proc \in Running /\ proc # Idle /\ proc.before \in Fstabs
    BY <1>4, RunningType, IdleIsNotRunning DEF EnableStep, RefuseMount, EditFstab, AllRemounted,
      QuotaOn, Enabled, Observe, Restore, Restored, Remount, QuotaCheck, RemountBack, Running
  <2>2. events' = events /\ (proc' = Idle \/ proc'.before = proc.before)
    BY <1>4, <2>1 DEF EnableStep, RefuseMount, EditFstab, AllRemounted, QuotaOn, Enabled, Observe,
      Restore, Restored, Remount, QuotaCheck, RemountBack, Goto, GotoLoop, Fail, Running
  <2>3. fstab'.rest \in {fstab.rest, proc.before.rest}
    BY <1>4, <2>1 DEF EnableStep, RefuseMount, EditFstab, AllRemounted, QuotaOn, Enabled, Observe,
      Restore, Restored, Remount, QuotaCheck, RemountBack, hostVars, Fstabs
  <2>4. result' = result \/ result'.backup = proc.before
    <3>1. CASE Enabled \/ Observe \/ Restored
      BY <3>1 DEF Enabled, Observe, Restored, Report
    <3>2. CASE ~(Enabled \/ Observe \/ Restored)
      BY <1>4, <3>2 DEF EnableStep, RefuseMount, EditFstab, AllRemounted, QuotaOn, Restore,
        Remount, QuotaCheck, RemountBack
    <3>3. QED BY <3>1, <3>2
  <2>5. QED BY <2>1, <2>2, <2>3, <2>4
<1>5. CASE Recover
  BY <1>5 DEF Recover
<1>6. events \in Nat
  BY BoundsAssumption DEF TypeOK
<1>7. CASE EditByOther
  <2>1. fstab'.rest = fstab.rest + 1 /\ fstab.rest \in Nat /\ events' = events + 1
    BY <1>7, BoundsAssumption DEF EditByOther, Event, TypeOK, Fstabs
  <2>2. proc # Idle => proc.before.rest \in Nat
    BY BoundsAssumption DEF TypeOK, Running, Fstabs
  <2>3. result # None => result.backup.rest \in Nat
    BY BoundsAssumption DEF TypeOK, Results, Fstabs
  <2>4. QED BY <1>6, <1>7, <2>1, <2>2, <2>3 DEF EditByOther
<1>8. CASE Crash \/ Reboot
  <2>1. /\ UNCHANGED fstab /\ proc' = Idle /\ events' = events + 1
        /\ result' # None => result # None /\ result'.backup = result.backup
    BY <1>8 DEF Crash, Reboot, Event, hostVars, TypeOK, Results
  <2>2. fstab.rest \in Nat /\ (result # None => result.backup.rest \in Nat)
    BY BoundsAssumption DEF TypeOK, Fstabs, Results
  <2>3. QED BY <1>6, <2>1, <2>2
<1>9. QED BY <1>2, <1>3, <1>4, <1>5, <1>7, <1>8 DEF Next
-----------------------------------------------------------------------------
(***************************************************************************)
(* What the command has turned on is among the mounts whose options it has *)
(* put into fstab, as long as it runs; when it gives up, either it sees    *)
(* those quotas and leaves fstab alone, or there are none.                 *)
(***************************************************************************)
MineIsOn ==
    proc # Idle => mine \subseteq AnyQuota(Selected(proc.plan))

NothingYet ==
    proc.pc \in {"edit", "restore", "back"} => mine = {}

WorkIsSelected ==
    /\ proc.pc \in {"remount", "check", "on"} => Selected(proc.plan) \subseteq fstab.opts
    /\ proc.pc \in {"check", "on"} => proc.todo \subseteq Selected(proc.plan)
    /\ proc.pc = "on" => proc.mount \in Selected(proc.plan)

FailureSeesMine ==
    /\ proc # Idle => result = None
    /\ result # None /\ result.status = "failed" => mine \subseteq result.off

QuotaInv ==
    MineIsOn /\ NothingYet /\ WorkIsSelected /\ FailureSeesMine /\ ActivationIsPersistent

LEMMA InitQuota == Init => EditsAreCounted /\ QuotaInv
  BY DEF Init, EditsAreCounted, QuotaInv, MineIsOn, NothingYet, WorkIsSelected, FailureSeesMine,
    ActivationIsPersistent, Idle, Fstabs

LEMMA PlanStepQuota ==
  ASSUME TypeOK, QuotaInv, MakePlan \/ Begin
  PROVE  QuotaInv'
<1> USE DEF QuotaInv, MineIsOn, NothingYet, WorkIsSelected, FailureSeesMine, ActivationIsPersistent
<1>1. CASE MakePlan
  BY <1>1 DEF MakePlan, hostVars, AnyQuota, Selected
<1>2. CASE Begin
  BY <1>2 DEF Begin, hostVars
<1>3. QED BY <1>1, <1>2

LEMMA EditQuota ==
  ASSUME TypeOK, QuotaInv, RefuseMount \/ EditFstab \/ AllRemounted \/ Enabled
  PROVE  QuotaInv'
<1> USE DEF QuotaInv, MineIsOn, NothingYet, WorkIsSelected, FailureSeesMine, ActivationIsPersistent
<1>1. proc \in Running /\ proc # Idle /\ proc.before \in Fstabs
  BY RunningType, IdleIsNotRunning DEF RefuseMount, EditFstab, AllRemounted, Enabled, Running
<1>2. CASE RefuseMount
  BY <1>1, <1>2 DEF RefuseMount, Fail, Goto, Running, hostVars, AnyQuota, Selected
<1>3. CASE EditFstab
  <2>1. mine' = {} /\ UNCHANGED <<capable, on, result>> /\ proc'.plan = proc.plan /\ proc' # Idle
    BY <1>1, <1>3 DEF EditFstab, Fail, Goto, GotoLoop, Running, Idle
  <2>2. \/ proc'.pc = "observe"
        \/ proc'.pc = "remount" /\ fstab'.opts = proc.before.opts \cup Selected(proc.plan)
    BY <1>1, <1>3 DEF EditFstab, Fail, Goto, GotoLoop, Running, Fstabs
  <2>3. QED BY <1>1, <2>1, <2>2 DEF Selected
<1>4. CASE AllRemounted
  BY <1>1, <1>4 DEF AllRemounted, GotoLoop, Running, hostVars, AnyQuota, Selected, Activation
<1>5. CASE Enabled
  BY <1>1, <1>5 DEF Enabled, Report, hostVars, Idle
<1>6. QED BY <1>2, <1>3, <1>4, <1>5

LEMMA MountQuota ==
  ASSUME TypeOK, QuotaInv, NEW m \in Mounts, Remount(m) \/ QuotaCheck(m) \/ RemountBack(m)
  PROVE  QuotaInv'
<1> USE DEF QuotaInv, MineIsOn, NothingYet, WorkIsSelected, FailureSeesMine, ActivationIsPersistent
<1>1. proc \in Running /\ proc # Idle
  BY RunningType, IdleIsNotRunning DEF Remount, QuotaCheck, RemountBack
<1>2. CASE Remount(m)
  BY <1>1, <1>2 DEF Remount, Fail, Goto, GotoLoop, Running, AnyQuota, Selected
<1>3. CASE QuotaCheck(m)
  BY <1>1, <1>3 DEF QuotaCheck, Fail, Goto, Running, hostVars, AnyQuota, Selected
<1>4. CASE RemountBack(m)
  BY <1>1, <1>4 DEF RemountBack, GotoLoop, Running, AnyQuota, Selected
<1>5. QED BY <1>2, <1>3, <1>4

LEMMA QuotaOnQuota ==
  ASSUME TypeOK, QuotaInv, QuotaOn
  PROVE  QuotaInv'
<1> USE DEF QuotaInv, MineIsOn, NothingYet, WorkIsSelected, FailureSeesMine, ActivationIsPersistent
<1>1. proc \in Running /\ proc # Idle /\ proc.plan \in Plans
  BY RunningType, IdleIsNotRunning DEF QuotaOn, Running
<1>2. proc.mount \in Selected(proc.plan) /\ proc.mount \in Mounts
  BY <1>1, SelectedType DEF QuotaOn
<1>3. /\ UNCHANGED <<capable, fstab, result>> /\ proc'.plan = proc.plan /\ proc' # Idle
      /\ proc'.pc \in {"check", "observe"}
      /\ proc'.todo \subseteq proc.todo
  <2>1. \/ proc' = [proc EXCEPT !.pc = "check", !.todo = @ \ {proc.mount}, !.mount = None]
        \/ proc' = [proc EXCEPT !.pc = "observe"]
    BY DEF QuotaOn, Fail, Goto
  <2>2. UNCHANGED <<capable, fstab, result>>
    BY DEF QuotaOn
  <2>3. QED BY <1>1, <2>1, <2>2 DEF Running, Idle
<1>4. /\ mine' \subseteq mine \cup {proc.mount}
      /\ \A m \in Mounts : on[m] # {} => on'[m] # {}
      /\ proc.mount \in mine' => on'[proc.mount] # {} \/ proc.mount \in mine
  BY <1>2 DEF QuotaOn, TypeOK, Both
<1>5. MineIsOn'
  BY <1>1, <1>2, <1>3, <1>4, SelectedType DEF AnyQuota, Selected
<1>6. ActivationIsPersistent' /\ NothingYet' /\ FailureSeesMine'
  BY <1>1, <1>2, <1>3, <1>4 DEF QuotaOn
<1>7. WorkIsSelected'
  BY <1>1, <1>3 DEF QuotaOn, Selected
<1>8. QED BY <1>5, <1>6, <1>7

LEMMA EndQuota ==
  ASSUME TypeOK, QuotaInv, Observe \/ Restore \/ Restored
  PROVE  QuotaInv'
<1> USE DEF QuotaInv, MineIsOn, NothingYet, WorkIsSelected, FailureSeesMine, ActivationIsPersistent
<1>1. proc \in Running /\ proc # Idle
  BY RunningType, IdleIsNotRunning DEF Observe, Restore, Restored
<1>2. CASE Observe
  <2> DEFINE seen == AnyQuota(Selected(proc.plan))
  <2>1. UNCHANGED <<capable, fstab, on>> /\ mine' \in {mine, {}}
    BY <1>2 DEF Observe, hostVars
  <2>2. CASE seen = {} /\ Goto("restore") /\ UNCHANGED <<mine, result>>
    BY <1>1, <2>1, <2>2 DEF Goto, Running, AnyQuota, Selected
  <2>3. CASE proc' = Idle /\ result' = Report("failed", "skipped", seen) /\ UNCHANGED mine
    BY <1>1, <2>1, <2>3 DEF Report, Idle
  <2>4. CASE /\ proc' = [proc EXCEPT !.pc = "restore", !.blind = TRUE]
             /\ mine' = {} /\ UNCHANGED result
    BY <1>1, <2>1, <2>4 DEF Running
  <2>5. QED BY <1>2, <2>2, <2>3, <2>4 DEF Observe
<1>3. CASE Restore
  BY <1>1, <1>3 DEF Restore, GotoLoop, Running, AnyQuota, Selected
<1>4. CASE Restored
  BY <1>1, <1>4 DEF Restored, Report, hostVars, Idle
<1>5. QED BY <1>2, <1>3, <1>4

LEMMA AroundQuota ==
  ASSUME TypeOK, QuotaInv, Recover \/ EditByOther \/ Crash \/ Reboot
  PROVE  QuotaInv'
<1> USE DEF QuotaInv, MineIsOn, NothingYet, WorkIsSelected, FailureSeesMine, ActivationIsPersistent
<1>1. CASE Recover
  BY <1>1 DEF Recover, Idle
<1>2. CASE EditByOther
  <2>1. fstab'.opts = fstab.opts
    BY <1>2 DEF EditByOther, TypeOK, Fstabs
  <2>2. QED BY <1>2, <2>1 DEF EditByOther, AnyQuota, Selected
<1>3. CASE Crash
  BY <1>3 DEF Crash, hostVars, Idle
<1>4. CASE Reboot
  BY <1>4 DEF Reboot, Idle
<1>5. QED BY <1>1, <1>2, <1>3, <1>4

LEMMA NextQuota ==
  ASSUME TypeOK, EditsAreCounted, QuotaInv, [Next]_vars
  PROVE  TypeOK' /\ EditsAreCounted' /\ QuotaInv'
<1>1. proc.pc = "on" => proc.mount \in Mounts
  BY RunningType, SelectedType DEF QuotaInv, WorkIsSelected, Running
<1>2. EditsAreCounted'
  BY NextCounts
<1>3. CASE UNCHANGED vars
  BY <1>2, <1>3 DEF vars, hostVars, TypeOK, QuotaInv, MineIsOn, NothingYet, WorkIsSelected,
    FailureSeesMine, ActivationIsPersistent, AnyQuota, Selected
<1>4. CASE MakePlan \/ Begin
  BY <1>2, <1>4, PlanStepType, PlanStepQuota
<1>5. CASE EnableStep
  BY <1>1, <1>2, <1>5, EditType, MountType, QuotaOnType, EndType, EditQuota, MountQuota,
    QuotaOnQuota, EndQuota DEF EnableStep
<1>6. CASE Recover \/ EditByOther \/ Crash \/ Reboot
  BY <1>2, <1>6, AroundType, AroundQuota
<1>7. QED BY <1>3, <1>4, <1>5, <1>6 DEF Next

LEMMA QuotaInvariant == Spec => [](TypeOK /\ EditsAreCounted /\ QuotaInv)
  BY InitType, InitQuota, NextQuota, PTL DEF Spec

\* Every variable keeps its type.
THEOREM TypeCorrect == Spec => []TypeOK
  BY QuotaInvariant, PTL

\* A quota that enable has turned on is one that a reboot turns on again: fstab
\* keeps its options through every failure, crash, reboot, recovery by the
\* operator and edit by others (enable_storage_quotas).
THEOREM ActivationsPersist == Spec => []ActivationIsPersistent
<1>1. QuotaInv => ActivationIsPersistent
  BY DEF QuotaInv
<1>2. QED BY <1>1, QuotaInvariant, PTL
-----------------------------------------------------------------------------
(***************************************************************************)
(* How far a command has come: what is remounted, what is on, and what it  *)
(* has looked at before it puts fstab back.                                *)
(***************************************************************************)
BothOn(ms) == \A m \in ms : on[m] = Both

RemountedSoFar ==
    /\ proc.pc = "remount" => Selected(proc.plan) \ proc.todo \subseteq live
    /\ proc.pc \in {"check", "on"} => Selected(proc.plan) \subseteq live

\* A plan that was true counts for active only what still is.
ActivatedSoFar ==
    /\ proc # Idle /\ proc.current => BothOn(proc.plan.active \cap Mounts)
    /\ proc.pc \in {"check", "on"} => /\ proc.todo \subseteq Activation(proc.plan)
                                      /\ BothOn(Activation(proc.plan) \ proc.todo)
    /\ proc.pc = "on" => proc.mount \in proc.todo

RollbackIsClean ==
    /\ proc.pc \in {"restore", "back"} /\ ~proc.blind => AnyQuota(Selected(proc.plan)) = {}
    /\ proc.pc = "back" => fstab.opts = proc.before.opts

ProgressInv == RemountedSoFar /\ ActivatedSoFar /\ RollbackIsClean

LEMMA InitProgress == Init => ProgressInv
  BY DEF Init, ProgressInv, RemountedSoFar, ActivatedSoFar, RollbackIsClean, Idle

LEMMA CommandProgress ==
  ASSUME TypeOK, QuotaInv, ProgressInv, EnableStep
  PROVE  ProgressInv'
<1> USE DEF ProgressInv, RemountedSoFar, ActivatedSoFar, RollbackIsClean, BothOn
<1>1. proc \in Running /\ proc # Idle /\ proc.plan \in Plans /\ capable' = capable
  BY RunningType, IdleIsNotRunning DEF EnableStep, RefuseMount, EditFstab, AllRemounted,
    QuotaOn, Enabled, Observe, Restore, Restored, Remount, QuotaCheck, RemountBack, Running
<1> USE <1>1 DEF Goto, GotoLoop, Fail, Running, hostVars, Selected, Activation
<1>2. CASE RefuseMount
  BY <1>2 DEF RefuseMount
<1>3. CASE EditFstab
  <2>1. UNCHANGED <<on, live>> /\ proc'.plan = proc.plan /\ proc'.current = proc.current
    BY <1>3 DEF EditFstab
  <2>2. proc'.pc = "observe" \/ (proc'.pc = "remount" /\ proc'.todo = Selected(proc.plan))
    BY <1>3 DEF EditFstab
  <2>3. QED BY <2>1, <2>2
<1>4. CASE AllRemounted
  BY <1>4 DEF AllRemounted
<1>5. ASSUME NEW m \in Mounts, Remount(m) PROVE ProgressInv'
  <2>1. UNCHANGED on /\ proc'.plan = proc.plan /\ proc'.current = proc.current
    BY <1>5 DEF Remount
  <2>2. Selected(proc.plan) \ (proc.todo \ {m}) \subseteq Remounted(m)
    BY <1>5 DEF Remount, Remounted, QuotaInv, WorkIsSelected
  <2>3. \/ proc'.pc = "observe"
        \/ proc'.pc = "remount" /\ proc'.todo = proc.todo \ {m} /\ live' = Remounted(m)
    BY <1>5 DEF Remount
  <2>4. QED BY <2>1, <2>2, <2>3
<1>6. ASSUME NEW m \in Mounts, QuotaCheck(m) PROVE ProgressInv'
  BY <1>6 DEF QuotaCheck
<1>7. CASE QuotaOn
  <2>1. proc.mount \in Activation(proc.plan) /\ UNCHANGED live
    BY <1>7 DEF QuotaOn
  <2>2. \A m \in Mounts \ {proc.mount} : on'[m] = on[m]
    BY <1>7 DEF QuotaOn, TypeOK
  <2>3. proc'.plan = proc.plan /\ proc'.current = proc.current
    BY <1>7 DEF QuotaOn
  <2>4. \/ proc'.pc = "observe"
        \/ /\ proc'.pc = "check" /\ proc'.todo = proc.todo \ {proc.mount}
           /\ proc.mount \in Mounts => on'[proc.mount] = Both
    BY <1>7 DEF QuotaOn, TypeOK
  <2>5. QED BY <1>7, <2>1, <2>2, <2>3, <2>4, SelectedType DEF QuotaOn
<1>8. CASE Enabled \/ Restored
  BY <1>8 DEF Enabled, Restored, Idle
<1>9. CASE Observe
  <2>1. UNCHANGED on
    BY <1>9 DEF Observe
  <2>2. \/ proc' = Idle
        \/ /\ proc'.pc = "restore" /\ proc'.plan = proc.plan /\ proc'.current = proc.current
           /\ ~proc'.blind => AnyQuota(Selected(proc.plan)) = {}
    BY <1>9 DEF Observe
  <2>3. QED BY <2>1, <2>2 DEF Idle, AnyQuota
<1>10. CASE Restore
  BY <1>10 DEF Restore, AnyQuota
<1>11. ASSUME NEW m \in Mounts, RemountBack(m) PROVE ProgressInv'
  BY <1>11 DEF RemountBack, AnyQuota
<1>12. QED
  BY <1>2, <1>3, <1>4, <1>5, <1>6, <1>7, <1>8, <1>9, <1>10, <1>11 DEF EnableStep

LEMMA NextProgress ==
  ASSUME TypeOK, QuotaInv, ProgressInv, [Next]_vars
  PROVE  ProgressInv'
<1> USE DEF ProgressInv, RemountedSoFar, ActivatedSoFar, RollbackIsClean, BothOn
<1>1. CASE UNCHANGED vars \/ MakePlan
  BY <1>1 DEF vars, MakePlan, hostVars, Selected, Activation, AnyQuota
<1>2. CASE Begin
  <2>1. proc'.pc = "edit" /\ proc'.plan = plan /\ proc'.current = (plan = Current) /\ UNCHANGED on
    BY <1>2 DEF Begin, hostVars
  <2>2. plan = Current => BothOn(plan.active)
    BY DEF Current, Active
  <2>3. QED BY <2>1, <2>2
<1>3. CASE EnableStep
  BY <1>3, CommandProgress
<1>4. CASE Recover \/ Crash \/ Reboot
  BY <1>4 DEF Recover, Crash, Reboot, Idle
<1>5. CASE EditByOther
  <2>1. fstab'.opts = fstab.opts
    BY <1>5 DEF EditByOther, TypeOK, Fstabs
  <2>2. QED BY <1>5, <2>1 DEF EditByOther, Selected, Activation, AnyQuota
<1>6. QED BY <1>1, <1>2, <1>3, <1>4, <1>5 DEF Next

LEMMA ProgressInvariant == Spec => [](TypeOK /\ QuotaInv /\ ProgressInv)
  BY QuotaInvariant, InitProgress, NextProgress, PTL DEF Spec

\* A report of success is true of every mount the plan asked for, as long as
\* the plan was true when the command began (enable_storage_quotas).
THEOREM SuccessIsTrue == Spec => EnabledIsTrue
<1> DEFINE True == Enabled /\ proc.current =>
             \A m \in Selected(proc.plan) : on[m] = Both /\ m \in fstab.opts /\ m \in live
<1>1. TypeOK /\ QuotaInv /\ ProgressInv => True
  <2> SUFFICES ASSUME TypeOK, QuotaInv, ProgressInv, Enabled, proc.current,
                      NEW m \in Selected(proc.plan)
               PROVE  on[m] = Both /\ m \in fstab.opts /\ m \in live
    OBVIOUS
  <2>1. proc.pc = "check" /\ proc.todo = {} /\ proc # Idle /\ m \in Mounts
    BY RunningType, IdleIsNotRunning DEF Enabled, Selected, TypeOK
  <2>2. m \in fstab.opts /\ m \in live
    BY <2>1 DEF QuotaInv, WorkIsSelected, ProgressInv, RemountedSoFar
  <2>3. on[m] = Both
    BY <2>1 DEF ProgressInv, ActivatedSoFar, BothOn, Activation
  <2>4. QED BY <2>2, <2>3
<1>2. [][True]_vars <=> EnabledIsTrue
  BY DEF EnabledIsTrue
<1>3. QED BY <1>1, <1>2, ProgressInvariant, PTL

\* A report that fstab was put back is true: no quota is on among the mounts,
\* and no option is left that was not there, unless the look at the quotas
\* failed (the except clause of enable_storage_quotas).
THEOREM RollbackIsTrue == Spec => RestoredIsTrue
<1> DEFINE True == Restored /\ ~proc.blind => /\ AnyQuota(Selected(proc.plan)) = {}
                                              /\ fstab.opts = proc.before.opts
<1>1. ProgressInv => True
  BY DEF Restored, ProgressInv, RollbackIsClean
<1>2. [][True]_vars <=> RestoredIsTrue
  BY DEF RestoredIsTrue
<1>3. QED BY <1>1, <1>2, ProgressInvariant, PTL
-----------------------------------------------------------------------------
(***************************************************************************)
(* A failed report, as long as it is not used: what it says is off is what *)
(* is on, of the mounts it is about, since only a command, the recovery    *)
(* itself and a reboot change that.                                        *)
(***************************************************************************)
ReportIsCurrent ==
    result # None /\ result.status = "failed" /\ ~result.blind /\ ~result.rebooted =>
      AnyQuota(result.selected) = result.off

LEMMA NextReport ==
  ASSUME TypeOK, QuotaInv, ProgressInv, ReportIsCurrent, [Next]_vars
  PROVE  ReportIsCurrent'
<1> USE DEF ReportIsCurrent
<1>1. CASE UNCHANGED vars \/ MakePlan
  BY <1>1 DEF vars, MakePlan, hostVars, AnyQuota
<1>2. CASE Begin
  BY <1>2 DEF Begin
<1>3. CASE EnableStep
  <2>1. proc \in Running /\ proc # Idle /\ result = None
    BY <1>3, RunningType, IdleIsNotRunning DEF EnableStep, RefuseMount, EditFstab, AllRemounted,
      QuotaOn, Enabled, Observe, Restore, Restored, Remount, QuotaCheck, RemountBack,
      QuotaInv, FailureSeesMine
  <2>2. CASE Enabled
    BY <2>2 DEF Enabled, Report
  <2>3. CASE Restored
    BY <2>3 DEF Restored, Report, ProgressInv, RollbackIsClean, hostVars, AnyQuota
  <2>4. CASE Observe
    <3>1. UNCHANGED on
      BY <2>4 DEF Observe, hostVars
    <3>2. \/ UNCHANGED result
          \/ proc' = Idle
             /\ result' = Report("failed", "skipped", AnyQuota(Selected(proc.plan)))
      BY <2>4 DEF Observe
    <3>3. QED BY <2>1, <3>1, <3>2 DEF Report, AnyQuota
  <2>5. CASE ~(Enabled \/ Restored \/ Observe)
    BY <1>3, <2>1, <2>5 DEF EnableStep, RefuseMount, EditFstab, AllRemounted, QuotaOn, Restore,
      Remount, QuotaCheck, RemountBack, hostVars
  <2>6. QED BY <2>2, <2>3, <2>4, <2>5
<1>4. CASE Recover
  BY <1>4 DEF Recover
<1>5. CASE EditByOther \/ Crash
  BY <1>5 DEF EditByOther, Crash, hostVars, AnyQuota
<1>6. CASE Reboot
  BY <1>6 DEF Reboot, TypeOK, Results
<1>7. QED BY <1>1, <1>2, <1>3, <1>4, <1>5, <1>6 DEF Next

LEMMA ReportInvariant == Spec => [](TypeOK /\ ReportIsCurrent)
<1>1. Init => ReportIsCurrent
  BY DEF Init, ReportIsCurrent
<1>2. QED BY <1>1, NextReport, ProgressInvariant, PTL DEF Spec

\* The recovery commands that the report of a failed enable lists leave no quota
\* on, however long after it they are run, unless the host was rebooted in
\* between or the look at the quotas failed (enable_storage_quotas).
THEOREM RecoveryIsComplete == Spec => RecoveryUndoes
<1> DEFINE True == Recover /\ result.clean /\ ~result.blind /\ ~result.rebooted =>
                     \A m \in result.selected : on'[m] = {}
<1>1. TypeOK /\ ReportIsCurrent => True
  BY DEF Recover, TypeOK, ReportIsCurrent, AnyQuota, Results
<1>2. [][True]_vars <=> RecoveryUndoes
  BY DEF RecoveryUndoes
<1>3. QED BY <1>1, <1>2, ReportInvariant, PTL
=============================================================================
