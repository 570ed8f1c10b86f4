---------------------------- MODULE StorageQuotas ---------------------------
(***************************************************************************)
(* ssn-storage-quotas enable: for the mounts of a reviewed plan it edits   *)
(* fstab, remounts, and runs quotacheck and quotaon; any of it can fail    *)
(* for one mount after it went well for another.  If no quota is on by     *)
(* then, fstab is put back; else everything stays and the report lists     *)
(* recovery commands.  Host reboots, edits of fstab by others and old      *)
(* plans come in between.  home, data and scratch are labels for           *)
(* mountpoints, which may coincide: the model has the mountpoints.         *)
(***************************************************************************)
EXTENDS Naturals, FiniteSets

CONSTANTS None, Mounts,
          MaxFaults, MaxEvents   \* bounds on failing commands; on other people's doings

ASSUME BoundsAssumption == MaxFaults \in Nat /\ MaxEvents \in Nat

Both == {"user", "group"}

VARIABLES
    capable,    \* ext4 mounts with a line in fstab; this does not change
    fstab,      \* opts: mounts with usrquota,grpquota; rest: version of the other lines
    live,       \* mounts mounted with the quota options
    on,         \* per mount: the quotas that are on
    plan,       \* storage-quota-plan.json
    proc,       \* the enable command
    result,     \* the report of the last enable that came to its end
    mine,       \* history: mounts the last enable has turned a quota on for and still sees
    faults, events

hostVars == <<fstab, live, on>>
vars == <<capable, hostVars, plan, proc, result, mine, faults, events>>

Fstabs == [opts : SUBSET Mounts, rest : 0..MaxEvents]
Plans == [needed : SUBSET Mounts, active : SUBSET Mounts]
Idle == [pc |-> "idle"]
\* todo: the mounts still to be done in a loop.  current: the plan was true when
\* the command began.  clean: no selected mount had a quota on then.
Running == [pc : {"edit", "remount", "check", "on", "observe", "restore", "back"},
            plan : Plans, before : Fstabs, todo : SUBSET Mounts, mount : Mounts \cup {None},
            current : BOOLEAN, clean : BOOLEAN, blind : BOOLEAN]
\* blind: the look at the active quotas failed.  rebooted: the host did, since then.
Results == [status : {"enabled", "failed"}, rollback : {"none", "restored", "skipped"},
            selected : SUBSET Mounts, off : SUBSET Mounts, backup : Fstabs, clean : BOOLEAN,
            blind : BOOLEAN, rebooted : BOOLEAN]

TypeOK ==
    /\ capable \subseteq Mounts /\ fstab \in Fstabs /\ live \subseteq Mounts
    /\ on \in [Mounts -> SUBSET Both]
    /\ plan \in Plans \cup {None}
    /\ proc \in Running \cup {Idle}
    /\ result \in Results \cup {None}
    /\ mine \subseteq Mounts
    /\ faults \in 0..MaxFaults /\ events \in 0..MaxEvents

\* A mount may start with quotas on: from fstab, or turned on by hand.
Init ==
    /\ capable \in SUBSET Mounts
    /\ fstab \in [opts : SUBSET Mounts, rest : {0}]
    /\ live = fstab.opts
    /\ on \in [Mounts -> {{}, {"user"}, Both}]
    /\ plan = None /\ proc = Idle /\ result = None /\ mine = {}
    /\ faults = 0 /\ events = 0

Fault == faults < MaxFaults /\ faults' = faults + 1
Event == events < MaxEvents /\ events' = events + 1

Active == {m \in Mounts : on[m] = Both}
AnyQuota(ms) == {m \in ms : on[m] # {}}
\* The mounts whose options, remounts and activations a plan asks for.
Selected(p) == p.needed \cap capable
Activation(p) == Selected(p) \ p.active

Goto(pc) == proc' = [proc EXCEPT !.pc = pc]
GotoLoop(pc, ms) == proc' = [proc EXCEPT !.pc = pc, !.todo = ms]
-----------------------------------------------------------------------------
\* storage_quota_plan, of the host as it is.
Current == [needed |-> {m \in Mounts : ~(on[m] = Both /\ m \in fstab.opts)}, active |-> Active]

MakePlan ==
    /\ plan' = Current
    /\ UNCHANGED <<capable, hostVars, proc, result, mine, faults, events>>

\* enable reads the plan, which may be old, and backs fstab up.  The report of
\* an earlier enable, with its recovery commands, is not used any more.
Begin ==
    /\ proc = Idle /\ plan # None
    /\ proc' = [pc |-> "edit", plan |-> plan, before |-> fstab, todo |-> {}, mount |-> None,
                current |-> plan = Current,
                clean |-> AnyQuota(Selected(plan)) = {}, blind |-> FALSE]
    /\ mine' = {} /\ result' = None
    /\ UNCHANGED <<capable, hostVars, plan, faults, events>>

\* The except clause: what is on decides whether fstab is put back.
Fail == Goto("observe")

\* One mount that cannot have quotas fails the whole command.
RefuseMount ==
    /\ proc.pc = "edit" /\ ~(proc.plan.needed \subseteq capable)
    /\ Fail
    /\ UNCHANGED <<capable, hostVars, plan, result, mine, faults, events>>

\* The new fstab is made from the text read at the start.
EditFstab ==
    /\ proc.pc = "edit" /\ proc.plan.needed \subseteq capable
    /\ \/ /\ fstab' = [proc.before EXCEPT !.opts = @ \cup Selected(proc.plan)]
          /\ GotoLoop("remount", Selected(proc.plan))
          /\ UNCHANGED faults
       \/ Fail /\ Fault /\ UNCHANGED fstab
    /\ UNCHANGED <<capable, live, on, plan, result, mine, events>>

\* A remount takes the options from fstab.
Remounted(m) == IF m \in fstab.opts THEN live \cup {m} ELSE live \ {m}

Remount(m) ==
    /\ proc.pc = "remount" /\ m \in proc.todo
    /\ \/ live' = Remounted(m) /\ GotoLoop("remount", proc.todo \ {m}) /\ UNCHANGED faults
       \/ Fail /\ Fault /\ UNCHANGED live
    /\ UNCHANGED <<capable, fstab, on, plan, result, mine, events>>

AllRemounted ==
    /\ proc.pc = "remount" /\ proc.todo = {}
    /\ GotoLoop("check", Activation(proc.plan))
    /\ UNCHANGED <<capable, hostVars, plan, result, mine, faults, events>>

\* quotacheck needs the options, and refuses while a quota is on.
QuotaCheck(m) ==
    /\ proc.pc = "check" /\ m \in proc.todo
    /\ \/ /\ m \in live /\ on[m] = {}
          /\ proc' = [proc EXCEPT !.pc = "on", !.mount = m] /\ UNCHANGED faults
       \/ /\ ~(m \in live /\ on[m] = {})
          /\ Fail /\ UNCHANGED faults
       \/ Fail /\ Fault
    /\ UNCHANGED <<capable, hostVars, plan, result, mine, events>>

\* Mutant: the return code of quotaon is not looked at.
QuotaOnUnchecked ==
    /\ proc.pc = "on"
    /\ LET m == proc.mount IN
       /\ \/ on' = [on EXCEPT ![m] = Both] /\ UNCHANGED faults
          \/ on' = [on EXCEPT ![m] = {"user"}] /\ Fault
       /\ mine' = mine \cup {m}
       /\ proc' = [proc EXCEPT !.pc = "check", !.todo = @ \ {m}, !.mount = None]
    /\ UNCHANGED <<capable, fstab, live, plan, result, events>>

\* quotaon -ug turns on both, or fails after none or one.
QuotaOn ==
    /\ proc.pc = "on"
    /\ LET m == proc.mount IN
       \/ /\ on' = [on EXCEPT ![m] = Both] /\ mine' = mine \cup {m}
          /\ proc' = [proc EXCEPT !.pc = "check", !.todo = @ \ {m}, !.mount = None]
          /\ UNCHANGED faults
       \/ on' = [on EXCEPT ![m] = {"user"}] /\ mine' = mine \cup {m} /\ Fail /\ Fault
       \/ UNCHANGED <<capable, on, mine>> /\ Fail /\ Fault
    /\ UNCHANGED <<capable, fstab, live, plan, result, events>>

Report(status, rollback, off) ==
    [status |-> status, rollback |-> rollback, selected |-> Selected(proc.plan), off |-> off,
     backup |-> proc.before, clean |-> proc.clean, blind |-> proc.blind, rebooted |-> FALSE]

Enabled ==
    /\ proc.pc = "check" /\ proc.todo = {}
    /\ result' = Report("enabled", "none", {}) /\ proc' = Idle
    /\ UNCHANGED <<capable, hostVars, plan, mine, faults, events>>

\* Mutant: fstab is put back whatever is on.
ObserveNothing ==
    /\ proc.pc = "observe"
    /\ Goto("restore")
    /\ UNCHANGED <<capable, hostVars, plan, result, mine, faults, events>>

\* Mutant: only the mount that failed is looked at.
ObserveFailedMount ==
    /\ proc.pc = "observe"
    /\ LET seen == {m \in Selected(proc.plan) : m = proc.mount /\ on[m] # {}} IN
       IF seen = {} THEN Goto("restore") /\ UNCHANGED result
       ELSE proc' = Idle /\ result' = Report("failed", "skipped", seen)
    /\ UNCHANGED <<capable, hostVars, plan, mine, faults, events>>

\* quotaon -p and repquota of every selected mount: when both fail, a quota
\* that is on is not seen.
Observe ==
    /\ proc.pc = "observe"
    /\ LET seen == AnyQuota(Selected(proc.plan)) IN
       \/ /\ IF seen = {} THEN Goto("restore") /\ UNCHANGED result
             ELSE proc' = Idle /\ result' = Report("failed", "skipped", seen)
          /\ UNCHANGED <<capable, mine, faults>>
       \/ /\ seen # {} /\ Fault /\ UNCHANGED result
          /\ proc' = [proc EXCEPT !.pc = "restore", !.blind = TRUE]
          /\ mine' = {}
    /\ UNCHANGED <<capable, hostVars, plan, events>>

Restore ==
    /\ proc.pc = "restore"
    /\ fstab' = proc.before
    /\ GotoLoop("back", Selected(proc.plan))
    /\ UNCHANGED <<capable, live, on, plan, result, mine, faults, events>>

\* The return code of these remounts is not looked at.
RemountBack(m) ==
    /\ proc.pc = "back" /\ m \in proc.todo
    /\ (live' = Remounted(m) /\ UNCHANGED faults) \/ (UNCHANGED live /\ Fault)
    /\ GotoLoop("back", proc.todo \ {m})
    /\ UNCHANGED <<capable, fstab, on, plan, result, mine, events>>

\* Mutant: the rollback is the status.
RestoredAsStatus ==
    /\ proc.pc = "back" /\ proc.todo = {}
    /\ result' = Report("restored", "restored", {}) /\ proc' = Idle
    /\ UNCHANGED <<capable, hostVars, plan, mine, faults, events>>

Restored ==
    /\ proc.pc = "back" /\ proc.todo = {}
    /\ result' = Report("failed", "restored", {}) /\ proc' = Idle
    /\ UNCHANGED <<capable, hostVars, plan, mine, faults, events>>
-----------------------------------------------------------------------------
(* Around it *)

\* Mutant: the recovery commands leave the quotas on.
RecoverFstab ==
    /\ proc = Idle /\ result # None /\ result.status = "failed"
    /\ fstab' = result.backup
    /\ live' = (live \ result.selected) \cup (result.selected \cap result.backup.opts)
    /\ result' = None
    /\ UNCHANGED <<capable, on, plan, proc, mine, faults, events>>

\* The operator runs the recovery commands of the report: cp, remounts, quotaoff.
Recover ==
    /\ proc = Idle /\ result # None /\ result.status = "failed"
    /\ fstab' = result.backup
    /\ live' = (live \ result.selected) \cup (result.selected \cap result.backup.opts)
    /\ on' = [m \in Mounts |-> IF m \in result.off THEN {} ELSE on[m]]
    /\ mine' = mine \ result.off
    /\ result' = None
    /\ UNCHANGED <<capable, plan, proc, faults, events>>

EditByOther ==
    /\ Event
    /\ fstab' = [fstab EXCEPT !.rest = @ + 1]
    /\ UNCHANGED <<capable, live, on, plan, proc, result, mine, faults>>

Crash ==
    /\ proc # Idle /\ Event
    /\ proc' = Idle
    /\ UNCHANGED <<capable, hostVars, plan, result, mine, faults>>

\* At boot fstab decides, and quotas go on where it has the options.
Reboot ==
    /\ Event
    /\ live' = fstab.opts
    /\ on' = [m \in Mounts |-> IF m \in fstab.opts THEN Both ELSE {}]
    /\ proc' = Idle
    /\ result' = IF result = None THEN None ELSE [result EXCEPT !.rebooted = TRUE]
    /\ UNCHANGED <<capable, fstab, plan, mine, faults>>
-----------------------------------------------------------------------------
EnableStep ==
    \/ RefuseMount \/ EditFstab \/ AllRemounted \/ QuotaOn \/ Enabled
    \/ Observe \/ Restore \/ Restored
    \/ \E m \in Mounts : Remount(m) \/ QuotaCheck(m) \/ RemountBack(m)

Next == MakePlan \/ Begin \/ EnableStep \/ Recover \/ EditByOther \/ Crash \/ Reboot

Spec == Init /\ [][Next]_vars

\* The command runs on; the operator plans and enables again, and at some
\* point runs the recovery commands of a failed report.
FairSpec == /\ Spec
            /\ WF_vars(EnableStep) /\ WF_vars(MakePlan) /\ WF_vars(Begin)
            /\ SF_vars(Recover)
-----------------------------------------------------------------------------
(* Properties *)

\* "enabled" is the truth about every selected mount, for a plan that was
\* still true when the command began.
EnabledIsTrue ==
    [][Enabled /\ proc.current =>
        \A m \in Selected(proc.plan) : on[m] = Both /\ m \in fstab.opts /\ m \in live]_vars

\* A quota this command has turned on survives a reboot: however far it came,
\* whatever failed and wherever it died, fstab never loses the options of such a
\* mount, unless the look at the active quotas failed as well.
ActivationIsPersistent ==
    mine \subseteq fstab.opts

\* A report that says fstab was restored leaves no quota on, and no options in
\* fstab that were not there before.
RestoredIsTrue ==
    [][Restored /\ ~proc.blind => /\ AnyQuota(Selected(proc.plan)) = {}
                                  /\ fstab.opts = proc.before.opts]_vars

\* The printed recovery commands leave no quota on among mounts that had none
\* before the failed enable, whoever edited fstab and planned again in between:
\* the commands are made from one look at the host and are run much later.  A look
\* that failed and a reboot, which turns on more than was seen, are excepted.
RecoveryUndoes ==
    [][Recover /\ result.clean /\ ~result.blind /\ ~result.rebooted =>
        \A m \in result.selected : on'[m] = {}]_vars

\* When nothing fails any more, planning again, enabling from plans that are
\* current, and running the recovery commands end with both quotas on for every
\* mount, from every partial activation a failure or a crash has left.
EnablingConverges ==
    Mounts = capable /\ <>[](proc # Idle => proc.current)
        => <>[](\A m \in Mounts : on[m] = Both /\ m \in fstab.opts)
=============================================================================
