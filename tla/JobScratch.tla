----------------------------- MODULE JobScratch -----------------------------
(***************************************************************************)
(* The scratch directory and the GPU device access of Slurm jobs: what the *)
(* job prolog and epilog do for each job, concurrently (no                 *)
(* PrologFlags=Serial), beside ssn-scratch-health, which sets and clears   *)
(* the unhealthy marker, and ssn-login-isolation --apply, which switches   *)
(* the GPU mode file.  The prolog touches a reference file under the       *)
(* owner's directory and adds him to the device ACL; the epilog takes him  *)
(* off once it finds no reference of his.                                  *)
(* The device nodes are one device: their loops are one step.              *)
(***************************************************************************)
EXTENDS Naturals, FiniteSets

CONSTANTS Users, Jobs,
          Owner,          \* the user of each job
          GpuJobs,        \* the jobs scontrol shows a GPU for
          MaxChanges,     \* bound on mounts, reboots and login-isolation runs
          MaxFaults       \* bound on failing commands

ASSUME JobsAssumption == Owner \in [Jobs -> Users] /\ GpuJobs \subseteq Jobs
ASSUME BoundsAssumption == MaxChanges \in Nat /\ MaxFaults \in Nat

Prolog == {"check", "mkdir", "mode", "ask", "refer", "grant", "trap"}
Epilog == {"rmdir", "emode", "unref", "find", "revoke"}
\* done: the epilog went through.  skipped: it read another GPU mode.
\* left: a command of it failed.  lost: the node went down under the job.
Phases == {"new", "pending", "running", "failed", "done", "skipped", "left", "lost"}
            \cup Prolog \cup Epilog
\* The modes of the command line, and what the mode file says for each.
Modes == {"cgroup", "acl", "limits", "disabled"}
GpuModes == {"acl", "cgroup", "disabled"}
GpuModeOf(m) == IF m = "limits" THEN "disabled" ELSE m
ScratchStates == {"mounted", "unmounted", "readonly"}

VARIABLES
    phase,      \* per job
    dirs,       \* per job: the filesystem its directory is on, or none
    refs,       \* the jobs with a reference file
    roots,      \* the users with a directory under gpu-acl
    acl,        \* the users on the ACL of the device
    restricted, \* the device is 0660 root:root
    mode,       \* gpu-isolation-mode; empty while it is being rewritten
    marker,     \* scratch-unhealthy exists
    scratch,    \* what /scratch is
    health,     \* ssn-scratch-health: idle, or the verdict it will write
    login,      \* ssn-login-isolation: idle, the mode it will write, or restrict
    excused,    \* history: jobs whose access was not given, or raced a revoke
    faults, changes

devVars == <<refs, roots, acl, excused>>
loginVars == <<restricted, mode, login>>
scratchVars == <<marker, scratch, health>>
vars == <<phase, dirs, devVars, loginVars, scratchVars, faults, changes>>

TypeOK ==
    /\ phase \in [Jobs -> Phases]
    /\ dirs \in [Jobs -> {"none", "scratch", "root"}]
    /\ refs \subseteq Jobs /\ excused \subseteq Jobs
    /\ roots \subseteq Users /\ acl \subseteq Users
    /\ restricted \in BOOLEAN /\ marker \in BOOLEAN
    /\ mode \in GpuModes \cup {"empty"}
    /\ scratch \in ScratchStates
    /\ health \in {"idle", "healthy", "unhealthy"}
    /\ login \in Modes \cup {"idle", "restrict"}
    /\ faults \in 0..MaxFaults /\ changes \in 0..MaxChanges

Init ==
    /\ phase = [j \in Jobs |-> "new"]
    /\ dirs = [j \in Jobs |-> "none"]
    /\ refs = {} /\ roots = {} /\ acl = {} /\ excused = {}
    /\ restricted = FALSE /\ mode = "disabled" /\ login = "idle"
    /\ marker = FALSE /\ scratch = "mounted" /\ health = "idle"
    /\ faults = 0 /\ changes = 0

RefsOf(u) == {j \in refs : Owner[j] = u}
\* The filesystem that /scratch/jobs shows.
Shown == IF scratch = "unmounted" THEN "root" ELSE "scratch"

Goto(j, p) == phase' = [phase EXCEPT ![j] = p]
Fault == faults < MaxFaults /\ faults' = faults + 1
Change == changes < MaxChanges /\ changes' = changes + 1
-----------------------------------------------------------------------------
(* slurmctld and slurmd *)

\* job_submit.lua refuses every submission while the marker is there.
Submit(j) ==
    /\ phase[j] = "new" /\ ~marker
    /\ Goto(j, "pending")
    /\ UNCHANGED <<dirs, devVars, loginVars, scratchVars, faults, changes>>

StartProlog(j) ==
    /\ phase[j] = "pending"
    /\ Goto(j, "check")
    /\ UNCHANGED <<dirs, devVars, loginVars, scratchVars, faults, changes>>

\* The job ends, or slurmd cleans up after a failed prolog: the epilog starts.
EndJob(j) ==
    /\ phase[j] \in {"running", "failed"}
    /\ Goto(j, "rmdir")
    /\ UNCHANGED <<dirs, devVars, loginVars, scratchVars, faults, changes>>
-----------------------------------------------------------------------------
(* The prolog *)

CheckMarker(j) ==
    /\ phase[j] = "check"
    /\ Goto(j, IF marker THEN "trap" ELSE "mkdir")
    /\ UNCHANGED <<dirs, devVars, loginVars, scratchVars, faults, changes>>

\* mkdir -p makes the directory on whatever is at /scratch.
MakeDir(j) ==
    /\ phase[j] = "mkdir"
    /\ UNCHANGED <<devVars, loginVars, scratchVars, changes>>
    /\ \/ /\ scratch # "readonly"
          /\ Goto(j, "mode")
          /\ dirs' = [dirs EXCEPT ![j] = Shown]
          /\ UNCHANGED faults
       \/ /\ (scratch = "readonly" /\ UNCHANGED faults) \/ Fault
          /\ Goto(j, "trap")
          /\ UNCHANGED dirs

ReadMode(j) ==
    /\ phase[j] = "mode"
    /\ Goto(j, IF mode = "acl" THEN "ask" ELSE "running")
    /\ UNCHANGED <<dirs, devVars, loginVars, scratchVars, faults, changes>>

\* A failing scontrol is the empty string, which names no GPU.
AskJob(j) ==
    /\ phase[j] = "ask"
    /\ \/ Goto(j, IF j \in GpuJobs THEN "refer" ELSE "running") /\ UNCHANGED faults
       \/ Goto(j, "running") /\ Fault
    /\ UNCHANGED <<dirs, devVars, loginVars, scratchVars, changes>>

\* An epilog of the owner that is about to revoke has not seen this reference.
Refer(j) ==
    /\ phase[j] = "refer"
    /\ \/ /\ Goto(j, "grant")
          /\ roots' = roots \cup {Owner[j]}
          /\ refs' = refs \cup {j}
          /\ excused' = IF \E k \in Jobs : phase[k] = "revoke" /\ Owner[k] = Owner[j]
                        THEN excused \cup {j} ELSE excused
          /\ UNCHANGED faults
       \/ Goto(j, "trap") /\ Fault /\ UNCHANGED <<refs, roots, excused>>
    /\ UNCHANGED <<dirs, acl, loginVars, scratchVars, changes>>

\* setfacl ... || true
Grant(j) ==
    /\ phase[j] = "grant"
    /\ Goto(j, "running")
    /\ \/ acl' = acl \cup {Owner[j]} /\ UNCHANGED <<excused, faults>>
       \/ excused' = excused \cup {j} /\ Fault /\ UNCHANGED acl
    /\ UNCHANGED <<dirs, refs, roots, loginVars, scratchVars, changes>>

\* The EXIT trap writes the marker whatever the failure was, and also when
\* the failure was the marker.
Trap(j) ==
    /\ phase[j] = "trap"
    /\ Goto(j, "failed")
    /\ marker' = TRUE
    /\ UNCHANGED <<dirs, devVars, loginVars, scratch, health, faults, changes>>
-----------------------------------------------------------------------------
(* The epilog *)

\* Under set -e a failing rm ends the epilog.
RemoveDir(j) ==
    /\ phase[j] = "rmdir"
    /\ UNCHANGED <<devVars, loginVars, scratchVars, changes>>
    /\ \/ /\ dirs[j] = Shown /\ scratch # "readonly"
          /\ Goto(j, "emode") /\ dirs' = [dirs EXCEPT ![j] = "none"] /\ UNCHANGED faults
       \/ /\ dirs[j] # Shown
          /\ Goto(j, "emode") /\ UNCHANGED <<dirs, faults>>
       \/ /\ dirs[j] = Shown
          /\ (scratch = "readonly" /\ UNCHANGED faults) \/ Fault
          /\ Goto(j, "left") /\ UNCHANGED dirs

ReadModeAgain(j) ==
    /\ phase[j] = "emode"
    /\ Goto(j, IF mode = "acl" THEN "unref" ELSE "skipped")
    /\ UNCHANGED <<dirs, devVars, loginVars, scratchVars, faults, changes>>

\* Mutant: the reference file stays.
UnreferNothing(j) ==
    /\ phase[j] = "unref"
    /\ Goto(j, "find")
    /\ UNCHANGED <<dirs, devVars, loginVars, scratchVars, faults, changes>>

Unrefer(j) ==
    /\ phase[j] = "unref"
    /\ Goto(j, "find")
    /\ refs' = refs \ {j}
    /\ UNCHANGED <<dirs, roots, acl, excused, loginVars, scratchVars, faults, changes>>

\* Mutant: the other references are not looked for.
FindNothing(j) ==
    /\ phase[j] = "find"
    /\ Goto(j, IF Owner[j] \in roots THEN "revoke" ELSE "done")
    /\ UNCHANGED <<dirs, devVars, loginVars, scratchVars, faults, changes>>

\* [ -d "$acl_root" ] && ! find "$acl_root" -type f ... | grep -q .
FindRefs(j) ==
    /\ phase[j] = "find"
    /\ Goto(j, IF Owner[j] \in roots /\ RefsOf(Owner[j]) = {} THEN "revoke" ELSE "done")
    /\ UNCHANGED <<dirs, devVars, loginVars, scratchVars, faults, changes>>

Revoke(j) ==
    /\ phase[j] = "revoke"
    /\ \/ acl' = acl \ {Owner[j]} /\ Goto(j, "done") /\ UNCHANGED faults
       \/ UNCHANGED acl /\ Goto(j, "left") /\ Fault
    /\ UNCHANGED <<dirs, refs, roots, excused, loginVars, scratchVars, changes>>
-----------------------------------------------------------------------------
(* ssn-scratch-health *)

HealthCheck ==
    /\ health = "idle"
    /\ health' = IF scratch = "mounted" THEN "healthy" ELSE "unhealthy"
    /\ UNCHANGED <<phase, dirs, devVars, loginVars, marker, scratch, faults, changes>>

\* Mutant: a healthy verdict does not clear the marker.
HealthWriteBadOnly ==
    /\ health # "idle"
    /\ marker' = (marker \/ health = "unhealthy")
    /\ health' = "idle"
    /\ UNCHANGED <<phase, dirs, devVars, loginVars, scratch, faults, changes>>

\* write_scratch_health_state, by the verdict reached earlier.
HealthWrite ==
    /\ health # "idle"
    /\ marker' = (health = "unhealthy")
    /\ health' = "idle"
    /\ UNCHANGED <<phase, dirs, devVars, loginVars, scratch, faults, changes>>
-----------------------------------------------------------------------------
(* ssn-login-isolation --apply: write_text truncates and then writes.      *)

LoginOpen(m) ==
    /\ login = "idle" /\ Change
    /\ mode' = "empty" /\ login' = m
    /\ UNCHANGED <<phase, dirs, devVars, restricted, scratchVars, faults>>

\* Mutant: the argument is written as it is.
LoginWriteArgument ==
    /\ login \in Modes
    /\ mode' = login
    /\ login' = IF login = "acl" THEN "restrict" ELSE "idle"
    /\ UNCHANGED <<phase, dirs, devVars, restricted, scratchVars, faults, changes>>

LoginWrite ==
    /\ login \in Modes
    /\ mode' = GpuModeOf(login)
    /\ login' = IF login = "acl" THEN "restrict" ELSE "idle"
    /\ UNCHANGED <<phase, dirs, devVars, restricted, scratchVars, faults, changes>>

\* apply_gpu_acl_baseline; nothing calls restore_gpu_device_permissions.
LoginRestrict ==
    /\ login = "restrict"
    /\ restricted' = TRUE /\ login' = "idle"
    /\ UNCHANGED <<phase, dirs, devVars, mode, scratchVars, faults, changes>>
-----------------------------------------------------------------------------
(* The host *)

ScratchChanges ==
    /\ Change
    /\ scratch' \in ScratchStates \ {scratch}
    /\ UNCHANGED <<phase, dirs, devVars, loginVars, marker, health, faults>>

\* /run and /dev start anew; the mode file and the directories stay.
Reboot ==
    /\ Change
    /\ phase' = [j \in Jobs |-> IF phase[j] \in Prolog \cup Epilog \cup {"running"}
                                THEN "lost" ELSE phase[j]]
    /\ refs' = {} /\ roots' = {} /\ acl' = {}
    /\ restricted' = FALSE /\ login' = "idle"
    /\ marker' = FALSE /\ health' = "idle"
    /\ UNCHANGED <<dirs, excused, mode, scratch, faults>>
-----------------------------------------------------------------------------
PrologStep(j) == CheckMarker(j) \/ MakeDir(j) \/ ReadMode(j) \/ AskJob(j)
                   \/ Refer(j) \/ Grant(j) \/ Trap(j)
EpilogStep(j) == RemoveDir(j) \/ ReadModeAgain(j) \/ Unrefer(j) \/ FindRefs(j) \/ Revoke(j)
HealthStep == HealthCheck \/ HealthWrite
LoginStep == (\E m \in Modes : LoginOpen(m)) \/ LoginWrite \/ LoginRestrict

Next == \/ \E j \in Jobs : \/ Submit(j) \/ StartProlog(j) \/ EndJob(j)
                           \/ PrologStep(j) \/ EpilogStep(j)
        \/ HealthStep \/ LoginStep \/ ScratchChanges \/ Reboot

Spec == Init /\ [][Next]_vars

\* slurmd finishes the scripts it starts; the operator keeps running
\* ssn-scratch-health, as the prolog's message asks.
FairSpec == /\ Spec
            /\ \A j \in Jobs : WF_vars(PrologStep(j)) /\ WF_vars(EpilogStep(j))
            /\ WF_vars(HealthStep)
-----------------------------------------------------------------------------
(* Properties *)

Live(j) == phase[j] \in Prolog \cup Epilog \cup {"running"}

\* A running job that has its reference file keeps its access to the GPU
\* whatever other jobs of the same user end meanwhile: epilogs and prologs
\* run at the same time and share the owner's ACL entry (prolog: touch, then
\* setfacl; epilog: rm, find, setfacl -x).  The exception is what the scripts
\* cannot see: the job put its reference between the find and the setfacl -x
\* of another epilog, or its own setfacl failed.
GrantedJobKeepsAcl ==
    \A j \in refs \ excused : phase[j] = "running" => Owner[j] \in acl

\* The device ACL ends with the jobs it was made for: a user who is on it has
\* a job that has not been cleaned up, or one whose epilog skipped the ACL
\* because the mode was switched under it, or failed.
AclEndsWithJobs ==
    \A u \in acl : \E j \in Jobs :
        Owner[j] = u /\ (Live(j) \/ phase[j] \in {"skipped", "left"})

\* Once /scratch stays as it is, the marker ends up telling the truth, so that
\* submissions are refused exactly while /scratch is bad: against verdicts
\* reached before the change, and prologs that rewrite the marker on failure.
MarkerFollowsScratch ==
    /\ <>[](scratch = "mounted") => <>[]~marker
    /\ <>[](scratch # "mounted") => <>[]marker
=============================================================================
