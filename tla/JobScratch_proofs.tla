-------------------------- MODULE JobScratch_proofs --------------------------
(***************************************************************************)
(* Theorems about JobScratch for every set of users and jobs, whoever owns *)
(* them, and every number of faults and changes of the host.               *)
(***************************************************************************)
EXTENDS JobScratch, TLAPS

\* The initial state is well-typed.
LEMMA InitType == Init => TypeOK
<1> SUFFICES ASSUME Init PROVE TypeOK
  OBVIOUS
<1>1. /\ phase \in [Jobs -> Phases]
      /\ dirs \in [Jobs -> {"none", "scratch", "root"}]
  BY DEF Init, Phases
<1>2. /\ refs \subseteq Jobs /\ excused \subseteq Jobs
      /\ roots \subseteq Users /\ acl \subseteq Users
  BY DEF Init
<1>3. restricted \in BOOLEAN /\ marker \in BOOLEAN
  BY Zenon DEF Init
<1>4. /\ mode \in GpuModes \cup {"empty"} /\ scratch \in ScratchStates
      /\ health \in {"idle", "healthy", "unhealthy"} /\ login \in Modes \cup {"idle", "restrict"}
  BY DEF Init, GpuModes, ScratchStates
<1>5. faults \in 0..MaxFaults /\ changes \in 0..MaxChanges
  BY BoundsAssumption DEF Init
<1>6. QED BY <1>1, <1>2, <1>3, <1>4, <1>5 DEF TypeOK

\* The moves of slurmctld and slurmd.
LEMMA SlurmType ==
  ASSUME TypeOK, NEW j \in Jobs, Submit(j) \/ StartProlog(j) \/ EndJob(j)
  PROVE  TypeOK'
  BY DEF TypeOK, Submit, StartProlog, EndJob, Goto, Phases, Prolog, Epilog,
         devVars, loginVars, scratchVars

\* The prolog, one command after the other.
LEMMA PrologType ==
  ASSUME TypeOK, NEW j \in Jobs, PrologStep(j)
  PROVE  TypeOK'
<1> USE DEF TypeOK, Goto, Phases, Prolog, Epilog, devVars, loginVars, scratchVars
<1>1. CASE CheckMarker(j)
  BY <1>1 DEF CheckMarker
<1>2. CASE MakeDir(j)
  <2>1. /\ phase' \in [Jobs -> Phases]
        /\ dirs' \in [Jobs -> {"none", "scratch", "root"}]
    BY <1>2 DEF MakeDir, Shown
  <2>2. faults' \in 0..MaxFaults
    BY <1>2, BoundsAssumption DEF MakeDir, Fault
  <2>3. QED BY <1>2, <2>1, <2>2 DEF MakeDir
<1>3. CASE ReadMode(j)
  BY <1>3 DEF ReadMode
<1>4. CASE AskJob(j)
  BY <1>4, BoundsAssumption DEF AskJob, Fault
<1>5. CASE Refer(j)
  BY <1>5, BoundsAssumption, JobsAssumption DEF Refer, Fault
<1>6. CASE Grant(j)
  <2>1. acl' \subseteq Users /\ excused' \subseteq Jobs
    BY <1>6, JobsAssumption DEF Grant
  <2>2. faults' \in 0..MaxFaults
    BY <1>6, BoundsAssumption DEF Grant, Fault
  <2>3. QED BY <1>6, <2>1, <2>2 DEF Grant
<1>7. CASE Trap(j)
  BY <1>7 DEF Trap
<1>8. QED
  BY <1>1, <1>2, <1>3, <1>4, <1>5, <1>6, <1>7 DEF PrologStep

\* The epilog.
LEMMA EpilogType ==
  ASSUME TypeOK, NEW j \in Jobs, EpilogStep(j)
  PROVE  TypeOK'
<1> USE DEF TypeOK, Goto, Phases, Prolog, Epilog, devVars, loginVars, scratchVars
<1>1. CASE RemoveDir(j)
  <2>1. /\ phase' \in [Jobs -> Phases]
        /\ dirs' \in [Jobs -> {"none", "scratch", "root"}]
    BY <1>1 DEF RemoveDir
  <2>2. faults' \in 0..MaxFaults
    BY <1>1, BoundsAssumption DEF RemoveDir, Fault
  <2>3. QED BY <1>1, <2>1, <2>2 DEF RemoveDir
<1>2. CASE ReadModeAgain(j)
  BY <1>2 DEF ReadModeAgain
<1>3. CASE Unrefer(j)
  BY <1>3 DEF Unrefer
<1>4. CASE FindRefs(j)
  BY <1>4 DEF FindRefs
<1>5. CASE Revoke(j)
  BY <1>5, BoundsAssumption DEF Revoke, Fault
<1>6. QED
  BY <1>1, <1>2, <1>3, <1>4, <1>5 DEF EpilogStep

\* ssn-scratch-health, ssn-login-isolation and the host.
LEMMA HostType ==
  ASSUME TypeOK, HealthStep \/ LoginStep \/ ScratchChanges \/ Reboot
  PROVE  TypeOK'
<1> USE DEF TypeOK, devVars, loginVars, scratchVars
<1>1. CASE HealthStep
  BY <1>1 DEF HealthStep, HealthCheck, HealthWrite
<1>2. CASE LoginStep
  <2>1. CASE \E m \in Modes : LoginOpen(m)
    BY <2>1, BoundsAssumption DEF LoginOpen, Change
  <2>2. CASE LoginWrite
    BY <2>2 DEF LoginWrite, Modes, GpuModes, GpuModeOf
  <2>3. CASE LoginRestrict
    BY <2>3 DEF LoginRestrict
  <2>4. QED
    BY <1>2, <2>1, <2>2, <2>3 DEF LoginStep
<1>3. CASE ScratchChanges
  BY <1>3, BoundsAssumption DEF ScratchChanges, Change
<1>4. CASE Reboot
  <2>1. phase' \in [Jobs -> Phases]
    BY <1>4 DEF Reboot, Phases
  <2>2. changes' \in 0..MaxChanges
    BY <1>4, BoundsAssumption DEF Reboot, Change
  <2>3. restricted' \in BOOLEAN /\ marker' \in BOOLEAN
    BY <1>4, Zenon DEF Reboot
  <2>4. QED BY <1>4, <2>1, <2>2, <2>3 DEF Reboot
<1>5. QED
  BY <1>1, <1>2, <1>3, <1>4

LEMMA NextType ==
  ASSUME TypeOK, [Next]_vars
  PROVE  TypeOK'
<1>1. CASE Next
  BY <1>1, SlurmType, PrologType, EpilogType, HostType DEF Next
<1>2. CASE UNCHANGED vars
  BY <1>2 DEF vars, TypeOK, devVars, loginVars, scratchVars
<1>3. QED BY <1>1, <1>2

\* Every variable keeps to its type.
THEOREM TypeCorrect == Spec => []TypeOK
<1>1. Init => TypeOK
  BY InitType
<1>2. TypeOK /\ [Next]_vars => TypeOK'
  BY NextType
<1>3. QED BY <1>1, <1>2, PTL DEF Spec
-----------------------------------------------------------------------------
(***************************************************************************)
(* Device access.  A reference file belongs to a job between its touch and *)
(* its epilog's rm.  An epilog that is about to revoke has seen no         *)
(* reference of the owner, and one made since is excused.  Who is on the   *)
(* device has a directory, and a job that still has to take him off.       *)
(***************************************************************************)
Referred == {"grant", "running", "rmdir", "emode", "unref", "skipped", "left"}
Ending == {"find", "revoke", "skipped", "left"}

RefsBelongToJobs ==
    /\ \A j \in refs : phase[j] \in Referred
    /\ \A j \in Jobs : phase[j] = "grant" => j \in refs /\ Owner[j] \in roots
    /\ acl \subseteq roots

RevokersSawNoRefs ==
    \A k \in Jobs, j \in refs : phase[k] = "revoke" /\ Owner[k] = Owner[j] => j \in excused

AclIsOwed ==
    \A u \in acl : \E j \in Jobs : Owner[j] = u /\ (j \in refs \/ phase[j] \in Ending)

\* The references and the access that comes with them.
DeviceInv ==
    /\ RefsBelongToJobs
    /\ RevokersSawNoRefs
    /\ AclIsOwed
    /\ GrantedJobKeepsAcl

LEMMA InitDevice == Init => DeviceInv
  BY DEF Init, DeviceInv, RefsBelongToJobs, RevokersSawNoRefs, AclIsOwed, GrantedJobKeepsAcl

\* A job that moves along without touching the device changes nothing of it.
LEMMA QuietStep ==
  ASSUME TypeOK, DeviceInv, NEW j \in Jobs, UNCHANGED devVars,
         NEW p \in Phases, Goto(j, p),
         j \in refs => p \in Referred,
         p \notin {"grant", "revoke"},
         p = "running" => phase[j] # "grant" /\ j \notin refs,
         phase[j] \in Ending => p \in Ending
  PROVE  DeviceInv'
<1> USE DEF TypeOK, devVars, Goto
<1>1. /\ phase' = [phase EXCEPT ![j] = p]
      /\ refs' = refs /\ roots' = roots /\ acl' = acl /\ excused' = excused
  BY DEF Goto, devVars
<1>2. RefsBelongToJobs'
  BY <1>1 DEF DeviceInv, RefsBelongToJobs
<1>3. RevokersSawNoRefs'
  BY <1>1 DEF DeviceInv, RevokersSawNoRefs
<1>4. AclIsOwed'
  BY <1>1 DEF DeviceInv, AclIsOwed
<1>5. GrantedJobKeepsAcl'
  BY <1>1 DEF DeviceInv, GrantedJobKeepsAcl
<1>6. QED BY <1>2, <1>3, <1>4, <1>5 DEF DeviceInv

\* slurmctld and slurmd do not touch the device.
LEMMA SlurmDevice ==
  ASSUME TypeOK, DeviceInv, NEW j \in Jobs, Submit(j) \/ StartProlog(j) \/ EndJob(j)
  PROVE  DeviceInv'
<1> USE DEF Phases, Prolog, Epilog, Referred, Ending
<1>1. j \in refs => phase[j] \in Referred
  BY DEF DeviceInv, RefsBelongToJobs
<1>2. CASE Submit(j)
  BY <1>1, <1>2, QuietStep DEF Submit
<1>3. CASE StartProlog(j)
  BY <1>1, <1>3, QuietStep DEF StartProlog
<1>4. CASE EndJob(j)
  BY <1>1, <1>4, QuietStep DEF EndJob
<1>5. QED BY <1>2, <1>3, <1>4

\* The prolog gives access after it has touched the reference file.
LEMMA PrologDevice ==
  ASSUME TypeOK, DeviceInv, NEW j \in Jobs, PrologStep(j)
  PROVE  DeviceInv'
<1> USE DEF Phases, Prolog, Epilog, Referred, Ending
<1>1. j \in refs => phase[j] \in Referred
  BY DEF DeviceInv, RefsBelongToJobs
<1>2. CASE CheckMarker(j)
  BY <1>1, <1>2, QuietStep DEF CheckMarker
<1>3. CASE MakeDir(j)
  BY <1>1, <1>3, QuietStep DEF MakeDir
<1>4. CASE ReadMode(j)
  BY <1>1, <1>4, QuietStep DEF ReadMode
<1>5. CASE AskJob(j)
  BY <1>1, <1>5, QuietStep DEF AskJob
<1>6. CASE Refer(j)
  <2>1. CASE Goto(j, "trap") /\ UNCHANGED <<refs, roots, excused>>
    BY <1>1, <1>6, <2>1, QuietStep DEF Refer, devVars
  <2>2. CASE Goto(j, "grant") /\ refs' = refs \cup {j}
    <3>1. /\ phase[j] = "refer" /\ phase' = [phase EXCEPT ![j] = "grant"]
          /\ roots' = roots \cup {Owner[j]} /\ acl' = acl
          /\ excused' = IF \E k \in Jobs : phase[k] = "revoke" /\ Owner[k] = Owner[j]
                        THEN excused \cup {j} ELSE excused
      BY <1>6, <2>2 DEF Refer, Goto, TypeOK
    <3>2. RefsBelongToJobs'
      BY <2>2, <3>1 DEF TypeOK, DeviceInv, RefsBelongToJobs
    <3>3. RevokersSawNoRefs'
      BY <2>2, <3>1 DEF TypeOK, DeviceInv, RevokersSawNoRefs
    <3>4. AclIsOwed'
      BY <2>2, <3>1 DEF TypeOK, DeviceInv, AclIsOwed
    <3>5. GrantedJobKeepsAcl'
      BY <2>2, <3>1 DEF TypeOK, DeviceInv, GrantedJobKeepsAcl
    <3>6. QED BY <3>2, <3>3, <3>4, <3>5 DEF DeviceInv
  <2>3. QED BY <1>6, <2>1, <2>2 DEF Refer
<1>7. CASE Grant(j)
  <2>1. /\ phase[j] = "grant" /\ phase' = [phase EXCEPT ![j] = "running"]
        /\ refs' = refs /\ roots' = roots
        /\ \/ acl' = acl \cup {Owner[j]} /\ excused' = excused
           \/ acl' = acl /\ excused' = excused \cup {j}
    BY <1>7 DEF Grant, Goto
  <2>2. RefsBelongToJobs'
    BY <2>1 DEF TypeOK, DeviceInv, RefsBelongToJobs
  <2>3. RevokersSawNoRefs'
    BY <2>1 DEF TypeOK, DeviceInv, RevokersSawNoRefs
  <2>4. AclIsOwed'
    BY <2>1 DEF TypeOK, DeviceInv, AclIsOwed, RefsBelongToJobs
  <2>5. GrantedJobKeepsAcl'
    BY <2>1 DEF TypeOK, DeviceInv, GrantedJobKeepsAcl
  <2>6. QED BY <2>2, <2>3, <2>4, <2>5 DEF DeviceInv
<1>8. CASE Trap(j)
  BY <1>1, <1>8, QuietStep DEF Trap
<1>9. QED
  BY <1>2, <1>3, <1>4, <1>5, <1>6, <1>7, <1>8 DEF PrologStep

\* The epilog takes the reference away, looks for others, and revokes.
LEMMA EpilogDevice ==
  ASSUME TypeOK, DeviceInv, NEW j \in Jobs, EpilogStep(j)
  PROVE  DeviceInv'
<1> USE DEF Phases, Prolog, Epilog, Referred, Ending
<1>1. j \in refs => phase[j] \in Referred
  BY DEF DeviceInv, RefsBelongToJobs
<1>2. CASE RemoveDir(j)
  BY <1>1, <1>2, QuietStep DEF RemoveDir
<1>3. CASE ReadModeAgain(j)
  BY <1>1, <1>3, QuietStep DEF ReadModeAgain
<1>4. CASE Unrefer(j)
  <2>1. /\ phase[j] = "unref" /\ phase' = [phase EXCEPT ![j] = "find"]
        /\ refs' = refs \ {j} /\ roots' = roots /\ acl' = acl /\ excused' = excused
    BY <1>4 DEF Unrefer, Goto
  <2>2. RefsBelongToJobs'
    BY <2>1 DEF TypeOK, DeviceInv, RefsBelongToJobs
  <2>3. RevokersSawNoRefs'
    BY <2>1 DEF TypeOK, DeviceInv, RevokersSawNoRefs
  <2>4. AclIsOwed'
    BY <2>1 DEF TypeOK, DeviceInv, AclIsOwed
  <2>5. GrantedJobKeepsAcl'
    BY <2>1 DEF TypeOK, DeviceInv, GrantedJobKeepsAcl
  <2>6. QED BY <2>2, <2>3, <2>4, <2>5 DEF DeviceInv
<1>5. CASE FindRefs(j)
  <2>1. /\ phase[j] = "find"
        /\ refs' = refs /\ roots' = roots /\ acl' = acl /\ excused' = excused
        /\ phase' = [phase EXCEPT ![j] = IF Owner[j] \in roots /\ RefsOf(Owner[j]) = {}
                                         THEN "revoke" ELSE "done"]
    BY <1>5 DEF FindRefs, Goto, devVars
  <2>2. RefsBelongToJobs'
    BY <2>1 DEF TypeOK, DeviceInv, RefsBelongToJobs
  <2>3. RevokersSawNoRefs'
    BY <2>1 DEF TypeOK, DeviceInv, RevokersSawNoRefs, RefsOf
  <2>4. AclIsOwed'
    <3>1. CASE Owner[j] \in roots /\ RefsOf(Owner[j]) = {}
      BY <2>1, <3>1 DEF TypeOK, DeviceInv, AclIsOwed
    <3>2. CASE Owner[j] \notin roots
      <4>1. Owner[j] \notin acl
        BY <3>2 DEF DeviceInv, RefsBelongToJobs
      <4>2. QED BY <2>1, <3>2, <4>1 DEF TypeOK, DeviceInv, AclIsOwed
    <3>3. CASE RefsOf(Owner[j]) # {}
      <4>1. PICK k \in refs : Owner[k] = Owner[j]
        BY <3>3 DEF RefsOf
      <4>2. QED BY <2>1, <3>3, <4>1 DEF TypeOK, DeviceInv, AclIsOwed
    <3>4. QED BY <3>1, <3>2, <3>3
  <2>5. GrantedJobKeepsAcl'
    BY <2>1 DEF TypeOK, DeviceInv, GrantedJobKeepsAcl
  <2>6. QED BY <2>2, <2>3, <2>4, <2>5 DEF DeviceInv
<1>6. CASE Revoke(j)
  <2>1. /\ phase[j] = "revoke" /\ refs' = refs /\ roots' = roots /\ excused' = excused
        /\ \/ acl' = acl \ {Owner[j]} /\ phase' = [phase EXCEPT ![j] = "done"]
           \/ acl' = acl /\ phase' = [phase EXCEPT ![j] = "left"]
    BY <1>6 DEF Revoke, Goto
  <2>2. RefsBelongToJobs'
    BY <2>1 DEF TypeOK, DeviceInv, RefsBelongToJobs
  <2>3. RevokersSawNoRefs'
    BY <2>1 DEF TypeOK, DeviceInv, RevokersSawNoRefs
  <2>4. AclIsOwed'
    BY <2>1 DEF TypeOK, DeviceInv, AclIsOwed
  <2>5. GrantedJobKeepsAcl'
    BY <2>1 DEF TypeOK, DeviceInv, GrantedJobKeepsAcl, RevokersSawNoRefs
  <2>6. QED BY <2>2, <2>3, <2>4, <2>5 DEF DeviceInv
<1>7. QED
  BY <1>2, <1>3, <1>4, <1>5, <1>6 DEF EpilogStep

\* After a reboot nobody has access, and no job runs that has had it.
LEMMA RebootDevice ==
  ASSUME TypeOK, DeviceInv, Reboot
  PROVE  DeviceInv'
<1>1. /\ refs' = {} /\ roots' = {} /\ acl' = {}
      /\ phase' = [j \in Jobs |-> IF phase[j] \in Prolog \cup Epilog \cup {"running"}
                                  THEN "lost" ELSE phase[j]]
  BY DEF Reboot
<1>2. RefsBelongToJobs'
  BY <1>1 DEF RefsBelongToJobs, Prolog
<1>3. RevokersSawNoRefs' /\ AclIsOwed' /\ GrantedJobKeepsAcl'
  BY <1>1 DEF RevokersSawNoRefs, AclIsOwed, GrantedJobKeepsAcl
<1>4. QED BY <1>2, <1>3 DEF DeviceInv

LEMMA NextDevice ==
  ASSUME TypeOK, DeviceInv, [Next]_vars
  PROVE  DeviceInv'
<1>1. CASE UNCHANGED <<phase, devVars>>
  BY <1>1 DEF devVars, DeviceInv, RefsBelongToJobs, RevokersSawNoRefs, AclIsOwed,
              GrantedJobKeepsAcl
<1>2. CASE HealthStep \/ LoginStep \/ ScratchChanges
  <2>1. UNCHANGED <<phase, devVars>>
    BY <1>2 DEF HealthStep, HealthCheck, HealthWrite, LoginStep, LoginOpen, LoginWrite,
                LoginRestrict, ScratchChanges
  <2>2. QED BY <1>1, <2>1
<1>3. CASE UNCHANGED vars
  <2>1. UNCHANGED <<phase, devVars>>
    BY <1>3 DEF vars
  <2>2. QED BY <1>1, <2>1
<1>4. QED
  BY <1>2, <1>3, SlurmDevice, PrologDevice, EpilogDevice, RebootDevice DEF Next

\* A running job whose reference file is there is on the device ACL, unless its
\* setfacl failed or it raced an epilog of its owner: whatever jobs of whatever
\* owners start and end beside it (prolog and epilog of job_scratch).
THEOREM GrantedJobs == Spec => []GrantedJobKeepsAcl
<1>1. Init => TypeOK /\ DeviceInv
  BY InitType, InitDevice
<1>2. TypeOK /\ DeviceInv /\ [Next]_vars => (TypeOK /\ DeviceInv)'
  BY NextType, NextDevice
<1>3. TypeOK /\ DeviceInv => GrantedJobKeepsAcl
  BY DEF DeviceInv
<1>4. QED BY <1>1, <1>2, <1>3, PTL DEF Spec

\* Nobody stays on the device ACL once all his jobs are cleaned up, unless an
\* epilog read another mode or failed.
THEOREM AccessEnds == Spec => []AclEndsWithJobs
<1>1. Init => TypeOK /\ DeviceInv
  BY InitType, InitDevice
<1>2. TypeOK /\ DeviceInv /\ [Next]_vars => (TypeOK /\ DeviceInv)'
  BY NextType, NextDevice
<1>3. TypeOK /\ DeviceInv => AclEndsWithJobs
  BY DEF TypeOK, DeviceInv, AclIsOwed, RefsBelongToJobs, AclEndsWithJobs, Live,
         Referred, Ending, Prolog, Epilog
<1>4. QED BY <1>1, <1>2, <1>3, PTL DEF Spec
=============================================================================
