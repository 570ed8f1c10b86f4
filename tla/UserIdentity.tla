---------------------------- MODULE UserIdentity ----------------------------
(***************************************************************************)
(* ssn-sync-users --apply for several users at once: which UID, GID and    *)
(* project groups each of them gets, and what users-state.yml remembers of *)
(* it.  A sync validates users.yml against the host, plans the actions of  *)
(* every user in order of name, and carries them out one by one on an      *)
(* in-memory state that reaches the disk at the end of the sync, or when   *)
(* the lifecycle of an inactive user persists it.  In between, commands    *)
(* fail, the sync dies, and an administrator runs useradd, userdel and     *)
(* gpasswd by hand.  The archive of a retired user is the business of      *)
(* InactiveLifecycle; here he keeps his account for now or loses it.       *)
(***************************************************************************)
EXTENDS Integers, Sequences, FiniteSetsExt, SequencesExt

CONSTANTS
    None,
    UserOrder,   \* the user names, sorted
    Projects,    \* names of project groups
    MaxId,       \* UIDs and GIDs are 1 .. MaxId
    Rows,        \* what users.yml may say of a user
    FirstDoc,    \* users.yml at the start
    MaxEdits, MaxByHand, MaxFaults   \* bounds on changes of users.yml, of the host, on failures

Users == ToSet(UserOrder)
Ids == 1..MaxId

ASSUME NamesAssumption ==
    UserOrder \in Seq(Users) /\ IsInjective(UserOrder)
      /\ Users \cap Projects = {} /\ IsFiniteSet(Projects)
ASSUME BoundsAssumption == {MaxId, MaxEdits, MaxByHand, MaxFaults} \subseteq Nat

\* The keys of an entry of users.yml that bear on identity.
AllRows == [status : {"active", "suspended", "inactive"}, uid : Ids \cup {None},
            gid : Ids \cup {None}, groups : SUBSET Projects, adopt : BOOLEAN]

ASSUME RowsAssumption == Rows \subseteq AllRows

VARIABLES
    doc,      \* users.yml: row of each user, and for each project group absent, defined or adopted
    passwd,   \* accounts: uid, gid of the primary group, locked
    group,    \* GID of each private and project group
    members,  \* supplementary members of the project groups
    file,     \* users-state.yml; an entry is always "managed"
    proc,     \* the sync
    byHand,   \* history: ids that an administrator gave out or freed by hand
    joined,   \* history: project groups that a sync has put a user in
    edits, hands, faults

hostVars == <<passwd, group, members>>
histVars == <<byHand, joined>>
boundVars == <<edits, hands, faults>>
vars == <<doc, hostVars, file, proc, histVars, boundVars>>

Docs == [row : [Users -> Rows \cup {None}],
         group : [Projects -> {"absent", "defined", "adopted"}]]
ASSUME DocAssumption == FirstDoc \in Docs

Accounts == [uid : Ids, gid : Ids, locked : BOOLEAN]
\* gone: leaving stands for every archive state from archive_pending to removal_ready.
Entries == [status : {"active", "suspended", "inactive"},
            gone : {"none", "leaving", "tombstoned"},
            uid : Ids, gid : Ids, ouid : Ids, ogid : Ids, groups : SUBSET Projects]
Idle == [pc |-> "idle"]
Kinds == {"create", "unlock", "lock", "primary", "join", "leave", "record",
          "inactive", "userdel", "tombstone"}
Steps == [kind : Kinds \ {"join"}, group : {None}] \cup [kind : {"join"}, group : Projects]

\* None is neither an id nor an account nor an entry.
ASSUME NoneAssumption == None \notin Ids \cup Accounts \cup Entries

\* todo: what is left of the plan for each user.  mem: state_doc.  targets: all
\* users, or the one of --user.  hurt: a command has failed, or somebody changed
\* the host, since the sync began.
Syncs == [pc : {"apply"}, todo : [Users -> Seq(Steps)], mem : [Users -> Entries \cup {None}],
          targets : SUBSET Users, hurt : BOOLEAN]

TypeOK ==
    /\ doc \in Docs
    /\ passwd \in [Users -> Accounts \cup {None}]
    /\ group \in [Users \cup Projects -> Ids \cup {None}]
    /\ members \in [Projects -> SUBSET Users]
    /\ file \in [Users -> Entries \cup {None}]
    /\ proc \in Syncs \cup {Idle}
    /\ byHand \subseteq Ids /\ joined \in [Users -> SUBSET Projects]
    /\ edits \in 0..MaxEdits /\ hands \in 0..MaxByHand /\ faults \in 0..MaxFaults

Init ==
    /\ doc = FirstDoc
    /\ passwd = [u \in Users |-> None]
    /\ group = [n \in Users \cup Projects |-> None]
    /\ members = [p \in Projects |-> {}]
    /\ file = [u \in Users |-> None]
    /\ proc = Idle
    /\ byHand = {} /\ joined = [u \in Users |-> {}]
    /\ edits = 0 /\ hands = 0 /\ faults = 0

Fault == faults < MaxFaults /\ faults' = faults + 1
-----------------------------------------------------------------------------
\* Lookups in passwd and group.
Exists(u) == passwd[u] # None
UidOwners(i) == {u \in Users : Exists(u) /\ passwd[u].uid = i}
GidOwners(i) == {n \in DOMAIN group : group[n] = i}
UsedUids == {passwd[u].uid : u \in {v \in Users : Exists(v)}}
UsedGids == {group[n] : n \in DOMAIN group} \ {None}
MemberOf(u) == {p \in Projects : u \in members[p]}

\* _reserved_tombstone_ids.
Tombstoned(state) == {u \in Users : state[u] # None /\ state[u].gone = "tombstoned"}
ReservedUids(state, u) ==
    UNION {{state[v].uid, state[v].ouid} : v \in Tombstoned(state) \ {u}}
ReservedGids(state, u) ==
    UNION {{state[v].gid, state[v].ogid} : v \in Tombstoned(state) \ {u}}

\* _next_free_id: the lowest; None if there is none.
NextFree(blocked) == IF Ids \subseteq blocked THEN None ELSE Min(Ids \ blocked)

\* The GID groupadd picks when it is given none: one above the highest in use,
\* or the lowest free one when the range is used up to its end.
GroupaddGid ==
    LET top == Max(UsedGids \cup {0}) IN
    IF top < MaxId THEN top + 1 ELSE NextFree(UsedGids)
-----------------------------------------------------------------------------
\* _validate_local_identity_conflicts finds nothing.
NoLocalConflict(u, row) ==
    /\ Exists(u) => /\ file[u] # None \/ row.adopt
                    /\ passwd[u].uid \notin ReservedUids(file, u)
                    /\ passwd[u].gid \notin ReservedGids(file, u)
    /\ row.uid # None => /\ row.uid \notin ReservedUids(file, u)
                         /\ UidOwners(row.uid) \subseteq {u}
    /\ row.gid # None => /\ row.gid \notin ReservedGids(file, u)
                         /\ GidOwners(row.gid) \subseteq {u} \/ row.adopt
    /\ group[u] # None /\ ~Exists(u) => row.adopt

ManagedGroups == UNION {file[u].groups : u \in {v \in Users : file[v] # None}}

\* validate_users, for the parts of it about groups and identity.
ValidDoc ==
    /\ \A p \in Projects :
         doc.group[p] = "defined" /\ group[p] # None => p \in ManagedGroups
    /\ \A u \in Users : doc.row[u] # None =>
         /\ \A p \in doc.row[u].groups : doc.group[p] # "absent"
         /\ NoLocalConflict(u, doc.row[u])

\* Mutant: only ids that users.yml gives are compared.
MayReturnAnew(u, row) ==
    row.status = "active" /\ file[u] # None /\ file[u].status = "inactive" =>
        /\ row.uid # None => row.uid = file[u].ouid
        /\ row.gid # None => row.gid = file[u].ogid

\* _reactivation_identity_error: a retired user comes back as who he was.
MayReturn(u, row) ==
    row.status = "active" /\ file[u] # None
      /\ (file[u].status = "inactive" \/ file[u].gone = "tombstoned") =>
        /\ row.uid = file[u].ouid /\ row.gid = file[u].ogid
        /\ UidOwners(row.uid) \subseteq {u} /\ GidOwners(row.gid) \subseteq {u}

\* No action of the plan is a validation_error.
NoPlanError(targets) ==
    /\ \A u \in Users : file[u] # None => doc.row[u] # None
    /\ \A u \in targets : doc.row[u] # None => MayReturn(u, doc.row[u])
-----------------------------------------------------------------------------
\* What plan_user_sync compares.
PrivateGroupMatches(u) == Exists(u) /\ group[u] = passwd[u].gid

\* The groups whose membership SSN decides for u.
Universe(state, u) ==
    {p \in Projects : doc.group[p] # "absent"}
      \cup IF state[u] = None THEN {} ELSE state[u].groups

GroupsMatch(u) == Exists(u) /\ MemberOf(u) \cap Universe(file, u) = doc.row[u].groups

EntryMatches(u) ==
    /\ file[u] # None /\ Exists(u)
    /\ file[u].status = doc.row[u].status /\ file[u].groups = doc.row[u].groups
    /\ file[u].uid = passwd[u].uid /\ file[u].gid = passwd[u].gid

Step(kind) == [kind |-> kind, group |-> None]
JoinStep(p) == [kind |-> "join", group |-> p]
When(condition, step) == IF condition THEN <<step>> ELSE <<>>

\* reconcile_managed_groups: one usermod -aG for each group, then the removals.
GroupSteps(u) ==
    LET asked == SetToSeq(doc.row[u].groups) IN
    [i \in DOMAIN asked |-> JoinStep(asked[i])] \o <<Step("leave")>>

PlanActive(u) ==
    When(~Exists(u), Step("create"))
      \o When(Exists(u) /\ passwd[u].locked, Step("unlock"))
      \o When(~PrivateGroupMatches(u), Step("primary"))
      \o (IF GroupsMatch(u) THEN <<>> ELSE GroupSteps(u))
      \o When(Exists(u) /\ ~EntryMatches(u), Step("record"))

PlanSuspended(u) ==
    When(Exists(u) /\ ~passwd[u].locked, Step("lock"))
      \o When(Exists(u) /\ ~EntryMatches(u), Step("record"))

PlanOf(u) ==
    CASE doc.row[u] = None -> <<>>
      [] doc.row[u] # None /\ doc.row[u].status = "active" -> PlanActive(u)
      [] doc.row[u] # None /\ doc.row[u].status = "suspended" -> PlanSuspended(u)
      [] doc.row[u] # None /\ doc.row[u].status = "inactive" -> <<Step("inactive")>>

\* plan_user_sync.
Plan(targets) == [u \in Users |-> IF u \in targets THEN PlanOf(u) ELSE <<>>]

\* A sync that validation lets through.  One that it does not changes nothing.
StartSync(targets) ==
    /\ proc = Idle /\ ValidDoc /\ NoPlanError(targets)
    /\ proc' = [pc |-> "apply", todo |-> Plan(targets), mem |-> file,
                targets |-> targets, hurt |-> FALSE]
    /\ UNCHANGED <<doc, hostVars, file, histVars, boundVars>>
-----------------------------------------------------------------------------
\* The actions are carried out user by user, in order of name.
Before(v, u) == \E i, j \in DOMAIN UserOrder : i < j /\ UserOrder[i] = v /\ UserOrder[j] = u

At(u, kind) ==
    /\ proc # Idle /\ proc.todo[u] # <<>> /\ Head(proc.todo[u]).kind = kind
    /\ \A v \in Users : Before(v, u) => proc.todo[v] = <<>>

NothingLeft == proc # Idle /\ \A u \in Users : proc.todo[u] = <<>>

Row(u) == doc.row[u]

\* Mutant: a user without an account is recorded as well.
RecordedAnyway(u, account) ==
    [proc.mem EXCEPT ![u] =
        [status |-> Row(u).status, gone |-> "none",
         uid |-> IF account = None THEN None ELSE account.uid,
         gid |-> IF account = None THEN None ELSE account.gid,
         ouid |-> IF account = None THEN None ELSE account.uid,
         ogid |-> IF account = None THEN None ELSE account.gid,
         groups |-> Row(u).groups]]

\* _update_state_for_user, which follows every action but the lifecycle's.
Recorded(u, account) ==
    LET old == proc.mem[u] IN
    IF account = None THEN proc.mem ELSE [proc.mem EXCEPT ![u] =
        [status |-> Row(u).status,
         gone |-> IF Row(u).status = "active" \/ old = None THEN "none" ELSE old.gone,
         uid |-> account.uid, gid |-> account.gid,
         ouid |-> IF old = None THEN account.uid ELSE old.ouid,
         ogid |-> IF old = None THEN account.gid ELSE old.ogid,
         groups |-> Row(u).groups]]

Continue(u, mem) == proc' = [proc EXCEPT !.todo[u] = Tail(@), !.mem = mem]
ContinueHurt(u, mem) == proc' = [proc EXCEPT !.todo[u] = Tail(@), !.mem = mem, !.hurt = TRUE]
\* An exception ends the sync; what it held in memory only is gone.
Abort == proc' = Idle

\* The GID of u's first primary group, None if it cannot be had.
CreateGid(u) ==
    LET asked == Row(u).gid
        reserved == ReservedGids(proc.mem, u) IN
    IF asked # None
      THEN IF GidOwners(asked) = {} /\ group[u] # None THEN None ELSE asked
      ELSE IF group[u] = None THEN NextFree(UsedGids \cup reserved)
           ELSE IF group[u] \in reserved THEN None ELSE group[u]

\* Mutant: a free UID is one without an account.
CreateUnusedUid(u) == IF Row(u).uid # None THEN Row(u).uid ELSE NextFree(UsedUids)

CreateUid(u) ==
    IF Row(u).uid # None THEN Row(u).uid
    ELSE NextFree(UsedUids \cup ReservedUids(proc.mem, u))

\* _create_unix_user: groupadd -g unless some group has the GID, then useradd,
\* which fails if an account with that UID, or of that name, has come up.
Create(u) ==
    /\ At(u, "create")
    /\ LET gid == CreateGid(u)
           uid == CreateUid(u)
           account == [uid |-> uid, gid |-> gid, locked |-> FALSE]
           mayAdd == uid \notin UsedUids \cup {None} /\ ~Exists(u)
       IN
       \/ /\ gid = None
          /\ Abort /\ UNCHANGED <<group, passwd, faults>>
       \/ /\ gid # None
          /\ group' = IF GidOwners(gid) = {} THEN [group EXCEPT ![u] = gid] ELSE group
          /\ \/ /\ mayAdd
                /\ passwd' = [passwd EXCEPT ![u] = account]
                /\ Continue(u, Recorded(u, account)) /\ UNCHANGED faults
             \/ /\ ~mayAdd
                /\ Abort /\ UNCHANGED <<passwd, faults>>
             \/ Fault /\ Abort /\ UNCHANGED passwd
    /\ UNCHANGED <<doc, members, file, histVars, edits, hands>>

\* usermod -U or -L; a failure goes unnoticed.
SetLock(u, kind, locked) ==
    /\ At(u, kind)
    /\ \/ /\ passwd' = IF Exists(u) THEN [passwd EXCEPT ![u].locked = locked] ELSE passwd
          /\ Continue(u, Recorded(u, passwd'[u])) /\ UNCHANGED faults
       \/ Fault /\ ContinueHurt(u, Recorded(u, passwd[u])) /\ UNCHANGED passwd
    /\ UNCHANGED <<doc, group, members, file, histVars, edits, hands>>

Unlock(u) == SetLock(u, "unlock", FALSE)
Lock(u) == SetLock(u, "lock", TRUE)

\* _ensure_private_primary_group.
Primary(u) ==
    /\ At(u, "primary")
    /\ LET gid == IF group[u] = None THEN GroupaddGid ELSE group[u] IN
       \/ /\ ~Exists(u) \/ gid = None
          /\ Abort /\ UNCHANGED <<group, passwd, faults>>
       \/ /\ Exists(u) /\ gid # None
          /\ group' = [group EXCEPT ![u] = gid]
          /\ \/ /\ passwd' = [passwd EXCEPT ![u].gid = gid]
                /\ Continue(u, Recorded(u, passwd'[u])) /\ UNCHANGED faults
             \/ Fault /\ Abort /\ UNCHANGED passwd
    /\ UNCHANGED <<doc, members, file, histVars, edits, hands>>

\* _ensure_group_membership.
Join(u) ==
    /\ At(u, "join")
    /\ LET p == Head(proc.todo[u]).group
           gid == IF group[p] = None THEN GroupaddGid ELSE group[p] IN
       \/ /\ gid = None
          /\ Abort /\ UNCHANGED <<group, members, joined, faults>>
       \/ /\ gid # None
          /\ group' = [group EXCEPT ![p] = gid]
          /\ \/ /\ Exists(u)
                /\ members' = [members EXCEPT ![p] = @ \cup {u}]
                /\ joined' = [joined EXCEPT ![u] = @ \cup {p}]
                /\ Continue(u, proc.mem) /\ UNCHANGED faults
             \/ /\ ~Exists(u)
                /\ Abort /\ UNCHANGED <<members, joined, faults>>
             \/ Fault /\ Abort /\ UNCHANGED <<members, joined>>
    /\ UNCHANGED <<doc, passwd, file, byHand, edits, hands>>

\* Mutant: only the groups users-state.yml has for u are looked at.
ToLeaveRecorded(u) ==
    IF proc.mem[u] = None THEN {} ELSE (MemberOf(u) \cap proc.mem[u].groups) \ Row(u).groups

\* The groups reconcile_managed_groups takes u out of.
ToLeave(u) == (MemberOf(u) \cap Universe(proc.mem, u)) \ Row(u).groups

\* gpasswd -d for each; a failure goes unnoticed.
Leave(u) ==
    /\ At(u, "leave")
    /\ \E failing \in SUBSET ToLeave(u) :
         LET left == ToLeave(u) \ failing IN
         /\ members' = [p \in Projects |-> IF p \in left THEN members[p] \ {u} ELSE members[p]]
         /\ joined' = [joined EXCEPT ![u] = @ \ left]
         /\ \/ failing = {} /\ Continue(u, Recorded(u, passwd[u])) /\ UNCHANGED faults
            \/ failing # {} /\ Fault /\ ContinueHurt(u, Recorded(u, passwd[u]))
    /\ UNCHANGED <<doc, passwd, group, file, byHand, edits, hands>>

Record(u) ==
    /\ At(u, "record")
    /\ Continue(u, Recorded(u, passwd[u]))
    /\ UNCHANGED <<doc, hostVars, file, histVars, boundVars>>
-----------------------------------------------------------------------------
\* _apply_inactive_lifecycle, from its first entry in the state to the end of
\* the archive: nothing to do, not possible any more, or the user is locked and
\* is kept for now, is removed next, or an exception comes.
Retire(u) ==
    /\ At(u, "inactive")
    /\ LET old == proc.mem[u]
           new == [status |-> "inactive", gone |-> "leaving",
                   uid |-> passwd[u].uid, gid |-> passwd[u].gid,
                   ouid |-> IF old = None THEN passwd[u].uid ELSE old.ouid,
                   ogid |-> IF old = None THEN passwd[u].gid ELSE old.ogid,
                   groups |-> Row(u).groups]
           mem == [proc.mem EXCEPT ![u] = new]
       IN
       \/ /\ ~Exists(u) /\ u \in Tombstoned(proc.mem)
          /\ Continue(u, proc.mem) /\ UNCHANGED <<passwd, file, faults>>
       \/ /\ ~Exists(u) /\ u \notin Tombstoned(proc.mem)
          /\ Abort /\ UNCHANGED <<passwd, file, faults>>
       \/ /\ Exists(u)
          /\ file' = mem /\ passwd' = [passwd EXCEPT ![u].locked = TRUE]
          /\ \/ Continue(u, mem) /\ UNCHANGED faults
             \/ /\ proc' = [proc EXCEPT !.mem = mem,
                             !.todo[u] = <<Step("userdel")>> \o Tail(@)]
                /\ UNCHANGED faults
             \/ Fault /\ Abort
    /\ UNCHANGED <<doc, group, members, histVars, edits, hands>>

\* userdel takes the user out of all groups, and removes his private group
\* unless it is the primary group of somebody else.
Deleted(u) ==
    /\ passwd' = [passwd EXCEPT ![u] = None]
    /\ members' = [p \in Projects |-> members[p] \ {u}]
    /\ joined' = [joined EXCEPT ![u] = {}]
    /\ group' = IF \E v \in Users \ {u} : Exists(v) /\ passwd[v].gid = group[u]
                THEN group ELSE [group EXCEPT ![u] = None]

Userdel(u) ==
    /\ At(u, "userdel")
    /\ \/ /\ Exists(u) /\ Deleted(u)
          /\ proc' = [proc EXCEPT !.todo[u] = <<Step("tombstone")>> \o Tail(@)]
          /\ UNCHANGED <<file, faults>>
       \/ /\ ~Exists(u)
          /\ file' = proc.mem /\ Abort /\ UNCHANGED <<hostVars, joined, faults>>
       \/ /\ Fault /\ file' = proc.mem
          /\ Abort /\ UNCHANGED <<hostVars, joined>>
    /\ UNCHANGED <<doc, byHand, edits, hands>>

Tombstone(u) ==
    /\ At(u, "tombstone")
    /\ LET mem == [proc.mem EXCEPT ![u].gone = "tombstoned"] IN
       Continue(u, mem) /\ file' = mem
    /\ UNCHANGED <<doc, hostVars, histVars, boundVars>>

\* The end of main: users-state.yml is written.
Finish ==
    /\ NothingLeft
    /\ file' = proc.mem /\ proc' = Idle
    /\ UNCHANGED <<doc, hostVars, histVars, boundVars>>

\* The sync is killed, or an action not modelled here raises an exception.
Crash ==
    /\ proc # Idle /\ Fault /\ Abort
    /\ UNCHANGED <<doc, hostVars, file, histVars, edits, hands>>
-----------------------------------------------------------------------------
\* users.yml is edited between syncs (a running sync has read it already).
Edit(new) ==
    /\ proc = Idle /\ edits < MaxEdits /\ edits' = edits + 1
    /\ doc' = new /\ new # doc
    /\ UNCHANGED <<hostVars, file, proc, histVars, hands, faults>>

EditRow(u, row) == Edit([doc EXCEPT !.row[u] = row])
EditGroup(p, how) == Edit([doc EXCEPT !.group[p] = how])

ByHand ==
    /\ hands < MaxByHand /\ hands' = hands + 1
    /\ proc' = IF proc = Idle THEN Idle ELSE [proc EXCEPT !.hurt = TRUE]
    /\ UNCHANGED <<doc, file, edits, faults>>

IdsOf(entry) == IF entry = None THEN {} ELSE {entry.uid, entry.ouid, entry.gid, entry.ogid}

\* useradd -u: the private group gets the same number, if it is free.
UseraddByHand(u, i) ==
    /\ ~Exists(u) /\ UidOwners(i) = {} /\ GidOwners(i) = {} /\ group[u] = None
    /\ ByHand
    /\ passwd' = [passwd EXCEPT ![u] = [uid |-> i, gid |-> i, locked |-> FALSE]]
    /\ group' = [group EXCEPT ![u] = i]
    /\ byHand' = byHand \cup {i} \cup IdsOf(file[u])
    /\ UNCHANGED <<members, joined>>

UserdelByHand(u) ==
    /\ Exists(u) /\ ByHand /\ Deleted(u)
    /\ byHand' = byHand \cup {passwd[u].uid, passwd[u].gid} \cup IdsOf(file[u])

GpasswdByHand(u, p) ==
    /\ Exists(u) /\ group[p] # None /\ ByHand
    /\ members' = [members EXCEPT ![p] = IF u \in @ THEN @ \ {u} ELSE @ \cup {u}]
    /\ joined' = [joined EXCEPT ![u] = @ \ {p}]
    /\ UNCHANGED <<passwd, group, byHand>>

SyncStep(u) ==
    \/ Create(u) \/ Unlock(u) \/ Lock(u) \/ Primary(u) \/ Join(u) \/ Leave(u) \/ Record(u)
    \/ Retire(u) \/ Userdel(u) \/ Tombstone(u)

Next ==
    \/ \E targets \in {Users} \cup {{u} : u \in Users} : StartSync(targets)
    \/ \E u \in Users : SyncStep(u)
    \/ Finish \/ Crash
    \/ \E u \in Users, row \in Rows : EditRow(u, row)
    \/ \E p \in Projects, how \in {"absent", "defined", "adopted"} : EditGroup(p, how)
    \/ \E u \in Users, i \in Ids : UseraddByHand(u, i)
    \/ \E u \in Users : UserdelByHand(u)
    \/ \E u \in Users, p \in Projects : GpasswdByHand(u, p)

Spec == Init /\ [][Next]_vars
-----------------------------------------------------------------------------
(***************************************************************************)
(* Properties.                                                             *)
(***************************************************************************)

\* No account has the UID of a retired user, unless the one he had first has been
\* handed out or freed by hand: neither a UID that a sync picked, nor one that
\* users.yml asked for, before or after the retirement, in the same sync or in
\* another.
TombstoneKeepsUid ==
    \A u \in Tombstoned(file), v \in Users :
        u # v /\ Exists(v) /\ file[u].ouid \notin byHand
          => passwd[v].uid \notin {file[u].uid, file[u].ouid}

\* The ids of a retired user are kept for him.  An account made for him gets
\* the UID and the GID he had first, although they are checked when the sync
\* begins and used after the actions of other users.
AccountIsHis(u) ==
    passwd[u] = None /\ passwd'[u] # None /\ proc # Idle /\ proc'.pc = "apply"
      /\ hands' = hands /\ proc.mem[u] # None /\ proc.mem[u].status = "inactive"
    => passwd'[u].uid = proc.mem[u].ouid /\ passwd'[u].gid = proc.mem[u].ogid

\* He keeps them after that, like every account: a sync moves no account to another
\* UID, and to another GID only when the group it had is somebody else's.  That may
\* be the GID of a user who returns: it is free when the sync begins, groupadd in an
\* earlier action of the same sync takes it, Create uses it as a number and Primary
\* moves him to a new one.
AccountStaysHis(u) ==
    passwd[u] # None /\ passwd'[u] # None /\ proc # Idle /\ hands' = hands =>
      /\ passwd'[u].uid = passwd[u].uid
      /\ passwd'[u].gid # passwd[u].gid => GidOwners(passwd[u].gid) \ {u} # {}

\* The file does not forget them, and a tombstone leaves it only for a user who
\* has his account and UID back: not for one whose return has failed half-way,
\* and not by what the sync remembers of others.
TombstoneStays(u) ==
    u \in Tombstoned(file) =>
      /\ file'[u] # None
      /\ file'[u].ouid = file[u].ouid /\ file'[u].ogid = file[u].ogid
      /\ file[u].ouid \notin byHand /\ file'[u].gone # "tombstoned" =>
           passwd'[u] # None /\ passwd'[u].uid = file[u].ouid

\* A retired user comes back with the UID he had first and keeps it, and with the
\* GID he had first unless another group has taken it: all three hold of every step.
ReturnsAsHimself ==
    [][\A u \in Users : AccountIsHis(u) /\ AccountStaysHis(u) /\ TombstoneStays(u)]_vars

ActiveTargets == {u \in proc.targets : doc.row[u] # None /\ doc.row[u].status = "active"}

\* A sync that ends, without a failure and with nobody else at work, leaves
\* each active user it was for with an unlocked account, a private primary
\* group, membership of exactly his groups among those users.yml defines, and
\* an entry that says so: no action undoes what an earlier one did for another
\* user, and none acts on what was true only when the sync began.
SyncReconciles ==
    [][NothingLeft /\ ~proc.hurt /\ file' = proc.mem /\ proc' = Idle =>
         \A u \in ActiveTargets :
           /\ Exists(u) /\ ~passwd[u].locked /\ PrivateGroupMatches(u)
           /\ \A p \in Projects : doc.group[p] # "absent" =>
                (u \in members[p] <=> p \in doc.row[u].groups)
           /\ file'[u].status = "active" /\ file'[u].gone = "none"
           /\ file'[u].uid = passwd[u].uid /\ file'[u].gid = passwd[u].gid
           /\ file'[u].groups = doc.row[u].groups]_vars

\* And of the groups a sync once put him in he is in no other than those of
\* his entry in users.yml: not so when the group goes out of users.yml too.
GroupsFieldIsAuthoritative ==
    [][NothingLeft /\ ~proc.hurt /\ file' = proc.mem /\ proc' = Idle =>
         \A u \in ActiveTargets : joined[u] \subseteq doc.row[u].groups]_vars
=============================================================================
