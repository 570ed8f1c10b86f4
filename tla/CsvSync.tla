------------------------------- MODULE CsvSync -------------------------------
(***************************************************************************)
(* The predecessor's user management: sync_users.py makes accounts, tier   *)
(* groups, Slurm associations and NAS directories follow users.csv, tars   *)
(* the home of a user who has become inactive and deletes it, and writes   *)
(* the UIDs back to users.csv.  tesla-tier-change sets the tier of one     *)
(* user on the host and in users.csv.  Each of them takes a lock for it,   *)
(* but not the same one, and both go through the file users.csv.tmp.       *)
(* Administrators edit users.csv without a lock, users work, days pass.    *)
(***************************************************************************)
EXTENDS Integers, FiniteSets, FiniteSetsExt

CONSTANTS
    None, Users, Tiers,
    Restless,    \* the users whose rows and homes change (bound)
    MaxUid, MaxDay, MaxWork,                 \* UIDs, days and states of a home directory
    MaxEdits, MaxTierChanges, MaxFaults,     \* bounds on edits, tier changes, failures
    MaxEvents                                \* bound on all of them and the days together

ASSUME RestlessAssumption == Restless \subseteq Users
ASSUME BoundsAssumption ==
    {MaxUid, MaxDay, MaxWork, MaxEdits, MaxTierChanges, MaxFaults, MaxEvents} \subseteq Nat
ASSUME UidsAssumption == IsFiniteSet(Users) /\ Cardinality(Users) <= MaxUid
ASSUME TiersAssumption == Tiers # {}

Uids == 1..MaxUid
Days == 0..MaxDay

VARIABLES
    csv,       \* users.csv, a row for each user
    tmp,       \* users.csv.tmp
    uid,       \* UID of each account
    groups,    \* tier groups of each user
    slurm,     \* Slurm accounts (one per tier) and the default one
    nas,       \* owner of /storage/nas/$user
    home,      \* state of /home/$user
    archive,   \* home_$user_$day.tar.gz
    day,
    sync,      \* sync_users.py, one at a time because of its lock
    change,    \* tesla-tier-change
    edits, changes, faults

hostVars == <<uid, groups, slurm, nas, home, archive>>
boundVars == <<edits, changes, faults>>
vars == <<csv, tmp, hostVars, day, sync, change, boundVars>>

\* What validate_rows lets through, as far as it matters here.
Rows == [status : {"active", "inactive"}, tier : Tiers, uid : Uids \cup {None}]
Csvs == [Users -> Rows]
ASSUME NoneAssumption ==
    /\ None \notin Csvs
    /\ None \notin Uids \cup (0..MaxWork) \cup [whole : BOOLEAN, of : 0..MaxWork]
Idle == [pc |-> "idle"]
\* todo: rows not yet begun; user: the row in work; date: the one in the name
\* of the archive being made.  acted: reconciler.actions is
\* not empty.  fresh: there was no archive of this name before, and the home has not
\* changed since.  hurt: a command failed, or somebody else was at work.
Syncs == [pc : {"rows", "account", "groups", "slurm", "archive", "tar", "remove", "userdel",
                "replace"},
          rows : Csvs, targets : SUBSET Users, todo : SUBSET Users, user : Users \cup {None},
          date : Days \cup {None}, acted : BOOLEAN, fresh : BOOLEAN, hurt : BOOLEAN]
Changes == [pc : {"slurm", "group", "csv", "mv"}, user : Users, tier : Tiers]

TypeOK ==
    /\ csv \in Csvs /\ tmp \in Csvs \cup {None}
    /\ uid \in [Users -> Uids \cup {None}] /\ nas \in [Users -> Uids \cup {None}]
    /\ groups \in [Users -> SUBSET Tiers]
    /\ slurm \in [Users -> [accounts : SUBSET Tiers, default : Tiers \cup {None}]]
    /\ home \in [Users -> 0..MaxWork \cup {None}]
    /\ archive \in [Users -> [Days -> [whole : BOOLEAN, of : 0..MaxWork] \cup {None}]]
    /\ day \in Days
    /\ sync \in Syncs \cup {Idle} /\ change \in Changes \cup {Idle}
    /\ edits \in 0..MaxEdits /\ changes \in 0..MaxTierChanges /\ faults \in 0..MaxFaults

NoAccount == [accounts |-> {}, default |-> None]

Init ==
    /\ csv = [u \in Users |-> [status |-> "active", tier |-> CHOOSE t \in Tiers : TRUE, uid |-> None]]
    /\ tmp = None
    /\ uid = [u \in Users |-> None] /\ nas = [u \in Users |-> None]
    /\ groups = [u \in Users |-> {}] /\ slurm = [u \in Users |-> NoAccount]
    /\ home = [u \in Users |-> None]
    /\ archive = [u \in Users |-> [d \in Days |-> None]]
    /\ day = 0 /\ sync = Idle /\ change = Idle
    /\ edits = 0 /\ changes = 0 /\ faults = 0

Budget == edits + changes + faults + day < MaxEvents
Fault == Budget /\ faults < MaxFaults /\ faults' = faults + 1
\* Something the running sync does not know of.
Disturb == sync' = IF sync = Idle THEN Idle ELSE [sync EXCEPT !.hurt = TRUE]
-----------------------------------------------------------------------------
(***************************************************************************)
(* sync_users.py.                                                          *)
(***************************************************************************)

\* main: flock, read, validate; --user picks one row.
StartSync(targets) ==
    /\ sync = Idle
    /\ sync' = [pc |-> "rows", rows |-> csv, targets |-> targets, todo |-> targets,
                user |-> None, date |-> None, acted |-> FALSE, fresh |-> FALSE, hurt |-> change # Idle]
    /\ UNCHANGED <<csv, tmp, hostVars, day, change, boundVars>>

\* The next row; nothing is done for an inactive user who is gone.
BeginRow(u) ==
    /\ sync.pc = "rows" /\ u \in sync.todo
    /\ LET row == sync.rows[u] IN
       sync' = [sync EXCEPT !.todo = @ \ {u}, !.user = u, !.fresh = FALSE,
                !.pc = IF row.status = "active" THEN "account"
                       ELSE IF uid[u] = None THEN "rows"
                       ELSE IF home[u] # None THEN "archive" ELSE "remove"]
    /\ UNCHANGED <<csv, tmp, hostVars, day, change, boundVars>>

Goto(pc) == sync' = [sync EXCEPT !.pc = pc]
GotoActed(pc) == sync' = [sync EXCEPT !.pc = pc, !.acted = TRUE]
GotoHurt(pc) == sync' = [sync EXCEPT !.pc = pc, !.acted = TRUE, !.hurt = TRUE]
\* A CalledProcessError is logged, and the next row is taken.
SkipRow(acted) ==
    sync' = [sync EXCEPT !.pc = "rows", !.hurt = TRUE, !.acted = @ \/ acted]

\* The UID useradd picks: above the highest, or the lowest free one.
UseraddUid ==
    LET used == {uid[u] : u \in Users} \ {None}
        top == Max(used \cup {0}) IN
    IF top < MaxUid THEN top + 1 ELSE Min(Uids \ used)

\* Mutant: an empty field is read as 0 and preserved.
KeptNumber(u, id) == IF sync.rows[u].uid = None THEN 0 ELSE sync.rows[u].uid

\* Mutant: only a new account's UID is written back.
NewUid(u, id) == IF uid[u] = None THEN id ELSE sync.rows[u].uid

\* The UID for the row: the account's, whatever was there.
RowUid(u, id) == id

\* useradd -m unless the account is there.  A home that was left is not touched.
EnsureAccount ==
    /\ sync.pc = "account"
    /\ LET u == sync.user
           id == IF uid[u] = None THEN UseraddUid ELSE uid[u] IN
       \/ /\ uid' = [uid EXCEPT ![u] = id]
          /\ home' = [home EXCEPT ![u] = IF @ = None THEN 0 ELSE @]
          /\ sync' = [sync EXCEPT !.pc = "groups", !.rows[u].uid = RowUid(u, id),
                                  !.acted = @ \/ uid[u] = None]
          /\ UNCHANGED faults
       \/ uid[u] = None /\ Fault /\ SkipRow(FALSE) /\ UNCHANGED <<uid, home>>
    /\ UNCHANGED <<csv, tmp, groups, slurm, nas, archive, day, change, edits, changes>>

\* Mutant: a user is put into his group and not taken out of the others.
AlsoTier(u, t) == groups[u] \cup {t}

\* The tier groups a row asks for.
OnlyTier(u, t) == {t}

\* gpasswd -d (unchecked) for the other tiers, usermod -aG (checked) for this one
\* unless he is in it, and usermod -aG tesla_users (checked).  Who is in
\* tesla_users already is not modelled.
EnsureGroups ==
    /\ sync.pc = "groups"
    /\ LET u == sync.user
           t == sync.rows[u].tier
           others == groups[u] \ {t}
       IN
       \/ groups' = [groups EXCEPT ![u] = OnlyTier(u, t)] /\ Goto("slurm") /\ UNCHANGED faults
       \/ /\ others # {} /\ Fault
          /\ groups' = [groups EXCEPT ![u] = @ \cup {t}] /\ GotoHurt("slurm")
       \/ /\ t \notin groups[u] /\ Fault
          /\ groups' = [groups EXCEPT ![u] = {}] /\ SkipRow(others # {})
       \/ /\ Fault
          /\ groups' = [groups EXCEPT ![u] = OnlyTier(u, t)] /\ SkipRow(groups[u] # {t})
    /\ UNCHANGED <<csv, tmp, uid, slurm, nas, home, archive, day, change, edits, changes>>

\* sacctmgr modify refuses a default account the user has no association with.
SlurmWith(u, t) ==
    CASE slurm[u].accounts = {} -> [slurm EXCEPT ![u] = [accounts |-> {t}, default |-> t]]
      [] t \in slurm[u].accounts -> [slurm EXCEPT ![u].default = t]
      [] OTHER -> slurm

\* ensure_nas_dir and ensure_slurm_user; a failing sacctmgr goes unnoticed.
EnsureSlurm ==
    /\ sync.pc = "slurm"
    /\ LET u == sync.user IN
       /\ nas' = [nas EXCEPT ![u] = IF uid[u] = None THEN @ ELSE uid[u]]
       /\ \/ slurm' = SlurmWith(u, sync.rows[u].tier) /\ GotoActed("rows") /\ UNCHANGED faults
          \/ Fault /\ GotoHurt("rows") /\ UNCHANGED slurm
    /\ UNCHANGED <<csv, tmp, uid, groups, home, archive, day, change, edits, changes>>

\* Mutant: the file name has no date, so an archive of any day will do.
SkipArchive(u) == \E d \in Days : archive[u][d] # None

\* archive_home leaves an archive of today alone.
HasArchive(u) == archive[u][day] # None

BeginArchive ==
    /\ sync.pc = "archive"
    /\ LET u == sync.user IN
       IF HasArchive(u)
       THEN /\ sync' = [sync EXCEPT !.pc = "remove", !.fresh = archive[u][day] = None]
            /\ UNCHANGED archive
       ELSE /\ archive' = [archive EXCEPT ![u][day] = [whole |-> FALSE, of |-> home[u]]]
            /\ sync' = [sync EXCEPT !.pc = "tar", !.date = day, !.fresh = TRUE]
    /\ UNCHANGED <<csv, tmp, uid, groups, slurm, nas, home, day, change, boundVars>>

\* The tar is complete; midnight may have passed.
EndArchive ==
    /\ sync.pc = "tar"
    /\ archive' = [archive EXCEPT ![sync.user][sync.date].whole = TRUE]
    /\ sync' = [sync EXCEPT !.pc = "remove", !.date = None, !.acted = TRUE]
    /\ UNCHANGED <<csv, tmp, uid, groups, slurm, nas, home, day, change, boundVars>>

\* sacctmgr remove user, if he is known; unchecked.
RemoveSlurm ==
    /\ sync.pc = "remove"
    /\ \/ /\ slurm' = [slurm EXCEPT ![sync.user] = NoAccount]
          /\ Goto("userdel") /\ UNCHANGED faults
       \/ /\ slurm[sync.user] # NoAccount /\ Fault
          /\ GotoHurt("userdel") /\ UNCHANGED slurm
    /\ UNCHANGED <<csv, tmp, uid, groups, nas, home, archive, day, change, edits, changes>>

\* userdel -r, unchecked; the NAS directory stays.
Userdel ==
    /\ sync.pc = "userdel"
    /\ LET u == sync.user IN
       \/ /\ uid' = [uid EXCEPT ![u] = None] /\ home' = [home EXCEPT ![u] = None]
          /\ groups' = [groups EXCEPT ![u] = {}]
          /\ GotoActed("rows") /\ UNCHANGED faults
       \/ Fault /\ GotoHurt("rows") /\ UNCHANGED <<uid, home, groups>>
    /\ UNCHANGED <<csv, tmp, slurm, nas, archive, day, change, edits, changes>>

\* CSVFile.write: the rows as read, with the UIDs, go to users.csv.tmp ...
WriteTmp ==
    /\ sync.pc = "rows" /\ sync.todo = {} /\ sync.acted
    /\ tmp' = sync.rows
    /\ Goto("replace")
    /\ UNCHANGED <<csv, hostVars, day, change, boundVars>>

\* ... which replaces users.csv, unless tesla-tier-change has moved it away:
\* then an exception ends the sync.
Replace ==
    /\ sync.pc = "replace"
    /\ csv' = IF tmp = None THEN csv ELSE tmp
    /\ tmp' = None /\ sync' = Idle
    /\ UNCHANGED <<hostVars, day, change, boundVars>>

NothingDone ==
    /\ sync.pc = "rows" /\ sync.todo = {} /\ ~sync.acted
    /\ sync' = Idle
    /\ UNCHANGED <<csv, tmp, hostVars, day, change, boundVars>>

\* The sync is killed, or tar raises an exception; the lock goes with it.
Crash ==
    /\ sync # Idle /\ Fault
    /\ sync' = Idle
    /\ UNCHANGED <<csv, tmp, hostVars, day, change, edits, changes>>

SyncStep ==
    \/ \E u \in Users : BeginRow(u)
    \/ EnsureAccount \/ EnsureGroups \/ EnsureSlurm
    \/ BeginArchive \/ EndArchive \/ RemoveSlurm \/ Userdel
    \/ WriteTmp \/ Replace \/ NothingDone
-----------------------------------------------------------------------------
(***************************************************************************)
(* tesla-tier-change.                                                      *)
(***************************************************************************)
StartChange(u, t) ==
    /\ change = Idle /\ Budget /\ changes < MaxTierChanges /\ uid[u] # None
    /\ change' = [pc |-> "slurm", user |-> u, tier |-> t]
    /\ changes' = changes + 1 /\ Disturb
    /\ UNCHANGED <<csv, tmp, hostVars, day, edits, faults>>

\* Add the association, then make it the default; the second one must work.
ChangeSlurm ==
    /\ change.pc = "slurm"
    /\ \/ /\ slurm' = [slurm EXCEPT ![change.user] =
                         [accounts |-> @.accounts \cup {change.tier}, default |-> change.tier]]
          /\ change' = [change EXCEPT !.pc = "group"] /\ UNCHANGED faults
       \/ /\ Fault /\ change' = Idle
          /\ slurm' \in {slurm, [slurm EXCEPT ![change.user] =
                         [accounts |-> @.accounts \cup {change.tier},
                          default |-> IF @.default = None THEN change.tier ELSE @.default]]}
    /\ Disturb
    /\ UNCHANGED <<csv, tmp, uid, groups, nas, home, archive, day, edits, changes>>

\* gpasswd -a unless he is in the group; a failure, as when the account is gone by
\* now, ends the script.
ChangeGroup ==
    /\ change.pc = "group"
    /\ LET u == change.user IN
       \/ uid[u] = None /\ change' = Idle /\ UNCHANGED <<groups, faults>>
       \/ /\ uid[u] # None
          /\ groups' = [groups EXCEPT ![u] = @ \cup {change.tier}]
          /\ change' = [change EXCEPT !.pc = "csv"] /\ UNCHANGED faults
       \/ /\ uid[u] # None /\ change.tier \notin groups[u] /\ Fault
          /\ change' = Idle /\ UNCHANGED groups
    /\ Disturb
    /\ UNCHANGED <<csv, tmp, uid, slurm, nas, home, archive, day, edits, changes>>

\* Under the lock users.csv.lock: awk writes users.csv.tmp; if it is the same as
\* users.csv it is removed again.
ChangeCsv ==
    /\ change.pc = "csv"
    /\ LET new == [csv EXCEPT ![change.user].tier = change.tier] IN
       IF new = csv
       THEN tmp' = None /\ change' = Idle
       ELSE tmp' = new /\ change' = [change EXCEPT !.pc = "mv"]
    /\ Disturb
    /\ UNCHANGED <<csv, hostVars, day, boundVars>>

\* mv fails when the sync has just moved the file itself.
ChangeMv ==
    /\ change.pc = "mv"
    /\ csv' = IF tmp = None THEN csv ELSE tmp
    /\ tmp' = None /\ change' = Idle /\ Disturb
    /\ UNCHANGED <<hostVars, day, boundVars>>

ChangeStep == ChangeSlurm \/ ChangeGroup \/ ChangeCsv \/ ChangeMv
-----------------------------------------------------------------------------
(***************************************************************************)
(* Everybody else.                                                         *)
(***************************************************************************)
Edit(u, row) ==
    /\ Budget /\ edits < MaxEdits /\ edits' = edits + 1
    /\ row # csv[u] /\ csv' = [csv EXCEPT ![u] = row]
    /\ Disturb
    /\ UNCHANGED <<tmp, hostVars, day, change, changes, faults>>

EditRow(u) ==
    \/ \E status \in {"active", "inactive"} : Edit(u, [csv[u] EXCEPT !.status = status])
    \/ \E tier \in Tiers : Edit(u, [csv[u] EXCEPT !.tier = tier])

\* Nothing keeps a user from working while he is archived.
Work(u) ==
    /\ home[u] # None /\ home[u] < MaxWork
    /\ home' = [home EXCEPT ![u] = @ + 1]
    /\ sync' = IF sync # Idle /\ sync.user = u THEN [sync EXCEPT !.fresh = FALSE] ELSE sync
    /\ UNCHANGED <<csv, tmp, uid, groups, slurm, nas, archive, day, change, boundVars>>

NextDay ==
    /\ Budget /\ day < MaxDay /\ day' = day + 1
    /\ UNCHANGED <<csv, tmp, hostVars, sync, change, boundVars>>

Next ==
    \/ \E targets \in {Users} \cup {{u} : u \in Restless} : StartSync(targets)
    \/ SyncStep \/ Crash
    \/ \E u \in Restless, t \in Tiers : StartChange(u, t)
    \/ ChangeStep
    \/ \E u \in Restless : EditRow(u) \/ Work(u)
    \/ NextDay

Spec == Init /\ [][Next]_vars

\* A started command goes on, and administrators run the whole sync again and
\* again, between those for one user.
FairSpec == Spec /\ SF_vars(StartSync(Users)) /\ WF_vars(SyncStep) /\ WF_vars(ChangeStep)
-----------------------------------------------------------------------------
(***************************************************************************)
(* Properties.                                                             *)
(***************************************************************************)

\* Where there was no archive of that day before, and the user has not worked
\* since, the sync deletes only a home of which there is a whole archive as it
\* was.  (An archive of the same day is taken for good whatever is in it.)
DeletedHomeIsArchived ==
    [][\A u \in Users :
         home[u] # None /\ home'[u] = None /\ sync.fresh =>
           \E d \in Days : archive[u][d] # None /\ archive[u][d].whole /\ archive[u][d].of = home[u]]_vars

\* A sync that ends with no failure, and with nobody else at work, leaves its
\* active users with accounts, in the one group of their tier, with NAS directories
\* that are theirs, with the UIDs of their accounts in users.csv in the place of
\* whatever UID was there, and known to Slurm; its inactive users are gone; other
\* rows are as they were.  The tier is the default of a user who has an association
\* with it, and only then: for a known user the sync adds none, so one who is
\* promoted in users.csv alone keeps the default he had.
SyncReconciles ==
    [][sync.pc = "replace" /\ sync' = Idle /\ ~sync.hurt /\ faults' = faults =>
         \A u \in Users :
           /\ u \notin sync.targets => csv'[u] = csv[u]
           /\ u \in sync.targets /\ csv[u].status = "active" =>
                /\ uid[u] # None /\ csv'[u] = [csv[u] EXCEPT !.uid = uid[u]]
                /\ nas[u] = uid[u] /\ groups[u] = {csv[u].tier}
                /\ slurm[u].accounts # {}
                /\ csv[u].tier \in slurm[u].accounts => slurm[u].default = csv[u].tier
           /\ u \in sync.targets /\ csv[u].status = "inactive" =>
                uid[u] = None /\ home[u] = None /\ groups[u] = {}]_vars

\* Whatever has failed or crossed, reruns bring the accounts to what users.csv
\* says, and the UIDs of the active users into it.
Converges ==
    <>[](\A u \in Users :
           /\ (csv[u].status = "active") <=> (uid[u] # None)
           /\ csv[u].status = "active" => csv[u].uid = uid[u])

\* The tier of a row of users.csv changes only by an edit or by tesla-tier-change:
\* not so, a sync that has read the file before the change writes the old one back.
TierChangeStays ==
    [][\A u \in Users : csv'[u].tier # csv[u].tier =>
         \/ edits' # edits
         \/ change # Idle /\ u = change.user /\ csv'[u].tier = change.tier]_vars
=============================================================================
