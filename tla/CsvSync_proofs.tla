---------------------------- MODULE CsvSync_proofs ---------------------------
(***************************************************************************)
(* Proofs about CsvSync: type correctness, which includes that useradd     *)
(* always finds a UID, that the home of a user is deleted only after it    *)
(* has been archived, and that a sync nothing has disturbed reconciles.    *)
(***************************************************************************)
EXTENDS CsvSync, FiniteSetTheorems, WellFoundedInduction, TLAPS

LEMMA LeastIsMember ==
  ASSUME NEW S \in SUBSET Nat, S # {}
  PROVE  \E x \in S : \A y \in S : x =< y
<1>1. PICK x \in S : \A y \in S : <<y, x>> \notin OpToRel(<, Nat)
  <2> DEFINE less == OpToRel(<, Nat)
  <2>1. IsWellFoundedOn(less, Nat)
    BY NatLessThanWellFounded
  <2> HIDE DEF less
  <2>2. \E x \in S : \A y \in S : <<y, x>> \notin less
    BY <2>1, WFMin
  <2>3. QED BY <2>2 DEF less
<1>2. ASSUME NEW y \in S, y < x PROVE FALSE
  <2>1. <<y, x>> \in Nat \X Nat /\ <<y, x>>[1] < <<y, x>>[2]
    BY <1>2
  <2>2. <<y, x>> \in {ss \in Nat \X Nat : ss[1] < ss[2]}
    BY <2>1, Zenon
  <2>3. QED BY <1>1, <2>2 DEF OpToRel
<1>3. QED BY <1>2

LEMMA MinIsMember ==
  ASSUME NEW S \in SUBSET Nat, S # {}
  PROVE  Min(S) \in S
  BY LeastIsMember DEF Min

LEMMA MaxIsLargest ==
  ASSUME NEW n \in Nat, NEW S \in SUBSET (0 .. n), S # {}
  PROVE  Max(S) \in S /\ \A y \in S : Max(S) >= y
<1> DEFINE T == {n - x : x \in S}
<1>1. \A x \in S : n - x \in Nat
  OBVIOUS
<1>2. PICK z \in T : \A t \in T : z =< t
  <2>1. T \in SUBSET Nat /\ T # {}
    BY <1>1
  <2>2. QED BY <2>1, LeastIsMember
<1>3. PICK x \in S : z = n - x
  BY <1>2
<1>4. \A y \in S : x >= y
  BY <1>2, <1>3
<1>5. QED BY <1>4 DEF Max

\* There are fewer accounts than UIDs as long as a user has none.
LEMMA SomeUidIsFree ==
  ASSUME TypeOK, NEW u \in Users, uid[u] = None
  PROVE  Uids \ ({uid[v] : v \in Users} \ {None}) # {}
<1> DEFINE owner == [i \in Uids |-> CHOOSE v \in Users : uid[v] = i]
<1> SUFFICES ASSUME Uids \subseteq {uid[v] : v \in Users} \ {None} PROVE FALSE
  OBVIOUS
<1>1. \A i \in Uids : owner[i] \in Users \ {u} /\ uid[owner[i]] = i
  OBVIOUS
<1>2. owner \in Injection(Uids, Users \ {u})
  BY <1>1 DEF Injection, IsInjective
<1>3. IsFiniteSet(Users \ {u}) /\ Cardinality(Users \ {u}) = Cardinality(Users) - 1
  BY UidsAssumption, FS_RemoveElement
<1>4. Cardinality(Uids) <= Cardinality(Users \ {u})
  BY <1>2, <1>3, FS_Injection
<1>5. Cardinality(Uids) = MaxUid
  BY FS_Interval, BoundsAssumption DEF Uids
<1>6. Cardinality(Users) \in Nat
  BY UidsAssumption, FS_CardinalityType
<1>7. QED BY <1>3, <1>4, <1>5, <1>6, UidsAssumption, BoundsAssumption

LEMMA UseraddFindsUid ==
  ASSUME TypeOK, NEW u \in Users, uid[u] = None
  PROVE  UseraddUid \in Uids
<1> DEFINE used == {uid[v] : v \in Users} \ {None}
<1>1. used \cup {0} \in SUBSET (0 .. MaxUid) /\ MaxUid \in Nat
  BY BoundsAssumption DEF TypeOK, Uids
<1>2. Max(used \cup {0}) \in 0 .. MaxUid
  BY <1>1, MaxIsLargest
<1>3. Uids \ used # {} /\ Uids \ used \in SUBSET Nat
  BY SomeUidIsFree DEF Uids
<1>4. Min(Uids \ used) \in Uids
  BY <1>3, MinIsMember
<1>5. QED BY <1>1, <1>2, <1>4 DEF UseraddUid, Uids
-----------------------------------------------------------------------------
LEMMA SyncingType ==
  ASSUME TypeOK, sync.pc # "idle"
  PROVE  sync \in Syncs
  BY DEF TypeOK, Idle

LEMMA ChangingType ==
  ASSUME TypeOK, change.pc # "idle"
  PROVE  change \in Changes
  BY DEF TypeOK, Idle

LEMMA IdleIsNoCommand == Idle \notin Syncs /\ Idle \notin Changes
  BY DEF Idle, Syncs, Changes

LEMMA FaultType == TypeOK /\ Fault => faults' \in 0 .. MaxFaults
  BY BoundsAssumption DEF TypeOK, Fault

\* The steps that only move the sync on.
LEMMA MoveType ==
  ASSUME TypeOK, sync \in Syncs,
         NEW pc \in {"rows", "groups", "slurm", "archive", "tar", "remove", "userdel", "replace"}
  PROVE  /\ Goto(pc) => sync' \in Syncs
         /\ GotoActed(pc) => sync' \in Syncs
         /\ GotoHurt(pc) => sync' \in Syncs
         /\ \A acted \in BOOLEAN : SkipRow(acted) => sync' \in Syncs
<1>1. /\ Goto(pc) => sync' \in Syncs
      /\ GotoActed(pc) => sync' \in Syncs
  BY ZenonT(30) DEF Goto, GotoActed, Syncs
<1>2. GotoHurt(pc) => sync' \in Syncs
  BY ZenonT(30) DEF GotoHurt, Syncs
<1>3. ASSUME NEW acted \in BOOLEAN, SkipRow(acted) PROVE sync' \in Syncs
  <2>1. (sync.acted \/ acted) \in BOOLEAN
    BY <1>3
  <2>2. sync' = [sync EXCEPT !.pc = "rows", !.hurt = TRUE, !.acted = (sync.acted \/ acted)]
    BY <1>3 DEF SkipRow, Syncs
  <2>3. QED BY <2>1, <2>2, ZenonT(30) DEF Syncs
<1>4. QED BY <1>1, <1>2, <1>3

LEMMA DisturbType == TypeOK /\ Disturb => sync' \in Syncs \cup {Idle}
  BY ZenonT(30) DEF TypeOK, Disturb, Syncs

LEMMA InitType == Init => TypeOK
  BY BoundsAssumption, TiersAssumption DEF Init, TypeOK, Csvs, Rows, Days, NoAccount

LEMMA StartType ==
  ASSUME TypeOK, NEW targets \in SUBSET Users, StartSync(targets)
  PROVE  TypeOK'
<1>1. sync' \in Syncs
  BY DEF StartSync, TypeOK, Syncs
<1>2. QED BY <1>1 DEF StartSync, TypeOK, hostVars, boundVars

LEMMA BeginRowType ==
  ASSUME TypeOK, NEW u \in Users, BeginRow(u)
  PROVE  TypeOK'
<1>1. sync \in Syncs
  BY SyncingType DEF BeginRow
<1>2. sync' \in Syncs
  BY <1>1 DEF BeginRow, Syncs
<1>3. QED BY <1>2 DEF BeginRow, TypeOK, hostVars, boundVars

LEMMA EnsureAccountType ==
  ASSUME TypeOK, sync.user \in Users, EnsureAccount
  PROVE  TypeOK'
<1> DEFINE u == sync.user
           id == IF uid[u] = None THEN UseraddUid ELSE uid[u]
<1>1. sync \in Syncs
  BY SyncingType DEF EnsureAccount
<1>2. id \in Uids \cup {None}
  BY UseraddFindsUid DEF TypeOK
<1>3. SkipRow(FALSE) => sync' \in Syncs
  BY <1>1, MoveType
<1>4. [sync.rows EXCEPT ![u].uid = RowUid(u, id)] \in Csvs
  BY <1>1, <1>2 DEF Syncs, Csvs, Rows, RowUid
<1> HIDE DEF id
<1>5. \A rows \in Csvs, acted \in BOOLEAN :
        [sync EXCEPT !.pc = "groups", !.rows = rows, !.acted = acted] \in Syncs
  BY <1>1 DEF Syncs
<1>6. CASE /\ uid' = [uid EXCEPT ![u] = id]
           /\ home' = [home EXCEPT ![u] = IF @ = None THEN 0 ELSE @]
           /\ sync' = [sync EXCEPT !.pc = "groups", !.rows[u].uid = RowUid(u, id),
                                   !.acted = @ \/ uid[u] = None]
           /\ UNCHANGED faults
  <2>1. uid' \in [Users -> Uids \cup {None}] /\ home' \in [Users -> 0..MaxWork \cup {None}]
    BY <1>2, <1>6, BoundsAssumption DEF TypeOK
  <2>2. (sync.acted \/ uid[u] = None) \in BOOLEAN
    OBVIOUS
  <2>3. sync' = [sync EXCEPT !.pc = "groups", !.rows = [sync.rows EXCEPT ![u].uid = RowUid(u, id)],
                             !.acted = (sync.acted \/ uid[u] = None)]
    BY <1>1, <1>6 DEF Syncs
  <2>4. sync' \in Syncs
    BY <1>4, <1>5, <2>2, <2>3
  <2>5. QED BY <1>6, <2>1, <2>4 DEF EnsureAccount, TypeOK
<1>7. CASE Fault /\ SkipRow(FALSE) /\ UNCHANGED <<uid, home>>
  BY <1>3, <1>7, FaultType DEF EnsureAccount, TypeOK
<1>8. QED BY <1>6, <1>7 DEF EnsureAccount, id

LEMMA EnsureGroupsType ==
  ASSUME TypeOK, sync.user \in Users, EnsureGroups
  PROVE  TypeOK'
<1>1. sync \in Syncs
  BY SyncingType DEF EnsureGroups
<1>2. sync.rows[sync.user].tier \in Tiers
  BY <1>1 DEF Syncs, Csvs, Rows
<1>3. sync' \in Syncs
  <2> DEFINE others == groups[sync.user] \ {sync.rows[sync.user].tier} # {}
             moved == groups[sync.user] # {sync.rows[sync.user].tier}
  <2>1. Goto("slurm") \/ GotoHurt("slurm") \/ SkipRow(others) \/ SkipRow(moved)
    BY DEF EnsureGroups
  <2>2. others \in BOOLEAN /\ moved \in BOOLEAN
    OBVIOUS
  <2> HIDE DEF others, moved
  <2>3. QED BY <1>1, <2>1, <2>2, MoveType
<1>4. groups' \in [Users -> SUBSET Tiers]
  <2>1. \A ts \in SUBSET Tiers :
           [groups EXCEPT ![sync.user] = ts] \in [Users -> SUBSET Tiers]
    BY DEF TypeOK
  <2>2. groups[sync.user] \in SUBSET Tiers
    BY DEF TypeOK
  <2>3. \E ts \in SUBSET Tiers : groups' = [groups EXCEPT ![sync.user] = ts]
    BY <1>2, <2>2 DEF EnsureGroups, OnlyTier
  <2>4. QED BY <2>1, <2>3
<1>5. QED BY <1>3, <1>4, FaultType DEF EnsureGroups, TypeOK

LEMMA EnsureSlurmType ==
  ASSUME TypeOK, sync.user \in Users, EnsureSlurm
  PROVE  TypeOK'
<1> DEFINE Associations == [accounts : SUBSET Tiers, default : Tiers \cup {None}]
<1>1. sync \in Syncs
  BY SyncingType DEF EnsureSlurm
<1>2. sync.rows[sync.user].tier \in Tiers
  BY <1>1 DEF Syncs, Csvs, Rows
<1>3. sync' \in Syncs
  BY <1>1, MoveType DEF EnsureSlurm
<1>4. \A t \in Tiers : SlurmWith(sync.user, t) \in [Users -> Associations]
  BY DEF SlurmWith, TypeOK
<1>5. slurm' \in [Users -> Associations] /\ nas' \in [Users -> Uids \cup {None}]
  BY <1>2, <1>4 DEF EnsureSlurm, TypeOK
<1>6. QED BY <1>3, <1>5, FaultType DEF EnsureSlurm, TypeOK

LEMMA ArchiveType ==
  ASSUME TypeOK, sync.user \in Users, sync.pc = "archive" => home[sync.user] # None,
         sync.pc = "tar" => sync.date \in Days /\ archive[sync.user][sync.date] # None,
         BeginArchive \/ EndArchive
  PROVE  TypeOK'
<1> DEFINE Archives == [whole : BOOLEAN, of : 0..MaxWork]
<1>1. sync \in Syncs
  BY SyncingType DEF BeginArchive, EndArchive
<1>2. CASE BeginArchive
  <2> DEFINE none == archive[sync.user][day] = None
  <2>1. sync' \in Syncs
    <3>1. [sync EXCEPT !.pc = "remove", !.fresh = none] \in Syncs
      <4>1. none \in BOOLEAN
        OBVIOUS
      <4> HIDE DEF none
      <4>2. QED BY <1>1, <4>1 DEF Syncs
    <3>2. [sync EXCEPT !.pc = "tar", !.date = day, !.fresh = TRUE] \in Syncs
      BY <1>1 DEF TypeOK, Syncs
    <3>3. QED BY <1>2, <3>1, <3>2 DEF BeginArchive
  <2>2. home[sync.user] \in 0..MaxWork
    BY <1>2 DEF BeginArchive, TypeOK
  <2>3. [whole |-> FALSE, of |-> home[sync.user]] \in Archives
    BY <2>2
  <2>4. archive' \in [Users -> [Days -> Archives \cup {None}]]
    <3>1. \A a \in Archives : [archive EXCEPT ![sync.user][day] = a]
                             \in [Users -> [Days -> Archives \cup {None}]]
      BY DEF TypeOK
    <3> HIDE DEF Archives
    <3>2. \/ archive' = archive
          \/ \E a \in Archives : archive' = [archive EXCEPT ![sync.user][day] = a]
      BY <1>2, <2>3 DEF BeginArchive
    <3>3. archive \in [Users -> [Days -> Archives \cup {None}]]
      BY DEF TypeOK, Archives
    <3>4. QED BY <3>1, <3>2, <3>3
  <2>5. QED BY <1>2, <2>1, <2>4 DEF BeginArchive, TypeOK, boundVars
<1>3. CASE EndArchive
  <2>1. sync' \in Syncs
    BY <1>1, <1>3 DEF EndArchive, Syncs
  <2>2. archive[sync.user][sync.date] \in Archives
    BY <1>3 DEF EndArchive, TypeOK
  <2>3. archive' \in [Users -> [Days -> Archives \cup {None}]]
    BY <1>3, <2>2 DEF EndArchive, TypeOK
  <2>4. QED BY <1>3, <2>1, <2>3 DEF EndArchive, TypeOK, boundVars
<1>4. QED BY <1>2, <1>3

LEMMA RemovalType ==
  ASSUME TypeOK, sync.user \in Users, RemoveSlurm \/ Userdel
  PROVE  TypeOK'
<1>1. sync \in Syncs
  BY SyncingType DEF RemoveSlurm, Userdel
<1>2. CASE RemoveSlurm
  <2>1. sync' \in Syncs
    BY <1>1, <1>2, MoveType DEF RemoveSlurm
  <2>2. slurm' \in [Users -> [accounts : SUBSET Tiers, default : Tiers \cup {None}]]
    <3>1. NoAccount \in [accounts : SUBSET Tiers, default : Tiers \cup {None}]
      BY DEF NoAccount
    <3>2. QED BY <1>2, <3>1 DEF RemoveSlurm, TypeOK
  <2>3. QED BY <1>2, <2>1, <2>2, FaultType DEF RemoveSlurm, TypeOK
<1>3. CASE Userdel
  <2>1. sync' \in Syncs
    BY <1>1, <1>3, MoveType DEF Userdel
  <2>2. QED BY <1>3, <2>1, FaultType DEF Userdel, TypeOK
<1>4. QED BY <1>2, <1>3

LEMMA SyncEndType ==
  ASSUME TypeOK, WriteTmp \/ Replace \/ NothingDone \/ Crash
  PROVE  TypeOK'
<1>1. CASE WriteTmp
  <2>1. sync \in Syncs
    BY <1>1, SyncingType DEF WriteTmp
  <2>2. sync' \in Syncs /\ tmp' \in Csvs
    BY <1>1, <2>1, MoveType DEF WriteTmp, Syncs
  <2>3. QED BY <1>1, <2>2 DEF WriteTmp, TypeOK, hostVars, boundVars
<1>2. CASE Replace
  BY <1>2 DEF Replace, TypeOK, hostVars, boundVars
<1>3. CASE NothingDone
  BY <1>3 DEF NothingDone, TypeOK, hostVars, boundVars
<1>4. CASE Crash
  BY <1>4, FaultType DEF Crash, TypeOK, hostVars
<1>5. QED BY <1>1, <1>2, <1>3, <1>4

LEMMA StartChangeType ==
  ASSUME TypeOK, NEW u \in Users, NEW t \in Tiers, StartChange(u, t)
  PROVE  TypeOK'
<1>1. change' \in Changes
  BY DEF StartChange, Changes
<1>2. changes' \in 0..MaxTierChanges
  BY BoundsAssumption DEF StartChange, TypeOK
<1>3. QED BY <1>1, <1>2, DisturbType DEF StartChange, TypeOK, hostVars

LEMMA ChangeType ==
  ASSUME TypeOK, ChangeStep
  PROVE  TypeOK'
<1> DEFINE Associations == [accounts : SUBSET Tiers, default : Tiers \cup {None}]
<1>1. change \in Changes
  BY ChangingType DEF ChangeStep, ChangeSlurm, ChangeGroup, ChangeCsv, ChangeMv
<1>2. change.user \in Users /\ change.tier \in Tiers
  BY <1>1 DEF Changes
<1>3. CASE ChangeSlurm
  <2>1. slurm' \in [Users -> Associations]
    <3>1. slurm[change.user] \in Associations
      BY <1>2 DEF TypeOK
    <3> DEFINE With(d) == [slurm EXCEPT ![change.user] =
                             [accounts |-> @.accounts \cup {change.tier}, default |-> d]]
               kept == IF slurm[change.user].default = None THEN change.tier
                       ELSE slurm[change.user].default
    <3>2. \A d \in Tiers \cup {None} : With(d) \in [Users -> Associations]
      BY <1>2, <3>1 DEF TypeOK
    <3>3. kept \in Tiers \cup {None}
      BY <1>2, <3>1
    <3>4. slurm' = With(change.tier) \/ slurm' = slurm \/ slurm' = With(kept)
      BY <1>3, Zenon DEF ChangeSlurm
    <3>5. slurm \in [Users -> Associations]
      BY DEF TypeOK
    <3> HIDE DEF With, kept, Associations
    <3>6. QED BY <1>2, <3>2, <3>3, <3>4, <3>5
  <2>2. change' \in Changes \cup {Idle}
    BY <1>1, <1>3 DEF ChangeSlurm, Changes
  <2>3. QED BY <1>3, <2>1, <2>2, DisturbType, FaultType DEF ChangeSlurm, TypeOK
<1>4. CASE ChangeGroup
  <2>1. groups' \in [Users -> SUBSET Tiers]
    BY <1>2, <1>4 DEF ChangeGroup, TypeOK
  <2>2. change' \in Changes \cup {Idle}
    BY <1>1, <1>4 DEF ChangeGroup, Changes
  <2>3. QED BY <1>4, <2>1, <2>2, DisturbType, FaultType DEF ChangeGroup, TypeOK
<1>5. CASE ChangeCsv
  <2>1. [csv EXCEPT ![change.user].tier = change.tier] \in Csvs
    BY ZenonT(30), <1>2 DEF TypeOK, Csvs, Rows
  <2>2. tmp' \in Csvs \cup {None}
    BY <1>5, <2>1 DEF ChangeCsv
  <2>3. change' \in Changes \cup {Idle}
    BY <1>1, <1>5 DEF ChangeCsv, Changes
  <2>4. QED BY <1>5, <2>2, <2>3, DisturbType DEF ChangeCsv, TypeOK, hostVars, boundVars
<1>6. CASE ChangeMv
  BY <1>6, DisturbType DEF ChangeMv, TypeOK, hostVars, boundVars
<1>7. QED BY <1>3, <1>4, <1>5, <1>6 DEF ChangeStep

LEMMA OthersType ==
  ASSUME TypeOK, (\E u \in Users : EditRow(u) \/ Work(u)) \/ NextDay
  PROVE  TypeOK'
<1>1. ASSUME NEW u \in Users, EditRow(u) PROVE TypeOK'
  <2>1. PICK row \in Rows : Edit(u, row)
    BY ZenonT(30), <1>1 DEF EditRow, TypeOK, Csvs, Rows
  <2>2. csv' \in Csvs /\ edits' \in 0..MaxEdits
    BY <2>1, BoundsAssumption DEF Edit, TypeOK, Csvs
  <2>3. QED BY <2>1, <2>2, DisturbType DEF Edit, TypeOK, hostVars
<1>2. ASSUME NEW u \in Users, Work(u) PROVE TypeOK'
  <2>1. sync' \in Syncs \cup {Idle}
    BY <1>2 DEF Work, TypeOK, Syncs
  <2>2. home' \in [Users -> 0..MaxWork \cup {None}]
    BY <1>2, BoundsAssumption DEF Work, TypeOK
  <2>3. QED BY <1>2, <2>1, <2>2 DEF Work, TypeOK, boundVars
<1>3. CASE NextDay
  BY <1>3, BoundsAssumption DEF NextDay, TypeOK, Days, hostVars, boundVars
<1>4. QED BY <1>1, <1>2, <1>3
-----------------------------------------------------------------------------
(***************************************************************************)
(* From the start of the archive to userdel, as long as the archive is a   *)
(* new one and the user has not worked, it is of the home as it is.        *)
(***************************************************************************)
RowInWork ==
    /\ sync.pc \in {"account", "groups", "slurm", "archive", "tar", "remove", "userdel"}
         => sync.user \in Users
    /\ sync.pc \in {"archive", "tar"} => home[sync.user] # None
    /\ sync.pc = "archive" => ~sync.fresh

TarIsFresh ==
    sync.pc = "tar" =>
        /\ sync.date \in Days /\ archive[sync.user][sync.date] # None
        /\ sync.fresh => archive[sync.user][sync.date].of = home[sync.user]

ArchivedAsItIs(u) ==
    \E d \in Days : archive[u][d] # None /\ archive[u][d].whole /\ archive[u][d].of = home[u]

RemovalIsArchived ==
    sync.pc \in {"remove", "userdel"} /\ sync.fresh => ArchivedAsItIs(sync.user)

ArchiveInv == RowInWork /\ TarIsFresh /\ RemovalIsArchived

LEMMA InitArchive == Init => ArchiveInv
  BY DEF Init, Idle, ArchiveInv, RowInWork, TarIsFresh, RemovalIsArchived

\* Between BeginArchive and Userdel the sync itself leaves home and archive alone.
LEMMA SyncArchive ==
  ASSUME TypeOK, ArchiveInv, SyncStep
  PROVE  ArchiveInv'
<1> USE DEF ArchiveInv, RowInWork, TarIsFresh, RemovalIsArchived
<1>1. sync \in Syncs
  BY SyncingType DEF SyncStep, BeginRow, EnsureAccount, EnsureGroups, EnsureSlurm, BeginArchive,
    EndArchive, RemoveSlurm, Userdel, WriteTmp, Replace, NothingDone
<1>2. ASSUME NEW u \in Users, BeginRow(u) PROVE ArchiveInv'
  BY <1>1, <1>2 DEF BeginRow, Syncs, hostVars
<1>3. CASE EnsureAccount \/ EnsureGroups \/ EnsureSlurm
  <2>1. sync'.pc \in {"rows", "groups", "slurm"} /\ sync'.user = sync.user
    BY <1>1, <1>3 DEF EnsureAccount, EnsureGroups, EnsureSlurm, Goto, GotoActed, GotoHurt, SkipRow,
      Syncs
  <2>2. QED BY <1>3, <2>1 DEF EnsureAccount, EnsureGroups, EnsureSlurm
<1>4. CASE BeginArchive
  <2>1. sync'.user = sync.user /\ UNCHANGED <<home, day>>
    BY <1>1, <1>4 DEF BeginArchive, Syncs
  <2>2. CASE sync'.pc = "remove"
    BY <1>1, <1>4, <2>1, <2>2 DEF BeginArchive, HasArchive, Syncs
  <2>3. CASE sync'.pc = "tar"
    <3>1. /\ archive' = [archive EXCEPT
                          ![sync.user][day] = [whole |-> FALSE, of |-> home[sync.user]]]
          /\ sync'.date = day
      BY <1>1, <1>4, <2>3 DEF BeginArchive, Syncs
    <3>2. archive'[sync.user][day] = [whole |-> FALSE, of |-> home[sync.user]]
      BY <1>4, <3>1 DEF BeginArchive, TypeOK
    <3>3. home[sync.user] \in 0..MaxWork
      BY <1>4 DEF BeginArchive, TypeOK
    <3>4. [whole |-> FALSE, of |-> home[sync.user]] # None
      <4>1. [whole |-> FALSE, of |-> home[sync.user]] \in [whole : BOOLEAN, of : 0..MaxWork]
        BY <3>3
      <4>2. QED BY <4>1, NoneAssumption
    <3>5. sync'.user \in Users /\ home'[sync'.user] # None /\ day \in Days
      BY <1>4, <2>1 DEF BeginArchive, TypeOK
    <3>6. archive'[sync'.user][sync'.date] = [whole |-> FALSE, of |-> home'[sync'.user]]
      BY <2>1, <3>1, <3>2
    <3>7. archive'[sync'.user][sync'.date].of = home'[sync'.user]
      BY <3>6
    <3>8. TarIsFresh'
      BY <2>1, <3>1, <3>4, <3>5, <3>6, <3>7
    <3>9. QED BY <2>3, <3>5, <3>8
  <2>4. QED BY <1>1, <1>4, <2>2, <2>3 DEF BeginArchive, Syncs
<1>5. CASE EndArchive
  <2>1. sync'.pc = "remove" /\ sync'.user = sync.user /\ sync'.fresh = sync.fresh /\ UNCHANGED home
    BY <1>1, <1>5 DEF EndArchive, Syncs
  <2>2. archive[sync.user][sync.date] \in [whole : BOOLEAN, of : 0..MaxWork]
    BY <1>5 DEF EndArchive, TypeOK
  <2>3. archive'[sync.user][sync.date] = [archive[sync.user][sync.date] EXCEPT !.whole = TRUE]
    BY <1>5 DEF EndArchive, TypeOK
  <2>4. archive'[sync.user][sync.date] \in [whole : BOOLEAN, of : 0..MaxWork]
    BY <2>2, <2>3
  <2>5. sync.fresh => ArchivedAsItIs(sync.user)'
    <3>1. /\ archive'[sync.user][sync.date].whole
          /\ archive'[sync.user][sync.date].of = archive[sync.user][sync.date].of
      BY <2>2, <2>3
    <3>2. archive'[sync.user][sync.date] # None
      BY <2>4, NoneAssumption
    <3>3. QED BY <1>5, <2>1, <3>1, <3>2 DEF EndArchive, ArchivedAsItIs
  <2>6. QED BY <1>5, <2>1, <2>5 DEF EndArchive, ArchivedAsItIs
<1>6. CASE RemoveSlurm
  <2>1. /\ sync'.pc = "userdel" /\ sync'.user = sync.user /\ sync'.fresh = sync.fresh
        /\ UNCHANGED <<home, archive>>
    BY <1>1, <1>6 DEF RemoveSlurm, Goto, GotoHurt, Syncs
  <2>2. QED BY <1>6, <2>1 DEF RemoveSlurm, ArchivedAsItIs
<1>7. CASE Userdel
  BY <1>1, <1>7 DEF Userdel, GotoActed, GotoHurt, Syncs
<1>8. CASE WriteTmp \/ Replace \/ NothingDone
  BY <1>1, <1>8 DEF WriteTmp, Replace, NothingDone, Goto, Syncs, Idle
<1>9. QED BY <1>2, <1>3, <1>4, <1>5, <1>6, <1>7, <1>8 DEF SyncStep

\* Others change neither home nor archive, but for the user at work, and then
\* the archive counts as fresh no longer.
LEMMA OthersArchive ==
  ASSUME TypeOK, ArchiveInv,
         \/ \E u \in Users, t \in Tiers : StartChange(u, t)
         \/ ChangeStep \/ NextDay
         \/ \E u \in Users : EditRow(u) \/ Work(u)
  PROVE  ArchiveInv'
<1> USE DEF ArchiveInv, RowInWork, TarIsFresh, RemovalIsArchived, ArchivedAsItIs
<1> DEFINE same == /\ sync'.pc = sync.pc /\ sync'.user = sync.user /\ sync'.date = sync.date
                    /\ sync'.fresh = sync.fresh
<1>1. ASSUME NEW u \in Users, Work(u) PROVE ArchiveInv'
  <2>1. archive' = archive /\ home' = [home EXCEPT ![u] = @ + 1] /\ home[u] # None
    BY <1>1 DEF Work
  <2>2. home'[u] # None
    BY <1>1, NoneAssumption, BoundsAssumption DEF Work, TypeOK
  <2>3. CASE sync # Idle /\ sync.user = u
    <3>1. sync \in Syncs /\ sync' = [sync EXCEPT !.fresh = FALSE]
      BY <1>1, <2>3 DEF Work, TypeOK
    <3>2. /\ sync'.pc = sync.pc /\ sync'.user = u /\ sync'.date = sync.date
          /\ ~sync'.fresh
      BY <2>3, <3>1 DEF Syncs
    <3>3. QED BY <2>1, <2>2, <2>3, <3>2
  <2>4. CASE ~(sync # Idle /\ sync.user = u)
    <3>1. sync' = sync
      BY <1>1, <2>4 DEF Work
    <3>2. sync = Idle \/ home'[sync.user] = home[sync.user]
      BY <2>1, <2>4 DEF TypeOK
    <3>3. QED BY <2>1, <3>1, <3>2 DEF Idle
  <2>5. QED BY <2>3, <2>4
<1>2. ASSUME UNCHANGED <<home, archive>>, same PROVE ArchiveInv'
  BY <1>2
<1>3. (sync' = sync \/ Disturb) => same
  BY DEF Disturb, TypeOK, Syncs, Idle
<1>4. ASSUME \/ \E u \in Users, t \in Tiers : StartChange(u, t)
             \/ ChangeStep \/ NextDay \/ \E u \in Users : EditRow(u)
      PROVE  UNCHANGED <<home, archive>> /\ (sync' = sync \/ Disturb)
  BY <1>4 DEF StartChange, ChangeStep, ChangeSlurm, ChangeGroup, ChangeCsv, ChangeMv, NextDay,
    EditRow, Edit, hostVars
<1>5. QED BY <1>1, <1>2, <1>3, <1>4

LEMMA NextArchive ==
  ASSUME TypeOK, ArchiveInv, [Next]_vars
  PROVE  TypeOK' /\ ArchiveInv'
<1>1. sync.pc \in {"account", "groups", "slurm", "archive", "tar", "remove", "userdel"}
        => sync.user \in Users
  BY DEF ArchiveInv, RowInWork
<1>2. CASE UNCHANGED vars
  BY <1>2 DEF vars, hostVars, boundVars, TypeOK, ArchiveInv, RowInWork, TarIsFresh,
    RemovalIsArchived, ArchivedAsItIs
<1>3. ASSUME NEW targets \in SUBSET Users, StartSync(targets) PROVE TypeOK' /\ ArchiveInv'
  BY <1>3, StartType DEF StartSync, ArchiveInv, RowInWork, TarIsFresh, RemovalIsArchived
<1>4. CASE SyncStep
  <2>1. TypeOK'
    <3>1. EnsureAccount \/ EnsureGroups \/ EnsureSlurm \/ BeginArchive \/ EndArchive
            \/ RemoveSlurm \/ Userdel => sync.user \in Users
      BY <1>1 DEF EnsureAccount, EnsureGroups, EnsureSlurm, BeginArchive, EndArchive, RemoveSlurm,
        Userdel
    <3>2. /\ sync.pc = "archive" => home[sync.user] # None
          /\ sync.pc = "tar" => sync.date \in Days /\ archive[sync.user][sync.date] # None
      BY DEF ArchiveInv, RowInWork, TarIsFresh
    <3>3. QED
      BY <1>4, <3>1, <3>2, BeginRowType, EnsureAccountType, EnsureGroupsType, EnsureSlurmType,
        ArchiveType, RemovalType, SyncEndType DEF SyncStep
  <2>2. QED BY <1>4, <2>1, SyncArchive
<1>5. CASE Crash
  BY <1>5, SyncEndType DEF Crash, Idle, ArchiveInv, RowInWork, TarIsFresh, RemovalIsArchived
<1>6. ASSUME \/ \E u \in Users, t \in Tiers : StartChange(u, t)
             \/ ChangeStep \/ NextDay
             \/ \E u \in Users : EditRow(u) \/ Work(u)
      PROVE  TypeOK' /\ ArchiveInv'
  BY <1>6, StartChangeType, ChangeType, OthersType, OthersArchive
<1>7. Restless \subseteq Users
  BY RestlessAssumption
<1>8. QED
  <2>1. CASE \E targets \in {Users} \cup {{u} : u \in Restless} : StartSync(targets)
    BY <1>3, <1>7, <2>1
  <2>2. CASE \E u \in Restless : EditRow(u) \/ Work(u)
    BY <1>6, <1>7, <2>2
  <2>3. CASE \E u \in Restless, t \in Tiers : StartChange(u, t)
    BY <1>6, <1>7, <2>3
  <2>4. QED BY <1>2, <1>4, <1>5, <1>6, <2>1, <2>2, <2>3 DEF Next

LEMMA ArchiveInvariant == Spec => [](TypeOK /\ ArchiveInv)
  BY InitType, InitArchive, NextArchive, PTL DEF Spec

\* Every variable keeps its type; that useradd finds a UID follows from there
\* being at least as many UIDs as users.
THEOREM TypeCorrect == Spec => []TypeOK
  BY ArchiveInvariant, PTL

\* userdel -r comes only after an archive of the home as it is, if the sync has
\* made the archive itself and the user has kept still (archive_home,
\* apply_inactive): whoever edits users.csv, changes tiers or fails.
THEOREM DeletedHomesAreArchived == Spec => DeletedHomeIsArchived
<1> DEFINE Archived == \A u \in Users : home[u] # None /\ home'[u] = None /\ sync.fresh =>
           \E d \in Days : archive[u][d] # None /\ archive[u][d].whole /\ archive[u][d].of = home[u]
<1>1. TypeOK /\ ArchiveInv /\ [Next]_vars => [Archived]_vars
  <2> SUFFICES ASSUME TypeOK, ArchiveInv, Next, NEW u \in Users,
                      home[u] # None, home'[u] = None, sync.fresh
               PROVE  ArchivedAsItIs(u)
    BY DEF ArchivedAsItIs, vars
  <2>1. ASSUME NEW v \in Users, Work(v) PROVE FALSE
    <3>1. home'[v] = home[v] + 1 /\ home[v] \in 0..MaxWork /\ home[v] < MaxWork
      BY <2>1 DEF Work, TypeOK
    <3>2. home'[v] # None
      BY <3>1, NoneAssumption, BoundsAssumption
    <3>3. QED BY <2>1, <3>2 DEF Work, TypeOK
  <2>2. CASE EnsureAccount
    BY <2>2 DEF EnsureAccount, TypeOK
  <2>3. CASE Userdel
    <3>1. u = sync.user
      BY <2>3 DEF Userdel, TypeOK
    <3>2. QED BY <2>3, <3>1 DEF Userdel, ArchiveInv, RemovalIsArchived
  <2>4. CASE UNCHANGED home
    BY <2>4
  <2>5. QED
    <3>1. ASSUME SyncStep PROVE EnsureAccount \/ Userdel \/ UNCHANGED home
      BY <3>1 DEF SyncStep, BeginRow, EnsureGroups, EnsureSlurm, BeginArchive, EndArchive,
        RemoveSlurm, WriteTmp, Replace, NothingDone, hostVars
    <3>2. ASSUME ChangeStep PROVE UNCHANGED home
      BY <3>2 DEF ChangeStep, ChangeSlurm, ChangeGroup, ChangeCsv, ChangeMv, hostVars
    <3>3. QED
      BY <2>1, <2>2, <2>3, <2>4, <3>1, <3>2, RestlessAssumption
        DEF Next, StartSync, Crash, StartChange, EditRow, Edit, NextDay, hostVars
<1>2. [][Archived]_vars <=> DeletedHomeIsArchived
  BY DEF DeletedHomeIsArchived
<1>3. QED BY <1>1, <1>2, ArchiveInvariant, PTL DEF Spec
-----------------------------------------------------------------------------
(***************************************************************************)
(* A sync that nothing has disturbed: what it has read is still what       *)
(* users.csv says, and the rows it has begun are done, but for the one it  *)
(* is at.                                                                  *)
(***************************************************************************)
Gone(u) == uid[u] = None /\ home[u] = None /\ groups[u] = {}

\* Homes and groups are those of accounts, whatever fails.
AccountsFirst ==
    /\ \A u \in Users : uid[u] = None => Gone(u)
    /\ sync.pc \in {"groups", "slurm"} => uid[sync.user] # None

HasUid(u) == uid[u] # None /\ sync.rows[u].uid = uid[u]
HasGroups(u) == groups[u] = {sync.rows[u].tier}
HasSlurm(u) ==
    /\ slurm[u].accounts # {}
    /\ sync.rows[u].tier \in slurm[u].accounts => slurm[u].default = sync.rows[u].tier
Made(u) == HasUid(u) /\ nas[u] = uid[u] /\ HasGroups(u) /\ HasSlurm(u)
Reconciled(u) == IF sync.rows[u].status = "active" THEN Made(u) ELSE Gone(u)

Quiet == sync # Idle /\ ~sync.hurt
BetweenRows == sync.pc \in {"rows", "replace"}
Begun == sync.targets \ sync.todo

\* No tier change runs, and users.csv.tmp is the sync's own.
NobodyElse ==
    Quiet => change = Idle /\ (sync.pc = "replace" => sync.todo = {} /\ tmp = sync.rows)

RowsAreCopied ==
    Quiet => \A u \in Users : /\ sync.rows[u] = [csv[u] EXCEPT !.uid = sync.rows[u].uid]
                              /\ u \notin sync.targets => sync.rows[u] = csv[u]

WorkIsBegun ==
    Quiet => sync.todo \subseteq sync.targets /\ (~BetweenRows => sync.user \in Begun)

BegunIsDone ==
    Quiet => \A u \in Begun : BetweenRows \/ u # sync.user => Reconciled(u)

\* How far the row in work has come.
RowSoFar ==
    Quiet =>
      /\ sync.pc \in {"account", "groups", "slurm"} => sync.rows[sync.user].status = "active"
      /\ sync.pc \in {"archive", "tar", "remove", "userdel"} =>
           sync.rows[sync.user].status = "inactive"
      /\ sync.pc \in {"groups", "slurm"} => HasUid(sync.user)
      /\ sync.pc = "slurm" => HasGroups(sync.user)

QuietInv == NobodyElse /\ RowsAreCopied /\ WorkIsBegun /\ BegunIsDone /\ RowSoFar

LEMMA InitQuiet == Init => AccountsFirst /\ QuietInv
  BY DEF Init, Idle, AccountsFirst, Gone, QuietInv, NobodyElse, RowsAreCopied, WorkIsBegun,
    BegunIsDone, RowSoFar, Quiet

\* An account that useradd makes has a UID.
LEMMA UidIsSome ==
  /\ None \notin Uids
  /\ TypeOK => \A u \in Users : uid[u] = None => UseraddUid # None
  BY UseraddFindsUid, NoneAssumption

LEMMA NextAccounts ==
  ASSUME TypeOK, ArchiveInv, AccountsFirst, [Next]_vars
  PROVE  AccountsFirst'
<1> USE DEF AccountsFirst, Gone
<1>1. CASE UNCHANGED vars
  BY <1>1 DEF vars, hostVars
<1>2. ASSUME NEW targets, StartSync(targets) PROVE AccountsFirst'
  BY <1>2 DEF StartSync, hostVars
<1>3. CASE SyncStep
  <2>1. sync \in Syncs
    BY <1>3, SyncingType DEF SyncStep, BeginRow, EnsureAccount, EnsureGroups, EnsureSlurm,
      BeginArchive, EndArchive, RemoveSlurm, Userdel, WriteTmp, Replace, NothingDone
  <2>2. CASE EnsureAccount
    <3>1. sync.user \in Users
      BY <2>2 DEF EnsureAccount, ArchiveInv, RowInWork
    <3>2. \/ /\ uid' = [uid EXCEPT ![sync.user] = IF @ = None THEN UseraddUid ELSE @]
             /\ home' = [home EXCEPT ![sync.user] = IF @ = None THEN 0 ELSE @]
             /\ sync'.user = sync.user
          \/ UNCHANGED <<uid, home>> /\ sync'.pc = "rows"
      BY <2>1, <2>2 DEF EnsureAccount, SkipRow, Syncs, TypeOK
    <3>3. QED BY <2>2, <3>1, <3>2, UidIsSome DEF EnsureAccount, TypeOK
  <2>3. CASE EnsureGroups
    <3>1. sync.user \in Users /\ uid[sync.user] # None /\ UNCHANGED <<uid, home>>
      BY <2>3 DEF EnsureGroups, ArchiveInv, RowInWork
    <3>2. sync'.user = sync.user
      BY <2>1, <2>3 DEF EnsureGroups, Goto, GotoHurt, SkipRow, Syncs
    <3>3. \A u \in Users \ {sync.user} : groups'[u] = groups[u]
      BY <2>3 DEF EnsureGroups, TypeOK
    <3>4. QED BY <3>1, <3>2, <3>3
  <2>4. CASE Userdel
    <3>1. sync.user \in Users /\ sync'.pc = "rows"
      BY <2>1, <2>4 DEF Userdel, GotoActed, GotoHurt, Syncs, ArchiveInv, RowInWork
    <3>2. QED BY <2>4, <3>1 DEF Userdel, TypeOK
  <2>5. CASE ~(EnsureAccount \/ EnsureGroups \/ Userdel)
    <3>1. ASSUME NEW v \in Users, BeginRow(v) PROVE AccountsFirst'
      <4>1. UNCHANGED <<uid, home, groups>>
        BY <3>1 DEF BeginRow, hostVars
      <4>2. sync'.pc \in {"account", "rows", "archive", "remove"}
        BY <2>1, <3>1 DEF BeginRow, Syncs
      <4>3. QED BY <4>1, <4>2
    <3>2. CASE EnsureSlurm \/ BeginArchive \/ EndArchive \/ RemoveSlurm
      <4>1. UNCHANGED <<uid, home, groups>>
        BY <3>2 DEF EnsureSlurm, BeginArchive, EndArchive, RemoveSlurm
      <4>2. sync'.pc \in {"rows", "remove", "tar", "userdel"}
        <5>1. CASE EnsureSlurm \/ RemoveSlurm
          BY <2>1, <5>1 DEF EnsureSlurm, RemoveSlurm, Goto, GotoActed, GotoHurt, Syncs
        <5>2. CASE BeginArchive \/ EndArchive
          BY <2>1, <5>2 DEF BeginArchive, EndArchive, Syncs
        <5>3. QED BY <3>2, <5>1, <5>2
      <4>3. QED BY <4>1, <4>2
    <3>3. CASE WriteTmp \/ Replace \/ NothingDone
      BY <2>1, <3>3 DEF WriteTmp, Replace, NothingDone, Goto, Syncs, hostVars, Idle
    <3>4. QED BY <1>3, <2>5, <3>1, <3>2, <3>3 DEF SyncStep
  <2>6. QED BY <2>2, <2>3, <2>4, <2>5
<1>4. CASE Crash
  BY <1>4 DEF Crash, hostVars, Idle
<1>5. ASSUME NEW u \in Users, Work(u) PROVE AccountsFirst'
  <2>1. sync'.pc = sync.pc /\ sync'.user = sync.user
    BY <1>5 DEF Work, TypeOK, Syncs
  <2>2. QED BY <1>5, <2>1 DEF Work, TypeOK
<1>6. CASE ChangeGroup
  <2>1. sync'.pc = sync.pc /\ sync'.user = sync.user
    <3>1. CASE sync = Idle
      BY <1>6, <3>1 DEF ChangeGroup, Disturb
    <3>2. CASE sync \in Syncs
      BY <1>6, <3>2 DEF ChangeGroup, Disturb, Syncs
    <3>3. QED BY <3>1, <3>2 DEF TypeOK
  <2>2. \A u \in Users : uid[u] = None => groups'[u] = groups[u]
    BY <1>6 DEF ChangeGroup, TypeOK
  <2>3. UNCHANGED <<uid, home>>
    BY <1>6 DEF ChangeGroup
  <2>4. QED BY <2>1, <2>2, <2>3
<1>7. ASSUME UNCHANGED <<uid, home, groups>>, sync' = sync \/ Disturb PROVE AccountsFirst'
  <2>1. sync'.pc = sync.pc /\ sync'.user = sync.user
    BY <1>7 DEF Disturb, TypeOK, Syncs, Idle
  <2>2. QED BY <1>7, <2>1
<1>8. ASSUME \/ \E u \in Restless, t \in Tiers : StartChange(u, t)
             \/ ChangeSlurm \/ ChangeCsv \/ ChangeMv \/ NextDay \/ \E u \in Restless : EditRow(u)
      PROVE  AccountsFirst'
  BY <1>7, <1>8 DEF StartChange, ChangeSlurm, ChangeCsv, ChangeMv, NextDay, EditRow, Edit, hostVars
<1>9. QED
  <2>1. CASE \E targets \in {Users} \cup {{u} : u \in Restless} : StartSync(targets)
    BY <1>2, <2>1
  <2>2. CASE \E u \in Restless : EditRow(u) \/ Work(u)
    BY <1>5, <1>8, <2>2, RestlessAssumption
  <2>3. CASE \E u \in Restless, t \in Tiers : StartChange(u, t)
    BY <1>8, <2>3
  <2>4. CASE ChangeStep
    BY <1>6, <1>8, <2>4 DEF ChangeStep
  <2>5. QED BY <1>1, <1>3, <1>4, <1>8, <2>1, <2>2, <2>3, <2>4 DEF Next

\* A step of the sync on the row in work leaves the others as they are.
OthersKept ==
    \A v \in Users \ {sync.user} :
      /\ sync'.rows[v] = sync.rows[v]
      /\ uid'[v] = uid[v] /\ nas'[v] = nas[v] /\ home'[v] = home[v]
      /\ groups'[v] = groups[v] /\ slurm'[v] = slurm[v]

SameWork ==
    /\ UNCHANGED <<csv, change>>
    /\ sync'.todo = sync.todo /\ sync'.targets = sync.targets /\ sync'.user = sync.user
    /\ sync'.pc # "replace" /\ OthersKept

LEMMA OwnRow ==
  ASSUME TypeOK, QuietInv, sync \in Syncs, Quiet, ~BetweenRows, SameWork,
         sync.user \in Users,
         sync'.rows[sync.user] = [sync.rows[sync.user] EXCEPT !.uid = sync'.rows[sync.user].uid],
         sync'.pc = "rows" => Reconciled(sync.user)', RowSoFar'
  PROVE  QuietInv'
<1> USE DEF SameWork
<1>1. NobodyElse'
  BY DEF QuietInv, NobodyElse
<1>2. RowsAreCopied'
  <2> DEFINE u == sync.user
  <2>1. u \in sync.targets
    BY DEF QuietInv, WorkIsBegun, Begun
  <2>2. \A v \in Users \ {u} : /\ sync'.rows[v] = [csv[v] EXCEPT !.uid = sync'.rows[v].uid]
                               /\ v \notin sync.targets => sync'.rows[v] = csv[v]
    BY DEF QuietInv, RowsAreCopied, OthersKept
  <2>3. sync.rows[u] = [csv[u] EXCEPT !.uid = sync.rows[u].uid] /\ csv[u] \in Rows
    BY DEF QuietInv, RowsAreCopied, TypeOK, Csvs
  <2>4. sync'.rows[u] = [csv[u] EXCEPT !.uid = sync'.rows[u].uid]
    BY <2>3 DEF Rows
  <2>5. QED BY <2>1, <2>2, <2>4 DEF RowsAreCopied
<1>3. WorkIsBegun'
  BY DEF QuietInv, WorkIsBegun, Begun, BetweenRows
<1>4. BegunIsDone'
  <2> SUFFICES ASSUME NEW u \in Begun', BetweenRows' \/ u # sync.user PROVE Reconciled(u)'
    BY DEF BegunIsDone
  <2>1. u \in Users /\ u \in Begun
    BY DEF Begun, Syncs
  <2>2. CASE u = sync.user
    BY <2>2 DEF BetweenRows
  <2>3. CASE u # sync.user
    <3>1. Reconciled(u)
      BY <2>1, <2>3 DEF QuietInv, BegunIsDone
    <3>2. QED
      BY <2>1, <2>3, <3>1 DEF OthersKept, Reconciled, Made, Gone, HasUid, HasGroups, HasSlurm
  <2>4. QED BY <2>2, <2>3
<1>5. QED BY <1>1, <1>2, <1>3, <1>4 DEF QuietInv

LEMMA LoudIsFine == ~Quiet' => QuietInv'
  BY DEF QuietInv, NobodyElse, RowsAreCopied, WorkIsBegun, BegunIsDone, RowSoFar

LEMMA StartQuiet ==
  ASSUME TypeOK, NEW targets \in SUBSET Users, StartSync(targets)
  PROVE  QuietInv'
<1> SUFFICES ASSUME Quiet' PROVE QuietInv'
  BY LoudIsFine
<1>1. /\ sync'.pc = "rows" /\ sync'.rows = csv /\ sync'.targets = targets
      /\ sync'.todo = targets /\ (sync'.hurt <=> change # Idle)
      /\ UNCHANGED <<csv, change>>
  BY DEF StartSync
<1>2. \A u \in Users : csv[u] = [csv[u] EXCEPT !.uid = csv[u].uid]
  BY DEF TypeOK, Csvs, Rows
<1>3. QED
  BY <1>1, <1>2 DEF Quiet, QuietInv, NobodyElse, RowsAreCopied, WorkIsBegun, BegunIsDone, RowSoFar,
    Begun, BetweenRows

\* A row is done when none of what it speaks of has changed.
LEMMA StaysReconciled ==
  ASSUME NEW u, Reconciled(u), sync'.rows[u] = sync.rows[u],
         uid'[u] = uid[u], nas'[u] = nas[u], home'[u] = home[u],
         groups'[u] = groups[u], slurm'[u] = slurm[u]
  PROVE  Reconciled(u)'
  BY DEF Reconciled, Made, Gone, HasUid, HasGroups, HasSlurm

LEMMA BeginRowQuiet ==
  ASSUME TypeOK, AccountsFirst, QuietInv, NEW u \in Users, BeginRow(u)
  PROVE  QuietInv'
<1> SUFFICES ASSUME Quiet' PROVE QuietInv'
  BY LoudIsFine
<1> DEFINE row == sync.rows[u]
<1>1. sync \in Syncs
  BY SyncingType DEF BeginRow
<1>2. /\ sync'.rows = sync.rows /\ sync'.targets = sync.targets /\ sync'.hurt = sync.hurt
      /\ sync'.todo = sync.todo \ {u} /\ sync'.user = u
      /\ sync'.pc = IF row.status = "active" THEN "account"
                    ELSE IF uid[u] = None THEN "rows"
                    ELSE IF home[u] # None THEN "archive" ELSE "remove"
      /\ UNCHANGED <<csv, change, uid, nas, home, groups, slurm>>
  BY <1>1 DEF BeginRow, Syncs, hostVars
<1>3. Quiet /\ BetweenRows /\ u \in sync.todo
  BY <1>1, <1>2, IdleIsNoCommand DEF Quiet, BeginRow, BetweenRows
<1>4. row.status \in {"active", "inactive"}
  BY <1>1 DEF Syncs, Csvs, Rows
<1>5. NobodyElse' /\ RowsAreCopied'
  BY <1>2, <1>3 DEF QuietInv, NobodyElse, RowsAreCopied
<1>6. WorkIsBegun'
  BY <1>2, <1>3 DEF QuietInv, WorkIsBegun, Begun
<1>7. BegunIsDone'
  <2> SUFFICES ASSUME NEW v \in Begun', BetweenRows' \/ v # u PROVE Reconciled(v)'
    BY <1>2 DEF BegunIsDone
  <2>1. CASE v = u
    <3>1. row.status # "active" /\ uid[u] = None
      BY <1>2, <2>1 DEF BetweenRows
    <3>2. QED BY <1>2, <2>1, <3>1 DEF AccountsFirst, Reconciled, Gone
  <2>2. CASE v # u
    <3>1. v \in Begun
      BY <1>2, <2>2 DEF Begun
    <3>2. Reconciled(v)
      BY <1>3, <3>1 DEF QuietInv, BegunIsDone
    <3>3. QED BY <1>2, <3>2, StaysReconciled
  <2>3. QED BY <2>1, <2>2
<1>8. RowSoFar'
  BY <1>2, <1>4 DEF RowSoFar
<1>9. QED BY <1>5, <1>6, <1>7, <1>8 DEF QuietInv

LEMMA EnsureAccountQuiet ==
  ASSUME TypeOK, TypeOK', sync.user \in Users, QuietInv, EnsureAccount
  PROVE  QuietInv'
<1> SUFFICES ASSUME Quiet' PROVE QuietInv'
  BY LoudIsFine
<1> DEFINE u == sync.user
           id == IF uid[u] = None THEN UseraddUid ELSE uid[u]
<1>1. sync \in Syncs
  BY SyncingType DEF EnsureAccount
<1>2. id # None
  BY UidIsSome
<1> HIDE DEF id
<1>3. /\ uid' = [uid EXCEPT ![u] = id]
      /\ home' = [home EXCEPT ![u] = IF @ = None THEN 0 ELSE @]
      /\ sync' = [sync EXCEPT !.pc = "groups", !.rows[u].uid = RowUid(u, id),
                              !.acted = @ \/ uid[u] = None]
  BY <1>1 DEF EnsureAccount, SkipRow, Quiet, Syncs, id
<1>4. /\ sync'.pc = "groups" /\ sync'.rows = [sync.rows EXCEPT ![u].uid = id]
      /\ sync'.todo = sync.todo /\ sync'.targets = sync.targets /\ sync'.user = u
      /\ sync'.hurt = sync.hurt
  BY <1>1, <1>3 DEF Syncs, RowUid
<1>5. sync.rows \in Csvs /\ sync.rows[u] \in Rows
  BY <1>1 DEF Syncs, Csvs
<1>6. /\ sync'.rows[u] = [sync.rows[u] EXCEPT !.uid = id]
      /\ \A v \in Users \ {u} : sync'.rows[v] = sync.rows[v]
  BY <1>4, <1>5 DEF Csvs
<1>7. sync'.rows[u].uid = id /\ sync'.rows[u].status = sync.rows[u].status
  BY <1>5, <1>6 DEF Rows
<1>8. Quiet /\ ~BetweenRows /\ sync.rows[u].status = "active"
  BY <1>1, <1>4, IdleIsNoCommand DEF Quiet, EnsureAccount, BetweenRows, QuietInv, RowSoFar
<1>9. SameWork
  BY <1>3, <1>4, <1>6 DEF SameWork, OthersKept, EnsureAccount, TypeOK
<1>10. RowSoFar'
  <2>1. uid'[u] = id
    BY <1>3 DEF TypeOK
  <2>2. QED BY <1>2, <1>4, <1>7, <1>8, <2>1 DEF RowSoFar, HasUid
<1>11. QED BY <1>1, <1>4, <1>6, <1>7, <1>8, <1>9, <1>10, OwnRow

LEMMA EnsureGroupsQuiet ==
  ASSUME TypeOK, sync.user \in Users, QuietInv, EnsureGroups
  PROVE  QuietInv'
<1> SUFFICES ASSUME Quiet' PROVE QuietInv'
  BY LoudIsFine
<1> DEFINE u == sync.user
<1>1. sync \in Syncs
  BY SyncingType DEF EnsureGroups
<1>2. groups' = [groups EXCEPT ![u] = {sync.rows[u].tier}] /\ sync' = [sync EXCEPT !.pc = "slurm"]
  BY <1>1 DEF EnsureGroups, OnlyTier, SkipRow, GotoHurt, Goto, Quiet, Syncs
<1>3. /\ sync'.pc = "slurm" /\ sync'.rows = sync.rows /\ sync'.hurt = sync.hurt
      /\ sync'.todo = sync.todo /\ sync'.targets = sync.targets /\ sync'.user = u
  BY <1>1, <1>2 DEF Syncs
<1>4. Quiet /\ ~BetweenRows /\ sync.rows[u].status = "active" /\ HasUid(u)
  BY <1>1, <1>3, IdleIsNoCommand DEF Quiet, EnsureGroups, BetweenRows, QuietInv, RowSoFar
<1>5. SameWork
  BY <1>2, <1>3 DEF SameWork, OthersKept, EnsureGroups, TypeOK
<1>6. RowSoFar'
  <2>1. groups'[u] = {sync'.rows[u].tier} /\ uid'[u] = uid[u]
    BY <1>2, <1>3 DEF EnsureGroups, TypeOK
  <2>2. QED BY <1>3, <1>4, <2>1 DEF RowSoFar, HasUid, HasGroups
<1>7. sync'.rows[u] = [sync.rows[u] EXCEPT !.uid = sync'.rows[u].uid]
  BY <1>1, <1>3 DEF Syncs, Csvs, Rows
<1>8. QED BY <1>1, <1>3, <1>4, <1>5, <1>6, <1>7, OwnRow

LEMMA EnsureSlurmQuiet ==
  ASSUME TypeOK, sync.user \in Users, QuietInv, EnsureSlurm
  PROVE  QuietInv'
<1> SUFFICES ASSUME Quiet' PROVE QuietInv'
  BY LoudIsFine
<1> DEFINE u == sync.user
           t == sync.rows[u].tier
<1>1. sync \in Syncs
  BY SyncingType DEF EnsureSlurm
<1>2. slurm' = SlurmWith(u, t) /\ sync' = [sync EXCEPT !.pc = "rows", !.acted = TRUE]
  BY <1>1 DEF EnsureSlurm, GotoHurt, GotoActed, Quiet, Syncs
<1>3. /\ sync'.pc = "rows" /\ sync'.rows = sync.rows /\ sync'.hurt = sync.hurt
      /\ sync'.todo = sync.todo /\ sync'.targets = sync.targets /\ sync'.user = u
  BY <1>1, <1>2 DEF Syncs
<1>4. Quiet /\ ~BetweenRows /\ sync.rows[u].status = "active" /\ HasUid(u) /\ HasGroups(u)
  BY <1>1, <1>3, IdleIsNoCommand DEF Quiet, EnsureSlurm, BetweenRows, QuietInv, RowSoFar
<1>5. \A v \in Users \ {u} : slurm'[v] = slurm[v]
  BY <1>2 DEF SlurmWith, TypeOK
<1>6. slurm'[u].accounts # {} /\ (t \in slurm'[u].accounts => slurm'[u].default = t)
  BY <1>2 DEF SlurmWith, TypeOK
<1>7. SameWork
  BY <1>3, <1>5 DEF SameWork, OthersKept, EnsureSlurm, TypeOK
<1>8. Reconciled(u)'
  <2>1. nas'[u] = uid[u] /\ UNCHANGED <<uid, groups>>
    BY <1>4 DEF EnsureSlurm, HasUid, TypeOK
  <2>2. QED BY <1>3, <1>4, <1>6, <2>1 DEF Reconciled, Made, HasUid, HasGroups, HasSlurm
<1>9. RowSoFar'
  BY <1>3 DEF RowSoFar
<1>10. sync'.rows[u] = [sync.rows[u] EXCEPT !.uid = sync'.rows[u].uid]
  BY <1>1, <1>3 DEF Syncs, Csvs, Rows
<1>11. QED BY <1>1, <1>3, <1>4, <1>7, <1>8, <1>9, <1>10, OwnRow

LEMMA ArchiveQuiet ==
  ASSUME TypeOK, sync.user \in Users, QuietInv, BeginArchive \/ EndArchive \/ RemoveSlurm
  PROVE  QuietInv'
<1> SUFFICES ASSUME Quiet' PROVE QuietInv'
  BY LoudIsFine
<1> DEFINE u == sync.user
<1>1. sync \in Syncs
  BY SyncingType DEF BeginArchive, EndArchive, RemoveSlurm
<1>2. /\ sync.pc \in {"archive", "tar", "remove"} /\ sync'.pc \in {"remove", "tar", "userdel"}
      /\ sync'.rows = sync.rows /\ sync'.hurt = sync.hurt
      /\ sync'.todo = sync.todo /\ sync'.targets = sync.targets /\ sync'.user = u
  <2>1. CASE BeginArchive
    <3>1. \/ sync' = [sync EXCEPT !.pc = "remove", !.fresh = archive[u][day] = None]
          \/ sync' = [sync EXCEPT !.pc = "tar", !.date = day, !.fresh = TRUE]
      BY <2>1 DEF BeginArchive
    <3>2. QED BY <1>1, <2>1, <3>1 DEF BeginArchive, Syncs
  <2>2. CASE EndArchive
    BY <1>1, <2>2 DEF EndArchive, Syncs
  <2>3. CASE RemoveSlurm
    BY <1>1, <2>3 DEF RemoveSlurm, Goto, GotoHurt, Quiet, Syncs
  <2>4. QED BY <2>1, <2>2, <2>3
<1>3. Quiet /\ ~BetweenRows /\ sync.rows[u].status = "inactive"
  BY <1>1, <1>2, IdleIsNoCommand DEF Quiet, BetweenRows, QuietInv, RowSoFar
<1>4. \A v \in Users \ {u} : slurm'[v] = slurm[v]
  BY DEF BeginArchive, EndArchive, RemoveSlurm, TypeOK
<1>5. SameWork
  BY <1>2, <1>4 DEF SameWork, OthersKept, BeginArchive, EndArchive, RemoveSlurm
<1>6. RowSoFar'
  BY <1>2, <1>3 DEF RowSoFar
<1>7. sync'.rows[u] = [sync.rows[u] EXCEPT !.uid = sync'.rows[u].uid]
  BY <1>1, <1>2 DEF Syncs, Csvs, Rows
<1>8. QED BY <1>1, <1>2, <1>3, <1>5, <1>6, <1>7, OwnRow

LEMMA UserdelQuiet ==
  ASSUME TypeOK, sync.user \in Users, QuietInv, Userdel
  PROVE  QuietInv'
<1> SUFFICES ASSUME Quiet' PROVE QuietInv'
  BY LoudIsFine
<1> DEFINE u == sync.user
<1>1. sync \in Syncs
  BY SyncingType DEF Userdel
<1>2. /\ uid' = [uid EXCEPT ![u] = None] /\ home' = [home EXCEPT ![u] = None]
      /\ groups' = [groups EXCEPT ![u] = {}]
      /\ sync' = [sync EXCEPT !.pc = "rows", !.acted = TRUE]
  BY <1>1 DEF Userdel, GotoHurt, GotoActed, Quiet, Syncs
<1>3. /\ sync'.pc = "rows" /\ sync'.rows = sync.rows /\ sync'.hurt = sync.hurt
      /\ sync'.todo = sync.todo /\ sync'.targets = sync.targets /\ sync'.user = u
  BY <1>1, <1>2 DEF Syncs
<1>4. Quiet /\ ~BetweenRows /\ sync.rows[u].status = "inactive"
  BY <1>1, <1>3, IdleIsNoCommand DEF Quiet, Userdel, BetweenRows, QuietInv, RowSoFar
<1>5. SameWork
  BY <1>2, <1>3 DEF SameWork, OthersKept, Userdel, TypeOK
<1>6. Reconciled(u)'
  BY <1>2, <1>3, <1>4 DEF Reconciled, Gone, TypeOK
<1>7. RowSoFar'
  BY <1>3 DEF RowSoFar
<1>8. sync'.rows[u] = [sync.rows[u] EXCEPT !.uid = sync'.rows[u].uid]
  BY <1>1, <1>3 DEF Syncs, Csvs, Rows
<1>9. QED BY <1>1, <1>3, <1>4, <1>5, <1>6, <1>7, <1>8, OwnRow

LEMMA EndQuiet ==
  ASSUME TypeOK, QuietInv, WriteTmp \/ Replace \/ NothingDone \/ Crash
  PROVE  QuietInv'
<1>1. CASE Replace \/ NothingDone \/ Crash
  BY <1>1, LoudIsFine DEF Replace, NothingDone, Crash, Quiet
<1>2. CASE WriteTmp
  <2> SUFFICES ASSUME Quiet' PROVE QuietInv'
    BY LoudIsFine
  <2>1. sync \in Syncs
    BY <1>2, SyncingType DEF WriteTmp
  <2>2. /\ sync'.pc = "replace" /\ sync'.rows = sync.rows /\ sync'.hurt = sync.hurt
        /\ sync'.todo = {} /\ sync.todo = {} /\ sync'.targets = sync.targets
        /\ UNCHANGED <<csv, change, uid, nas, home, groups, slurm>> /\ tmp' = sync.rows
    BY <1>2, <2>1 DEF WriteTmp, Goto, Syncs, hostVars
  <2>3. Quiet /\ BetweenRows
    BY <1>2, <2>1, <2>2, IdleIsNoCommand DEF Quiet, BetweenRows, WriteTmp
  <2>4. NobodyElse' /\ RowsAreCopied' /\ WorkIsBegun' /\ RowSoFar'
    BY <2>2, <2>3 DEF QuietInv, NobodyElse, RowsAreCopied, WorkIsBegun, RowSoFar, BetweenRows
  <2>5. BegunIsDone'
    <3> SUFFICES ASSUME NEW u \in Begun' PROVE Reconciled(u)'
      BY DEF BegunIsDone
    <3>1. Reconciled(u)
      BY <2>2, <2>3 DEF Begun, QuietInv, BegunIsDone
    <3>2. QED BY <2>2, <3>1, StaysReconciled
  <2>6. QED BY <2>4, <2>5 DEF QuietInv
<1>3. QED BY <1>1, <1>2

\* A user who works has a home, hence an account, and is not one of the gone.
LEMMA WorkQuiet ==
  ASSUME TypeOK, AccountsFirst, QuietInv, NEW u \in Users, Work(u)
  PROVE  QuietInv'
<1> SUFFICES ASSUME Quiet' PROVE QuietInv'
  BY LoudIsFine
<1>1. /\ sync'.pc = sync.pc /\ sync'.rows = sync.rows /\ sync'.hurt = sync.hurt
      /\ sync'.todo = sync.todo /\ sync'.targets = sync.targets /\ sync'.user = sync.user
      /\ (sync = Idle => sync' = Idle)
  <2>1. CASE sync = Idle
    BY <2>1 DEF Work
  <2>2. CASE sync \in Syncs
    BY <2>2, IdleIsNoCommand DEF Work, Syncs
  <2>3. QED BY <2>1, <2>2 DEF TypeOK
<1>2. Quiet
  BY <1>1 DEF Quiet
<1>3. UNCHANGED <<csv, tmp, change, uid, nas, groups, slurm>> /\ home[u] # None
  BY DEF Work
<1>4. NobodyElse' /\ RowsAreCopied' /\ WorkIsBegun'
  BY <1>1, <1>2, <1>3 DEF QuietInv, NobodyElse, RowsAreCopied, WorkIsBegun, Begun, BetweenRows
<1>5. BegunIsDone'
  <2> SUFFICES ASSUME NEW v \in Begun', BetweenRows' \/ v # sync'.user PROVE Reconciled(v)'
    BY DEF BegunIsDone
  <2>1. Reconciled(v)
    BY <1>1, <1>2 DEF Begun, BetweenRows, QuietInv, BegunIsDone
  <2>2. v = u \/ home'[v] = home[v]
    BY DEF Work, TypeOK
  <2>3. QED
    BY <1>1, <1>3, <2>1, <2>2 DEF Reconciled, Made, Gone, HasUid, HasGroups, HasSlurm
<1>6. RowSoFar'
  BY <1>1, <1>2, <1>3 DEF QuietInv, RowSoFar, HasUid, HasGroups
<1>7. QED BY <1>4, <1>5, <1>6 DEF QuietInv

LEMMA OthersAreNoticed ==
  ASSUME TypeOK,
         \/ \E u \in Restless, t \in Tiers : StartChange(u, t)
         \/ ChangeStep \/ \E u \in Restless : EditRow(u)
  PROVE  QuietInv'
<1>1. Disturb
  BY DEF StartChange, ChangeStep, ChangeSlurm, ChangeGroup, ChangeCsv, ChangeMv, EditRow, Edit
<1>2. ~Quiet'
  BY <1>1 DEF Disturb, Quiet, TypeOK, Syncs
<1>3. QED BY <1>2, LoudIsFine

LEMMA UnchangedQuiet ==
  ASSUME QuietInv, UNCHANGED <<csv, tmp, hostVars, sync, change>>
  PROVE  QuietInv'
<1>1. UNCHANGED <<uid, nas, home, groups, slurm>>
  BY DEF hostVars
<1>2. QED
  BY <1>1 DEF QuietInv, NobodyElse, RowsAreCopied, WorkIsBegun, BegunIsDone, RowSoFar,
    Quiet, Begun, BetweenRows, Reconciled, Made, Gone, HasUid, HasGroups, HasSlurm

LEMMA NextQuiet ==
  ASSUME TypeOK, TypeOK', ArchiveInv, AccountsFirst, QuietInv, [Next]_vars
  PROVE  QuietInv'
<1>1. CASE \E targets \in {Users} \cup {{u} : u \in Restless} : StartSync(targets)
  <2>1. PICK targets \in SUBSET Users : StartSync(targets)
    BY <1>1, RestlessAssumption
  <2>2. QED BY <2>1, StartQuiet
<1>2. CASE SyncStep
  <2>1. CASE \E u \in Users : BeginRow(u)
    BY <2>1, BeginRowQuiet
  <2>2. ASSUME EnsureAccount \/ EnsureGroups \/ EnsureSlurm \/ BeginArchive \/ EndArchive
                 \/ RemoveSlurm \/ Userdel
        PROVE  sync.user \in Users
    BY <2>2 DEF EnsureAccount, EnsureGroups, EnsureSlurm, BeginArchive, EndArchive, RemoveSlurm,
      Userdel, ArchiveInv, RowInWork
  <2>3. QED
    BY <1>2, <2>1, <2>2, EnsureAccountQuiet, EnsureGroupsQuiet, EnsureSlurmQuiet, ArchiveQuiet,
      UserdelQuiet, EndQuiet DEF SyncStep
<1>3. CASE Crash
  BY <1>3, EndQuiet
<1>4. CASE \E u \in Restless, t \in Tiers : StartChange(u, t)
  BY <1>4, OthersAreNoticed
<1>5. CASE ChangeStep
  BY <1>5, OthersAreNoticed
<1>6. CASE \E u \in Restless : EditRow(u)
  BY <1>6, OthersAreNoticed
<1>7. CASE \E u \in Restless : Work(u)
  BY <1>7, WorkQuiet, RestlessAssumption
<1>8. CASE NextDay \/ UNCHANGED vars
  BY <1>8, UnchangedQuiet DEF NextDay, vars
<1>9. QED BY <1>1, <1>2, <1>3, <1>4, <1>5, <1>6, <1>7, <1>8 DEF Next

LEMMA QuietInvariant == Spec => [](TypeOK /\ ArchiveInv /\ AccountsFirst /\ QuietInv)
<1>1. Init => TypeOK /\ ArchiveInv /\ AccountsFirst /\ QuietInv
  BY InitType, InitArchive, InitQuiet
<1>2. TypeOK /\ ArchiveInv /\ AccountsFirst /\ QuietInv /\ [Next]_vars
        => (TypeOK /\ ArchiveInv /\ AccountsFirst /\ QuietInv)'
  BY NextArchive, NextAccounts, NextQuiet
<1>3. QED BY <1>1, <1>2, PTL DEF Spec

\* A sync of sync_users.py during which no command fails and nobody edits
\* users.csv or changes a tier ends with its rows as users.csv says, the
\* UIDs written back and the rows of the other users as they were
\* (apply_active, apply_inactive, CSVFile.write), for any number of users.
THEOREM QuietSyncReconciles == Spec => SyncReconciles
<1> DEFINE Done(u) ==
      /\ u \notin sync.targets => csv'[u] = csv[u]
      /\ u \in sync.targets /\ csv[u].status = "active" =>
           /\ uid[u] # None /\ csv'[u] = [csv[u] EXCEPT !.uid = uid[u]]
           /\ nas[u] = uid[u] /\ groups[u] = {csv[u].tier}
           /\ slurm[u].accounts # {}
           /\ csv[u].tier \in slurm[u].accounts => slurm[u].default = csv[u].tier
      /\ u \in sync.targets /\ csv[u].status = "inactive" =>
           uid[u] = None /\ home[u] = None /\ groups[u] = {}
    Ends == sync.pc = "replace" /\ sync' = Idle /\ ~sync.hurt /\ faults' = faults
              => \A u \in Users : Done(u)
<1>1. TypeOK /\ AccountsFirst /\ QuietInv /\ [Next]_vars => [Ends]_vars
  <2> SUFFICES ASSUME TypeOK, QuietInv, Next, sync.pc = "replace", sync' = Idle, ~sync.hurt,
                      faults' = faults, NEW u \in Users
               PROVE  Done(u)
    OBVIOUS
  <2>1. sync \in Syncs
    BY SyncingType
  <2>2. Quiet /\ tmp = sync.rows /\ BetweenRows /\ Begun = sync.targets
    BY <2>1, IdleIsNoCommand DEF Quiet, QuietInv, NobodyElse, BetweenRows, Begun
  <2>3. csv' = sync.rows
    <3>1. Replace
      <4>1. CASE Crash
        BY <4>1 DEF Crash, Fault, TypeOK
      <4>2. ASSUME Disturb PROVE FALSE
        BY <2>1, <4>2, IdleIsNoCommand DEF Disturb, Syncs, Idle
      <4>3. CASE ChangeStep \/ (\E v \in Restless, t \in Tiers : StartChange(v, t))
        BY <4>2, <4>3 DEF ChangeStep, ChangeSlurm, ChangeGroup, ChangeCsv, ChangeMv, StartChange
      <4>4. CASE \E v \in Restless : EditRow(v)
        BY <4>2, <4>4 DEF EditRow, Edit
      <4>5. CASE (\E v \in Restless : Work(v)) \/ NextDay
        BY <2>1, <4>5, IdleIsNoCommand DEF Work, NextDay, Syncs, Idle
      <4>6. CASE SyncStep
        BY <4>6 DEF SyncStep, BeginRow, EnsureAccount, EnsureGroups, EnsureSlurm, BeginArchive,
          EndArchive, RemoveSlurm, Userdel, WriteTmp, NothingDone
      <4>7. CASE \E targets \in {Users} \cup {{v} : v \in Restless} : StartSync(targets)
        BY <2>1, <4>7, IdleIsNoCommand DEF StartSync
      <4>8. QED BY <4>1, <4>3, <4>4, <4>5, <4>6, <4>7 DEF Next
    <3>2. sync.rows # None
      BY <2>1, NoneAssumption DEF Syncs
    <3>3. QED BY <2>2, <3>1, <3>2 DEF Replace
  <2>4. sync.rows[u] = [csv[u] EXCEPT !.uid = sync.rows[u].uid] /\ csv[u] \in Rows
    BY <2>2 DEF QuietInv, RowsAreCopied, TypeOK, Csvs
  <2>5. sync.rows[u].status = csv[u].status /\ sync.rows[u].tier = csv[u].tier
    BY <2>4 DEF Rows
  <2>6. u \in sync.targets => Reconciled(u)
    BY <2>2 DEF QuietInv, BegunIsDone
  <2>7. u \notin sync.targets => sync.rows[u] = csv[u]
    BY <2>2 DEF QuietInv, RowsAreCopied
  <2>8. QED
    BY <2>3, <2>4, <2>5, <2>6, <2>7 DEF Reconciled, Made, Gone, HasUid, HasGroups, HasSlurm
<1>2. [][Ends]_vars <=> SyncReconciles
  BY DEF SyncReconciles
<1>3. QED BY <1>1, <1>2, QuietInvariant, PTL DEF Spec
=============================================================================
