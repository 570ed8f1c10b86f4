------------------------ MODULE UserIdentity_proofs -------------------------
(***************************************************************************)
(* Proofs about UserIdentity: type correctness, that a retired user keeps  *)
(* his UID to himself and his tombstone, that he comes back with the ids   *)
(* he had, and that a sync nothing has disturbed reconciles its active     *)
(* users.                                                                  *)
(***************************************************************************)
EXTENDS UserIdentity, FiniteSetTheorems, SequenceTheorems, WellFoundedInduction, TLAPS

-----------------------------------------------------------------------------
(* The ids that are picked.                                                *)

LEMMA LeastIsMember ==
  ASSUME NEW S \in SUBSET Nat, S # {}
  PROVE  \E x \in S : \A y \in S : x =< y
<1>1. PICK x \in S : \A y \in S : <<y, x>> \notin OpToRel(<, Nat)
  <2> DEFINE less == OpToRel(<, Nat)
  <2>1. IsWellFoundedOn(less, Nat)
    BY NatLessThanWellFounded
  <2> HIDE DEF less
  <2>2. \E x \in S : \A y \in S : <<y, x>> \notin less
    BY <2>1, WFMin
  <2>3. QED BY <2>2 DEF less
<1>2. ASSUME NEW y \in S, y < x PROVE FALSE
  <2>1. <<y, x>> \in Nat \X Nat /\ <<y, x>>[1] < <<y, x>>[2]
    BY <1>2
  <2>2. <<y, x>> \in {ss \in Nat \X Nat : ss[1] < ss[2]}
    BY <2>1, Zenon
  <2>3. QED BY <1>1, <2>2 DEF OpToRel
<1>3. QED BY <1>2

LEMMA NextFreeIsFree ==
  ASSUME NEW blocked
  PROVE  NextFree(blocked) \in (Ids \ blocked) \cup {None}
<1>1. CASE Ids \subseteq blocked
  BY <1>1 DEF NextFree
<1>2. CASE ~(Ids \subseteq blocked)
  <2>1. Ids \ blocked \in SUBSET Nat /\ Ids \ blocked # {}
    BY <1>2 DEF Ids
  <2>2. \E x \in Ids \ blocked : \A y \in Ids \ blocked : x =< y
    BY <2>1, LeastIsMember
  <2>3. Min(Ids \ blocked) \in Ids \ blocked
    BY <2>2 DEF Min
  <2>4. QED BY <1>2, <2>3 DEF NextFree
<1>3. QED BY <1>1, <1>2

LEMMA MaxIsMember ==
  ASSUME NEW n \in Nat, NEW S \in SUBSET (0 .. n), S # {}
  PROVE  Max(S) \in S
<1> DEFINE T == {n - x : x \in S}
<1>1. \A x \in S : n - x \in Nat
  OBVIOUS
<1>2. PICK z \in T : \A t \in T : z =< t
  <2>1. T \in SUBSET Nat /\ T # {}
    BY <1>1
  <2>2. QED BY <2>1, LeastIsMember
<1>3. PICK x \in S : z = n - x
  BY <1>2
<1>4. \A y \in S : x >= y
  BY <1>2, <1>3
<1>5. QED BY <1>4 DEF Max

LEMMA GroupaddPicksId ==
  ASSUME TypeOK
  PROVE  GroupaddGid \in Ids \cup {None}
<1>1. UsedGids \cup {0} \in SUBSET (0 .. MaxId) /\ MaxId \in Nat
  BY BoundsAssumption DEF TypeOK, UsedGids, Ids
<1>2. Max(UsedGids \cup {0}) \in 0 .. MaxId
  BY <1>1, MaxIsMember
<1>3. Max(UsedGids \cup {0}) < MaxId => Max(UsedGids \cup {0}) + 1 \in Ids
  BY <1>1, <1>2 DEF Ids
<1>4. QED BY <1>3, NextFreeIsFree DEF GroupaddGid

-----------------------------------------------------------------------------
(* The plan.                                                               *)

Todo(u) == proc.todo[u]
HeadIs(u, kind) == Todo(u) # <<>> /\ Todo(u)[1].kind = kind
Lifecycle == {"inactive", "userdel", "tombstone"}

\* What steps the plan of an entry of users.yml may have, and where.
Follows(steps, row) ==
    \A i \in 1..Len(steps) :
        /\ row # None
        /\ steps[i].kind \in Lifecycle <=> row.status = "inactive"
        /\ steps[i].kind = "create" => i = 1 /\ row.status = "active"
        /\ steps[i].kind \in {"userdel", "tombstone"} => i = 1

StepsFollowRows == proc # Idle => \A u \in Users : Follows(Todo(u), Row(u))

LEMMA TailFollows ==
  ASSUME NEW steps \in Seq(Steps), NEW row, steps # <<>>, Follows(steps, row)
  PROVE  /\ Tail(steps) \in Seq(Steps)
         /\ Follows(Tail(steps), row)
         /\ Tail(steps) # <<>> => Tail(steps)[1].kind \notin {"create", "userdel", "tombstone"}
<1>1. /\ Tail(steps) \in Seq(Steps) /\ Len(Tail(steps)) = Len(steps) - 1
      /\ \A i \in 1..Len(Tail(steps)) : Tail(steps)[i] = steps[i + 1]
  OBVIOUS
<1>2. QED BY <1>1 DEF Follows

AtMost(steps, kind) == steps = <<>> \/ steps = <<Step(kind)>>

LEMMA ShortPlan ==
  ASSUME NEW kind \in Kinds \ {"join"}, NEW steps, AtMost(steps, kind)
  PROVE  steps \in Seq(Steps) /\ \A i \in 1..Len(steps) : i = 1 /\ steps[i].kind = kind
<1>1. Step(kind) \in Steps /\ Step(kind).kind = kind
  BY DEF Step, Steps
<1>2. CASE steps = <<>>
  BY <1>2
<1>3. CASE steps = <<Step(kind)>>
  BY <1>1, <1>3
<1>4. QED BY <1>2, <1>3 DEF AtMost

LEMMA GroupStepsAre ==
  ASSUME NEW u \in Users, doc.row[u].groups \in SUBSET Projects
  PROVE  /\ GroupSteps(u) \in Seq(Steps)
         /\ \A i \in 1..Len(GroupSteps(u)) : GroupSteps(u)[i].kind \in {"join", "leave"}
<1> DEFINE gs == doc.row[u].groups
           asked == SetToSeq(gs)
           joins == [i \in DOMAIN asked |-> JoinStep(asked[i])]
<1>1. IsFiniteSet(gs)
  BY NamesAssumption, FS_Subset
<1>2. Cardinality(gs) \in Nat /\ ExistsBijection(1..Cardinality(gs), gs)
  BY <1>1, FS_CardinalityType
<1>3. asked \in [1..Cardinality(gs) -> gs]
  BY <1>2 DEF ExistsBijection, Bijection, Injection, SetToSeq
<1>4. joins \in Seq(Steps) /\ \A i \in 1..Len(joins) : joins[i].kind = "join"
  <2>1. \A p \in gs : JoinStep(p) \in Steps /\ JoinStep(p).kind = "join"
    BY DEF JoinStep, Steps
  <2>2. joins \in [1..Cardinality(gs) -> Steps]
        /\ \A i \in 1..Cardinality(gs) : joins[i].kind = "join"
    BY <1>3, <2>1
  <2>3. QED BY <1>2, <2>2
<1>5. <<Step("leave")>> \in Seq(Steps) /\ Step("leave").kind = "leave"
  BY DEF Step, Steps, Kinds
<1>6. GroupSteps(u) = joins \o <<Step("leave")>>
  BY DEF GroupSteps
<1> DEFINE last == <<Step("leave")>>
<1> HIDE DEF joins
<1>7. Len(last) = 1 /\ last[1].kind = "leave" /\ last \in Seq(Steps)
  BY <1>5
<1> HIDE DEF last
<1>8. /\ joins \o last \in Seq(Steps) /\ Len(joins \o last) = Len(joins) + Len(last)
      /\ \A i \in 1..Len(joins \o last) :
           (joins \o last)[i] = IF i <= Len(joins) THEN joins[i] ELSE last[i - Len(joins)]
  <2> DEFINE both == joins \o last
  <2>1. /\ both \in Seq(Steps) /\ Len(both) = Len(joins) + Len(last)
        /\ \A i \in 1..(Len(joins) + Len(last)) :
             both[i] = IF i <= Len(joins) THEN joins[i] ELSE last[i - Len(joins)]
    BY <1>4, <1>7, ConcatProperties
  <2> HIDE DEF both
  <2>2. \A i \in 1..Len(both) :
          both[i] = IF i <= Len(joins) THEN joins[i] ELSE last[i - Len(joins)]
    BY <2>1
  <2>3. QED BY <2>1, <2>2 DEF both
<1>9. \A i \in 1..Len(joins \o last) : i > Len(joins) => i - Len(joins) = 1
  BY <1>4, <1>7, <1>8
<1>10. \A i \in 1..Len(joins \o last) : i <= Len(joins) => i \in 1..Len(joins)
  BY <1>4
<1>11. \A i \in 1..Len(joins \o last) : (joins \o last)[i].kind \in {"join", "leave"}
  BY <1>4, <1>7, <1>8, <1>9, <1>10
<1>12. QED BY <1>6, <1>8, <1>11 DEF last

LEMMA InsertFollows ==
  ASSUME NEW steps \in Seq(Steps), NEW row, steps # <<>>, Follows(steps, row),
         NEW kind \in {"userdel", "tombstone"}, row.status = "inactive"
  PROVE  Follows(<<Step(kind)>> \o Tail(steps), row)
<1> DEFINE new == <<Step(kind)>> \o Tail(steps)
<1>1. /\ Tail(steps) \in Seq(Steps) /\ Len(Tail(steps)) = Len(steps) - 1
      /\ \A i \in 1..Len(Tail(steps)) : Tail(steps)[i] = steps[i + 1]
  OBVIOUS
<1>2. Step(kind) \in Steps /\ Step(kind).kind = kind
  BY DEF Step, Steps, Kinds
<1>3. Len(new) = Len(steps) /\ new[1].kind = kind
      /\ \A i \in 2..Len(new) : new[i] = steps[i]
  BY <1>1, <1>2
<1>4. row # None
  BY DEF Follows
<1> HIDE DEF new
<1>5. Follows(new, row)
  BY <1>3, <1>4 DEF Follows, Lifecycle
<1>6. QED BY <1>5 DEF new

Ordinary == {"unlock", "lock", "primary", "join", "leave", "record"}

LEMMA ConcatFollows ==
  ASSUME NEW s \in Seq(Steps), NEW t \in Seq(Steps), NEW row, Follows(s, row),
         row # None /\ row.status # "inactive", \A i \in 1..Len(t) : t[i].kind \in Ordinary
  PROVE  s \o t \in Seq(Steps) /\ Follows(s \o t, row)
<1>1. /\ s \o t \in Seq(Steps) /\ Len(s \o t) = Len(s) + Len(t)
      /\ \A i \in 1..Len(s \o t) : (s \o t)[i] = IF i <= Len(s) THEN s[i] ELSE t[i - Len(s)]
  OBVIOUS
<1>2. \A i \in 1..Len(s \o t) : i > Len(s) => (s \o t)[i].kind \in Ordinary
  BY <1>1
<1> DEFINE Good(step, i) == /\ row # None
                            /\ step.kind \in Lifecycle <=> row.status = "inactive"
                            /\ step.kind = "create" => i = 1 /\ row.status = "active"
                            /\ step.kind \in {"userdel", "tombstone"} => i = 1
<1>3. ASSUME NEW i \in 1..Len(s \o t) PROVE Good((s \o t)[i], i)
  <2>1. CASE i > Len(s)
    BY <1>2, <2>1 DEF Ordinary, Lifecycle
  <2>2. CASE i <= Len(s)
    <3>1. i \in 1..Len(s) /\ (s \o t)[i] = s[i]
      BY <1>1, <2>2
    <3>2. QED BY <3>1 DEF Follows
  <2>3. QED BY <2>1, <2>2
<1>4. QED BY <1>1, <1>3 DEF Follows

LEMMA PlanFollows ==
  ASSUME TypeOK, NEW u \in Users
  PROVE  PlanOf(u) \in Seq(Steps) /\ Follows(PlanOf(u), doc.row[u])
<1> DEFINE row == doc.row[u]
<1>1. row = None \/ row \in AllRows
  BY RowsAssumption DEF TypeOK, Docs
<1>2. CASE row = None
  BY <1>2 DEF PlanOf, Follows
<1>3. CASE row # None /\ row.status = "active"
  <2> DEFINE create == When(~Exists(u), Step("create"))
             unlock == When(Exists(u) /\ passwd[u].locked, Step("unlock"))
             primary == When(~PrivateGroupMatches(u), Step("primary"))
             groups == IF GroupsMatch(u) THEN <<>> ELSE GroupSteps(u)
             record == When(Exists(u) /\ ~EntryMatches(u), Step("record"))
  <2>1. /\ AtMost(create, "create") /\ AtMost(unlock, "unlock")
        /\ AtMost(primary, "primary") /\ groups \in {<<>>, GroupSteps(u)}
        /\ AtMost(record, "record")
    BY DEF When, AtMost
  <2>2. PlanOf(u) = create \o unlock \o primary \o groups \o record
    BY <1>3 DEF PlanOf, PlanActive
  <2> HIDE DEF create, unlock, primary, groups, record
  <2>3. create \in Seq(Steps) /\ Follows(create, row)
    BY <1>3, <2>1, ShortPlan DEF Follows, Lifecycle, Kinds
  <2>4. unlock \in Seq(Steps) /\ \A i \in 1..Len(unlock) : unlock[i].kind \in Ordinary
    BY <2>1, ShortPlan DEF Kinds, Ordinary
  <2>5. primary \in Seq(Steps) /\ \A i \in 1..Len(primary) : primary[i].kind \in Ordinary
    BY <2>1, ShortPlan DEF Kinds, Ordinary
  <2>6. groups \in Seq(Steps) /\ \A i \in 1..Len(groups) : groups[i].kind \in Ordinary
    <3>1. doc.row[u].groups \in SUBSET Projects
      BY <1>1, <1>3 DEF AllRows
    <3>2. CASE groups = GroupSteps(u)
      BY <3>1, <3>2, GroupStepsAre DEF Ordinary
    <3>3. CASE groups = <<>>
      BY <3>3
    <3>4. QED BY <2>1, <3>2, <3>3
  <2>7. record \in Seq(Steps) /\ \A i \in 1..Len(record) : record[i].kind \in Ordinary
    BY <2>1, ShortPlan DEF Kinds, Ordinary
  <2>8. row # None /\ row.status # "inactive"
    BY <1>3
  <2> HIDE DEF row
  <2>9. create \o unlock \in Seq(Steps) /\ Follows(create \o unlock, row)
    BY <2>3, <2>4, <2>8, ConcatFollows
  <2>10. create \o unlock \o primary \in Seq(Steps) /\ Follows(create \o unlock \o primary, row)
    BY <2>9, <2>5, <2>8, ConcatFollows
  <2>11. /\ create \o unlock \o primary \o groups \in Seq(Steps)
         /\ Follows(create \o unlock \o primary \o groups, row)
    BY <2>10, <2>6, <2>8, ConcatFollows
  <2>12. /\ create \o unlock \o primary \o groups \o record \in Seq(Steps)
         /\ Follows(create \o unlock \o primary \o groups \o record, row)
    BY <2>11, <2>7, <2>8, ConcatFollows
  <2>13. QED BY <2>2, <2>12 DEF row
<1>4. CASE row # None /\ row.status = "suspended"
  <2> DEFINE lock == When(Exists(u) /\ ~passwd[u].locked, Step("lock"))
             record == When(Exists(u) /\ ~EntryMatches(u), Step("record"))
  <2>1. AtMost(lock, "lock") /\ AtMost(record, "record")
    BY DEF When, AtMost
  <2>2. PlanOf(u) = lock \o record
    BY <1>4 DEF PlanOf, PlanSuspended
  <2> HIDE DEF lock, record
  <2>3. lock \in Seq(Steps) /\ Follows(lock, row)
    BY <1>4, <2>1, ShortPlan DEF Follows, Lifecycle, Kinds
  <2>4. record \in Seq(Steps) /\ \A i \in 1..Len(record) : record[i].kind \in Ordinary
    BY <2>1, ShortPlan DEF Kinds, Ordinary
  <2>5. QED BY <1>4, <2>3, <2>4, <2>2, ConcatFollows
<1>5. CASE row # None /\ row.status = "inactive"
  <2>1. PlanOf(u) = <<Step("inactive")>>
    BY <1>5 DEF PlanOf
  <2>2. QED BY <1>5, <2>1 DEF Step, Steps, Kinds, Follows, Lifecycle
<1>6. QED BY <1>1, <1>2, <1>3, <1>4, <1>5 DEF AllRows

-----------------------------------------------------------------------------
(* Type correctness.                                                       *)

LEMMA SyncType ==
  ASSUME TypeOK, proc # Idle
  PROVE  /\ proc \in Syncs
         /\ proc.todo \in [Users -> Seq(Steps)] /\ proc.mem \in [Users -> Entries \cup {None}]
  BY DEF TypeOK, Syncs

LEMMA AtIsFirst ==
  ASSUME TypeOK, NEW u \in Users, NEW kind, At(u, kind)
  PROVE  /\ proc # Idle /\ HeadIs(u, kind) /\ Todo(u) \in Seq(Steps)
         /\ Head(Todo(u)) = Todo(u)[1] /\ 1 \in 1..Len(Todo(u))
         /\ \A v \in Users : Before(v, u) => Todo(v) = <<>>
<1>1. proc # Idle /\ Todo(u) # <<>> /\ Head(Todo(u)).kind = kind
      /\ \A v \in Users : Before(v, u) => Todo(v) = <<>>
  BY DEF At, Todo
<1>2. Todo(u) \in Seq(Steps)
  BY <1>1, SyncType DEF Todo
<1>3. Head(Todo(u)) = Todo(u)[1] /\ 1 \in 1..Len(Todo(u))
  BY <1>1, <1>2
<1>4. QED BY <1>1, <1>2, <1>3 DEF HeadIs

LEMMA EntryRecorded ==
  ASSUME TypeOK, proc # Idle, NEW u \in Users, Row(u) \in AllRows, NEW account \in Accounts
  PROVE  /\ Recorded(u, account) \in [Users -> Entries \cup {None}]
         /\ \A v \in Users \ {u} : Recorded(u, account)[v] = proc.mem[v]
         /\ LET new == Recorded(u, account)[u]
                old == proc.mem[u] IN
            /\ new \in Entries /\ new.status = Row(u).status /\ new.uid = account.uid
            /\ old = None => new.gone = "none" /\ new.ouid = account.uid
            /\ old # None => /\ new.ouid = old.ouid /\ new.ogid = old.ogid
                             /\ new.gone = "none" \/ new.gone = old.gone
<1> DEFINE old == proc.mem[u]
           entry == [status |-> Row(u).status,
         gone |-> IF Row(u).status = "active" \/ old = None THEN "none" ELSE old.gone,
         uid |-> account.uid, gid |-> account.gid,
         ouid |-> IF old = None THEN account.uid ELSE old.ouid,
         ogid |-> IF old = None THEN account.gid ELSE old.ogid,
         groups |-> Row(u).groups]
<1>1. Recorded(u, account) = [proc.mem EXCEPT ![u] = entry]
  BY NoneAssumption DEF Recorded
<1>2. proc.mem \in [Users -> Entries \cup {None}] /\ old \in Entries \cup {None}
  BY SyncType
<1>3. entry \in Entries
  BY <1>2 DEF Entries, AllRows, Accounts
<1>4. QED BY <1>1, <1>2, <1>3

LEMMA NothingRecorded ==
  ASSUME NEW u \in Users
  PROVE  Recorded(u, None) = proc.mem
  BY DEF Recorded

TypeInv == TypeOK /\ StepsFollowRows

\* The sync goes on with another plan for u and another state_doc.
Moves(u, steps, mem) ==
    /\ proc' \in Syncs
    /\ proc'.todo = [proc.todo EXCEPT ![u] = steps] /\ proc'.mem = mem
    /\ proc'.targets = proc.targets

LEMMA SyncIsNotIdle ==
  \A p \in Syncs : p # Idle
<1>1. \A p \in Syncs : p.pc = "apply"
  BY DEF Syncs
<1>2. Idle.pc = "idle"
  BY DEF Idle
<1>3. QED BY <1>1, <1>2

LEMMA ContinueMoves ==
  ASSUME TypeOK, proc # Idle, NEW u \in Users, NEW mem \in [Users -> Entries \cup {None}],
         Todo(u) # <<>>, Continue(u, mem) \/ ContinueHurt(u, mem)
  PROVE  Moves(u, Tail(Todo(u)), mem)
<1>1. proc \in Syncs /\ Todo(u) \in Seq(Steps)
  BY SyncType DEF Todo
<1>2. Tail(Todo(u)) \in Seq(Steps)
  BY <1>1
<1>3. CASE Continue(u, mem)
  BY <1>1, <1>2, <1>3 DEF Moves, Continue, Syncs, Todo
<1>4. CASE ContinueHurt(u, mem)
  BY <1>1, <1>2, <1>4 DEF Moves, ContinueHurt, Syncs, Todo
<1>5. QED BY <1>3, <1>4

LEMMA InsertMoves ==
  ASSUME TypeOK, proc # Idle, NEW u \in Users, NEW mem \in [Users -> Entries \cup {None}],
         NEW kind \in Kinds \ {"join"}, Todo(u) # <<>>,
         proc' = [proc EXCEPT !.mem = mem, !.todo[u] = <<Step(kind)>> \o Tail(@)]
  PROVE  Moves(u, <<Step(kind)>> \o Tail(Todo(u)), mem)
<1>1. proc \in Syncs /\ Todo(u) \in Seq(Steps)
  BY SyncType DEF Todo
<1>2. Tail(Todo(u)) \in Seq(Steps) /\ Step(kind) \in Steps
  BY <1>1 DEF Step, Steps
<1>3. <<Step(kind)>> \o Tail(Todo(u)) \in Seq(Steps)
  BY <1>2
<1>4. QED BY <1>1, <1>3 DEF Moves, Syncs, Todo

LEMMA MovesKeepPlan ==
  ASSUME TypeInv, proc # Idle, NEW u \in Users, NEW steps, NEW mem, Moves(u, steps, mem),
         Follows(steps, Row(u)), doc' = doc
  PROVE  StepsFollowRows'
  BY SyncType DEF TypeInv, StepsFollowRows, Moves, Todo, Row

LEMMA RowOfStep ==
  ASSUME TypeInv, NEW u \in Users, NEW kind, At(u, kind)
  PROVE  /\ Row(u) \in AllRows /\ Row(u) # None
         /\ kind \in Lifecycle <=> Row(u).status = "inactive"
         /\ kind = "create" => Row(u).status = "active"
<1>1. proc # Idle /\ HeadIs(u, kind) /\ 1 \in 1..Len(Todo(u))
  BY AtIsFirst DEF TypeInv
<1>2. Follows(Todo(u), Row(u))
  BY <1>1 DEF TypeInv, StepsFollowRows
<1>3. Row(u) \in Rows \cup {None}
  BY DEF TypeInv, TypeOK, Docs, Row
<1>4. QED BY <1>1, <1>2, <1>3, RowsAssumption DEF Follows, HeadIs

\* What goes for the tail goes for every action but the first two of a removal.
LEMMA TailMoves ==
  ASSUME TypeInv, NEW u \in Users, NEW kind, At(u, kind), doc' = doc,
         NEW mem \in [Users -> Entries \cup {None}], Continue(u, mem) \/ ContinueHurt(u, mem)
  PROVE  Moves(u, Tail(Todo(u)), mem) /\ StepsFollowRows'
<1>1. proc # Idle /\ HeadIs(u, kind) /\ Todo(u) \in Seq(Steps)
  BY AtIsFirst DEF TypeInv
<1>2. Moves(u, Tail(Todo(u)), mem)
  BY <1>1, ContinueMoves DEF TypeInv, HeadIs
<1>3. Follows(Tail(Todo(u)), Row(u))
  BY <1>1, TailFollows DEF TypeInv, StepsFollowRows, HeadIs
<1>4. QED BY <1>1, <1>2, <1>3, MovesKeepPlan

LEMMA RecordedType ==
  ASSUME TypeInv, NEW u \in Users, NEW kind, At(u, kind), NEW account \in Accounts \cup {None}
  PROVE  Recorded(u, account) \in [Users -> Entries \cup {None}]
  BY RowOfStep, AtIsFirst, EntryRecorded, NothingRecorded, SyncType DEF TypeInv

LEMMA CreateIds ==
  ASSUME TypeInv, NEW u \in Users, At(u, "create")
  PROVE  CreateUid(u) \in Ids \cup {None} /\ CreateGid(u) \in Ids \cup {None}
<1>1. Row(u).uid \in Ids \cup {None} /\ Row(u).gid \in Ids \cup {None}
  BY RowOfStep DEF AllRows
<1>2. group[u] \in Ids \cup {None}
  BY DEF TypeInv, TypeOK
<1>3. QED BY <1>1, <1>2, NextFreeIsFree DEF CreateUid, CreateGid

LEMMA CreateType ==
  ASSUME TypeInv, NEW u \in Users, Create(u)
  PROVE  TypeInv'
<1>1. At(u, "create") /\ UNCHANGED <<doc, members, file, histVars, edits, hands>>
  BY DEF Create
<1> DEFINE gid == CreateGid(u)
           uid == CreateUid(u)
           account == [uid |-> uid, gid |-> gid, locked |-> FALSE]
<1>2. gid \in Ids \cup {None} /\ uid \in Ids \cup {None}
  BY <1>1, CreateIds
<1>3. faults' \in 0..MaxFaults
  BY BoundsAssumption DEF Create, Fault, TypeInv, TypeOK
<1>4. group' \in [Users \cup Projects -> Ids \cup {None}]
  BY <1>2 DEF Create, TypeInv, TypeOK
<1>5. CASE proc' = Idle /\ passwd' = passwd
  BY <1>1, <1>3, <1>4, <1>5 DEF TypeInv, TypeOK, StepsFollowRows, histVars
<1>6. CASE /\ gid # None /\ uid # None /\ passwd' = [passwd EXCEPT ![u] = account]
           /\ Continue(u, Recorded(u, account))
  <2>1. account \in Accounts
    BY <1>2, <1>6 DEF Accounts
  <2>2. passwd' \in [Users -> Accounts \cup {None}]
    BY <1>6, <2>1 DEF TypeInv, TypeOK
  <2>3. Recorded(u, account) \in [Users -> Entries \cup {None}]
    BY <1>1, <2>1, RecordedType
  <2>4. proc' \in Syncs /\ StepsFollowRows'
    BY <1>1, <1>6, <2>3, TailMoves DEF Moves
  <2>5. QED BY <1>1, <1>3, <1>4, <2>2, <2>4 DEF TypeInv, TypeOK, histVars
<1>7. QED BY <1>5, <1>6 DEF Create, Abort

SameUids == \A v \in Users : /\ Exists(v)' <=> Exists(v)
                             /\ Exists(v) => passwd'[v].uid = passwd[v].uid

LEMMA LockChanges ==
  ASSUME TypeOK, NEW u \in Users, Exists(u), NEW locked \in BOOLEAN,
         passwd' = [passwd EXCEPT ![u].locked = locked]
  PROVE  passwd[u] \in Accounts /\ passwd' \in [Users -> Accounts \cup {None}] /\ SameUids
<1>1. passwd[u] \in Accounts
  BY DEF TypeOK, Exists
<1>2. passwd'[u] = [passwd[u] EXCEPT !.locked = locked]
      /\ \A v \in Users \ {u} : passwd'[v] = passwd[v]
  BY DEF TypeOK
<1>3. passwd'[u] \in Accounts /\ passwd'[u].uid = passwd[u].uid
  BY <1>1, <1>2 DEF Accounts
<1>4. passwd' \in [Users -> Accounts \cup {None}]
  BY <1>2, <1>3 DEF TypeOK
<1>5. SameUids
  BY <1>2, <1>3, NoneAssumption DEF SameUids, Exists
<1>6. QED BY <1>1, <1>4, <1>5

LEMMA SetLockType ==
  ASSUME TypeInv, NEW u \in Users, NEW kind, NEW locked \in BOOLEAN, SetLock(u, kind, locked)
  PROVE  TypeInv'
<1>1. At(u, kind) /\ UNCHANGED <<doc, group, members, file, histVars, edits, hands>>
  BY DEF SetLock
<1>2. faults' \in 0..MaxFaults
  BY BoundsAssumption DEF SetLock, Fault, TypeInv, TypeOK
<1>3. passwd' \in [Users -> Accounts \cup {None}]
  <2>1. CASE passwd' = passwd
    BY <2>1 DEF TypeInv, TypeOK
  <2>2. CASE Exists(u) /\ passwd' = [passwd EXCEPT ![u].locked = locked]
    BY <2>2, LockChanges DEF TypeInv
  <2>3. QED BY <2>1, <2>2 DEF SetLock
<1>4. passwd[u] \in Accounts \cup {None} /\ passwd'[u] \in Accounts \cup {None}
  BY <1>3 DEF TypeInv, TypeOK
<1>5. PICK account \in Accounts \cup {None} :
        Continue(u, Recorded(u, account)) \/ ContinueHurt(u, Recorded(u, account))
  BY <1>4 DEF SetLock
<1>6. proc' \in Syncs /\ StepsFollowRows'
  BY <1>1, <1>5, RecordedType, TailMoves DEF Moves
<1>7. QED BY <1>1, <1>2, <1>3, <1>6 DEF TypeInv, TypeOK, histVars

LEMMA PrimaryType ==
  ASSUME TypeInv, NEW u \in Users, Primary(u)
  PROVE  TypeInv'
<1> DEFINE gid == IF group[u] = None THEN GroupaddGid ELSE group[u]
<1>1. At(u, "primary") /\ UNCHANGED <<doc, members, file, histVars, edits, hands>>
  BY DEF Primary
<1>2. gid \in Ids \cup {None}
  BY GroupaddPicksId DEF TypeInv, TypeOK
<1>3. faults' \in 0..MaxFaults /\ group' \in [Users \cup Projects -> Ids \cup {None}]
  BY <1>2, BoundsAssumption DEF Primary, Fault, TypeInv, TypeOK
<1>4. CASE proc' = Idle /\ passwd' = passwd
  BY <1>1, <1>3, <1>4 DEF TypeInv, TypeOK, StepsFollowRows, histVars
<1>5. CASE /\ Exists(u) /\ gid # None /\ passwd' = [passwd EXCEPT ![u].gid = gid]
           /\ Continue(u, Recorded(u, passwd'[u]))
  <2>1. passwd' \in [Users -> Accounts \cup {None}] /\ passwd'[u] \in Accounts \cup {None}
    BY <1>2, <1>5 DEF TypeInv, TypeOK, Accounts, Exists
  <2>2. proc' \in Syncs /\ StepsFollowRows'
    BY <1>1, <1>5, <2>1, RecordedType, TailMoves DEF Moves
  <2>3. QED BY <1>1, <1>3, <2>1, <2>2 DEF TypeInv, TypeOK, histVars
<1>6. QED BY <1>4, <1>5 DEF Primary, Abort

LEMMA JoinType ==
  ASSUME TypeInv, NEW u \in Users, Join(u)
  PROVE  TypeInv'
<1> DEFINE p == Head(proc.todo[u]).group
           gid == IF group[p] = None THEN GroupaddGid ELSE group[p]
<1>1. At(u, "join") /\ UNCHANGED <<doc, passwd, file, byHand, edits, hands>>
  BY DEF Join
<1>2. p \in Projects
  <2>1. Todo(u) \in Seq(Steps) /\ Todo(u)[1].kind = "join" /\ 1 \in 1..Len(Todo(u))
        /\ Head(Todo(u)) = Todo(u)[1]
    BY <1>1, AtIsFirst DEF TypeInv, HeadIs
  <2>2. Todo(u)[1] \in Steps
    BY <2>1
  <2>3. QED BY <2>1, <2>2 DEF Steps, Todo
<1>3. gid \in Ids \cup {None}
  BY <1>2, GroupaddPicksId DEF TypeInv, TypeOK
<1>4. /\ faults' \in 0..MaxFaults /\ group' \in [Users \cup Projects -> Ids \cup {None}]
      /\ members' \in [Projects -> SUBSET Users] /\ joined' \in [Users -> SUBSET Projects]
  <2>1. faults' \in 0..MaxFaults
    <3>1. faults' = faults \/ Fault
      BY DEF Join
    <3>2. QED BY <3>1, BoundsAssumption DEF Fault, TypeInv, TypeOK
  <2>2. group' = group \/ group' = [group EXCEPT ![p] = gid]
    BY DEF Join
  <2>3. /\ members' = members \/ members' = [members EXCEPT ![p] = @ \cup {u}]
        /\ joined' = joined \/ joined' = [joined EXCEPT ![u] = @ \cup {p}]
    BY DEF Join
  <2> HIDE DEF gid, p
  <2>4. group' \in [Users \cup Projects -> Ids \cup {None}]
    BY <1>2, <1>3, <2>2 DEF TypeInv, TypeOK
  <2>5. members' \in [Projects -> SUBSET Users] /\ joined' \in [Users -> SUBSET Projects]
    BY <1>2, <2>3 DEF TypeInv, TypeOK
  <2>6. QED BY <2>1, <2>4, <2>5
<1>5. proc' \in Syncs \cup {Idle} /\ StepsFollowRows'
  <2>1. CASE Abort
    BY <2>1 DEF Abort, StepsFollowRows
  <2>2. CASE Continue(u, proc.mem)
    BY <1>1, <2>2, AtIsFirst, SyncType, TailMoves DEF Moves, TypeInv
  <2>3. QED BY <2>1, <2>2 DEF Join
<1>6. QED BY <1>1, <1>4, <1>5 DEF TypeInv, TypeOK

LEMMA LeaveType ==
  ASSUME TypeInv, NEW u \in Users, Leave(u) \/ Record(u)
  PROVE  TypeInv'
<1>1. PICK kind : At(u, kind)
  BY DEF Leave, Record
<1>2. UNCHANGED <<doc, passwd, group, file, byHand, edits, hands>>
  BY DEF Leave, Record, hostVars, histVars, boundVars
<1>3. passwd[u] \in Accounts \cup {None}
  BY DEF TypeInv, TypeOK
<1>4. proc' \in Syncs /\ StepsFollowRows'
  BY <1>1, <1>2, <1>3, RecordedType, TailMoves DEF Moves, Leave, Record
<1>5. /\ faults' \in 0..MaxFaults
      /\ members' \in [Projects -> SUBSET Users] /\ joined' \in [Users -> SUBSET Projects]
  BY BoundsAssumption DEF Leave, Record, Fault, TypeInv, TypeOK, hostVars, histVars, boundVars
<1>6. QED BY <1>2, <1>4, <1>5 DEF TypeInv, TypeOK

LEMMA RetireType ==
  ASSUME TypeInv, NEW u \in Users, Retire(u)
  PROVE  TypeInv'
<1> DEFINE old == proc.mem[u]
           new == [status |-> "inactive", gone |-> "leaving",
                   uid |-> passwd[u].uid, gid |-> passwd[u].gid,
                   ouid |-> IF old = None THEN passwd[u].uid ELSE old.ouid,
                   ogid |-> IF old = None THEN passwd[u].gid ELSE old.ogid,
                   groups |-> Row(u).groups]
           mem == [proc.mem EXCEPT ![u] = new]
           insert == <<Step("userdel")>> \o Tail(Todo(u))
<1>1. At(u, "inactive") /\ UNCHANGED <<doc, group, members, histVars, edits, hands>>
  BY DEF Retire
<1>2. /\ proc # Idle /\ HeadIs(u, "inactive") /\ Todo(u) \in Seq(Steps) /\ Todo(u) # <<>>
      /\ proc.mem \in [Users -> Entries \cup {None}]
  BY <1>1, AtIsFirst, SyncType DEF TypeInv, HeadIs
<1>3. faults' \in 0..MaxFaults
  BY BoundsAssumption DEF Retire, Fault, TypeInv, TypeOK
<1>4. CASE ~Exists(u)
  <2>1. UNCHANGED <<passwd, file>> /\ (Abort \/ Continue(u, proc.mem))
    BY <1>4 DEF Retire
  <2>2. proc' \in Syncs \cup {Idle} /\ StepsFollowRows'
    BY <1>1, <1>2, <2>1, TailMoves DEF Moves, Abort, StepsFollowRows
  <2>3. QED BY <1>1, <1>3, <2>1, <2>2 DEF TypeInv, TypeOK, histVars
<1>5. CASE Exists(u)
  <2>1. /\ file' = mem /\ passwd' = [passwd EXCEPT ![u].locked = TRUE]
        /\ \/ Abort \/ Continue(u, mem)
           \/ proc' = [proc EXCEPT !.mem = mem, !.todo[u] = <<Step("userdel")>> \o Tail(@)]
    <3>1. file' = mem /\ passwd' = [passwd EXCEPT ![u].locked = TRUE]
      BY <1>5 DEF Retire
    <3>2. \/ Abort \/ Continue(u, mem)
          \/ proc' = [proc EXCEPT !.mem = mem, !.todo[u] = <<Step("userdel")>> \o Tail(@)]
      BY <1>5 DEF Retire
    <3>3. QED BY <3>1, <3>2
  <2>2. passwd[u] \in Accounts /\ passwd' \in [Users -> Accounts \cup {None}]
    BY <1>5, <2>1, LockChanges DEF TypeInv
  <2>3. Row(u) \in AllRows /\ Row(u) # None /\ Row(u).status = "inactive"
    BY <1>1, RowOfStep DEF Lifecycle
  <2>4. new \in Entries
    BY <1>2, <2>2, <2>3 DEF Entries, Accounts, AllRows
  <2> HIDE DEF new
  <2>5. mem \in [Users -> Entries \cup {None}]
    BY <1>2, <2>4
  <2> HIDE DEF mem
  <2>6. CASE Abort
    BY <1>1, <1>3, <2>1, <2>2, <2>5, <2>6 DEF TypeInv, TypeOK, Abort, StepsFollowRows, histVars
  <2>7. CASE Continue(u, mem)
    <3>1. proc' \in Syncs /\ StepsFollowRows'
      BY <1>1, <2>5, <2>7, TailMoves DEF Moves
    <3>2. QED BY <1>1, <1>3, <2>1, <2>2, <2>5, <3>1 DEF TypeInv, TypeOK, histVars
  <2>8. CASE proc' = [proc EXCEPT !.mem = mem, !.todo[u] = <<Step("userdel")>> \o Tail(@)]
    <3>1. Moves(u, insert, mem)
      BY <1>2, <2>5, <2>8, InsertMoves DEF TypeInv, Kinds
    <3>2. Follows(insert, Row(u))
      BY <1>2, <2>3, InsertFollows DEF TypeInv, StepsFollowRows, Kinds
    <3>3. proc' \in Syncs /\ StepsFollowRows'
      BY <1>1, <1>2, <3>1, <3>2, MovesKeepPlan DEF Moves
    <3>4. QED BY <1>1, <1>3, <2>1, <2>2, <2>5, <3>3 DEF TypeInv, TypeOK, histVars
  <2>9. QED BY <2>1, <2>6, <2>7, <2>8
<1>6. QED BY <1>4, <1>5

LEMMA DeletedType ==
  ASSUME TypeOK, NEW u \in Users, Deleted(u)
  PROVE  /\ passwd' \in [Users -> Accounts \cup {None}]
         /\ group' \in [Users \cup Projects -> Ids \cup {None}]
         /\ members' \in [Projects -> SUBSET Users] /\ joined' \in [Users -> SUBSET Projects]
  BY DEF TypeOK, Deleted

LEMMA UserdelType ==
  ASSUME TypeInv, NEW u \in Users, Userdel(u)
  PROVE  TypeInv'
<1> DEFINE insert == <<Step("tombstone")>> \o Tail(Todo(u))
<1>1. At(u, "userdel") /\ UNCHANGED <<doc, byHand, edits, hands>>
  BY DEF Userdel
<1>2. /\ proc # Idle /\ HeadIs(u, "userdel") /\ Todo(u) \in Seq(Steps) /\ Todo(u) # <<>>
      /\ proc.mem \in [Users -> Entries \cup {None}]
  BY <1>1, AtIsFirst, SyncType DEF TypeInv, HeadIs
<1>3. faults' \in 0..MaxFaults
  BY BoundsAssumption DEF Userdel, Fault, TypeInv, TypeOK
<1>4. CASE Abort /\ file' = proc.mem /\ UNCHANGED <<hostVars, joined>>
  BY <1>1, <1>2, <1>3, <1>4 DEF TypeInv, TypeOK, Abort, StepsFollowRows, hostVars
<1>5. CASE /\ Deleted(u) /\ file' = file
           /\ proc' = [proc EXCEPT !.todo[u] = <<Step("tombstone")>> \o Tail(@)]
  <2>1. Row(u) \in AllRows /\ Row(u) # None /\ Row(u).status = "inactive"
    BY <1>1, RowOfStep DEF Lifecycle
  <2>2. Moves(u, insert, proc.mem)
    <3>1. proc' = [proc EXCEPT !.mem = proc.mem, !.todo[u] = <<Step("tombstone")>> \o Tail(@)]
      BY <1>2, <1>5, SyncType DEF TypeInv, Syncs
    <3>2. QED BY <1>2, <3>1, InsertMoves DEF TypeInv, Kinds
  <2>3. Follows(insert, Row(u))
    BY <1>2, <2>1, InsertFollows DEF TypeInv, StepsFollowRows, Kinds
  <2>4. proc' \in Syncs /\ StepsFollowRows'
    BY <1>1, <1>2, <2>2, <2>3, MovesKeepPlan DEF Moves
  <2>5. QED BY <1>1, <1>3, <1>5, <2>4, DeletedType DEF TypeInv, TypeOK
<1>6. QED BY <1>4, <1>5 DEF Userdel

LEMMA TombstoneType ==
  ASSUME TypeInv, NEW u \in Users, Tombstone(u), proc.mem[u] # None
  PROVE  TypeInv'
<1> DEFINE mem == [proc.mem EXCEPT ![u].gone = "tombstoned"]
<1>1. /\ At(u, "tombstone") /\ Continue(u, mem) /\ file' = mem
      /\ UNCHANGED <<doc, hostVars, histVars, boundVars>>
  BY DEF Tombstone
<1>2. mem \in [Users -> Entries \cup {None}]
  <2>1. proc.mem \in [Users -> Entries \cup {None}] /\ proc.mem[u] \in Entries
    BY <1>1, AtIsFirst, SyncType DEF TypeInv
  <2>2. [proc.mem[u] EXCEPT !.gone = "tombstoned"] \in Entries
    BY <2>1 DEF Entries
  <2>3. QED BY <2>1, <2>2
<1>3. proc' \in Syncs /\ StepsFollowRows'
  BY <1>1, <1>2, TailMoves DEF Moves
<1>4. QED BY <1>1, <1>2, <1>3 DEF TypeInv, TypeOK, hostVars, histVars, boundVars

LEMMA StartSyncType ==
  ASSUME TypeInv, NEW targets \in SUBSET Users, StartSync(targets)
  PROVE  TypeInv'
<1>1. /\ UNCHANGED <<doc, hostVars, file, histVars, boundVars>>
      /\ proc' = [pc |-> "apply", todo |-> Plan(targets), mem |-> file,
                  targets |-> targets, hurt |-> FALSE]
  BY DEF StartSync
<1>2. Plan(targets) \in [Users -> Seq(Steps)]
      /\ \A u \in Users : Follows(Plan(targets)[u], Row(u))
  BY PlanFollows DEF Plan, Row, Follows, TypeInv
<1>3. proc' \in Syncs
  BY <1>1, <1>2 DEF Syncs, TypeInv, TypeOK
<1>4. StepsFollowRows'
  BY <1>1, <1>2 DEF StepsFollowRows, Todo, Row
<1>5. QED BY <1>1, <1>3, <1>4 DEF TypeInv, TypeOK, hostVars, histVars, boundVars

LEMMA EndType ==
  ASSUME TypeInv, Finish \/ Crash
  PROVE  TypeInv'
<1>1. UNCHANGED <<doc, hostVars, histVars, edits, hands>> /\ proc' = Idle
  BY DEF Finish, Crash, Abort, boundVars
<1>2. file' \in [Users -> Entries \cup {None}] /\ faults' \in 0..MaxFaults
  BY BoundsAssumption, SyncType
     DEF Finish, Crash, NothingLeft, Fault, boundVars, TypeInv, TypeOK
<1>3. QED BY <1>1, <1>2 DEF TypeInv, TypeOK, StepsFollowRows, hostVars, histVars

LEMMA EditType ==
  ASSUME TypeInv,
         \/ \E u \in Users, row \in Rows : EditRow(u, row)
         \/ \E p \in Projects, how \in {"absent", "defined", "adopted"} : EditGroup(p, how)
  PROVE  TypeInv'
<1>1. PICK new \in Docs : Edit(new)
  BY DEF EditRow, EditGroup, TypeInv, TypeOK, Docs
<1>2. edits' \in 0..MaxEdits
  BY <1>1, BoundsAssumption DEF Edit, TypeInv, TypeOK
<1>3. QED BY <1>1, <1>2 DEF Edit, TypeInv, TypeOK, StepsFollowRows, hostVars, histVars

LEMMA IdsOfEntries ==
  ASSUME TypeOK, NEW u \in Users
  PROVE  IdsOf(file[u]) \in SUBSET Ids
  BY DEF TypeOK, IdsOf, Entries

LEMMA ByHandType ==
  ASSUME TypeInv, ByHand
  PROVE  /\ proc' \in Syncs \cup {Idle} /\ (proc' = Idle <=> proc = Idle)
         /\ proc # Idle => proc'.todo = proc.todo /\ proc'.mem = proc.mem
         /\ StepsFollowRows' /\ hands' \in 0..MaxByHand
         /\ doc' \in Docs /\ file' \in [Users -> Entries \cup {None}]
         /\ edits' \in 0..MaxEdits /\ faults' \in 0..MaxFaults
<1>1. hands' \in 0..MaxByHand
  BY BoundsAssumption DEF ByHand, TypeInv, TypeOK
<1>2. CASE proc = Idle
  BY <1>1, <1>2 DEF ByHand, TypeInv, TypeOK, StepsFollowRows
<1>3. CASE proc # Idle
  <2>1. proc \in Syncs /\ proc' = [proc EXCEPT !.hurt = TRUE]
    BY <1>3, SyncType DEF ByHand, TypeInv
  <2>2. proc' \in Syncs /\ proc'.todo = proc.todo /\ proc'.mem = proc.mem
    BY <2>1 DEF Syncs
  <2>3. proc' # Idle
    BY <2>2, SyncIsNotIdle
  <2>4. StepsFollowRows'
    BY <1>3, <2>2 DEF ByHand, TypeInv, StepsFollowRows, Todo, Row
  <2>5. QED BY <1>1, <1>3, <2>2, <2>3, <2>4 DEF ByHand, TypeInv, TypeOK
<1>4. QED BY <1>2, <1>3

LEMMA UseraddByHandType ==
  ASSUME TypeInv, NEW u \in Users, NEW i \in Ids, UseraddByHand(u, i)
  PROVE  TypeInv'
<1>1. [uid |-> i, gid |-> i, locked |-> FALSE] \in Accounts
  BY DEF Accounts
<1>2. /\ passwd' \in [Users -> Accounts \cup {None}]
      /\ group' \in [Users \cup Projects -> Ids \cup {None}]
      /\ byHand' \subseteq Ids
  BY <1>1, IdsOfEntries DEF UseraddByHand, TypeInv, TypeOK
<1>3. QED BY <1>2, ByHandType DEF UseraddByHand, TypeInv, TypeOK

LEMMA UserdelByHandType ==
  ASSUME TypeInv, NEW u \in Users, UserdelByHand(u)
  PROVE  TypeInv'
<1>1. byHand' \subseteq Ids
  BY IdsOfEntries DEF UserdelByHand, Exists, TypeInv, TypeOK, Accounts
<1>2. QED BY <1>1, DeletedType, ByHandType DEF UserdelByHand, TypeInv, TypeOK

LEMMA GpasswdByHandType ==
  ASSUME TypeInv, NEW u \in Users, NEW p \in Projects, GpasswdByHand(u, p)
  PROVE  TypeInv'
  BY ByHandType DEF GpasswdByHand, TypeInv, TypeOK

LEMMA InitType == Init => TypeInv
  BY BoundsAssumption, DocAssumption DEF Init, TypeInv, TypeOK, StepsFollowRows, Idle

-----------------------------------------------------------------------------
(* Identity.                                                               *)

UidsAreDistinct ==
    \A u, v \in Users : Exists(u) /\ Exists(v) /\ passwd[u].uid = passwd[v].uid => u = v

\* What the sync remembers and the file does not is of users who are not retired.
MemoryFollowsFile ==
    proc # Idle => \A u \in Users :
        \/ proc.mem[u] = file[u]
        \/ /\ proc.mem[u] # None /\ proc.mem[u].status # "inactive"
           /\ file[u] # None => proc.mem[u].ouid = file[u].ouid /\ proc.mem[u].ogid = file[u].ogid

Pending(u) == proc # Idle /\ HeadIs(u, "create")

\* What was checked when the sync began holds until the account is created.
CreatesAreReturns ==
    \A u \in Users : Pending(u) =>
        /\ proc.mem[u] = file[u]
        /\ proc.mem[u] # None /\ proc.mem[u].status = "inactive" =>
             Row(u).uid = proc.mem[u].ouid /\ Row(u).gid = proc.mem[u].ogid

\* An account has the UID its entry has had first, and only retirement ends it.
EntryIsOfAccount(state) ==
    \A u \in Users : state[u] # None /\ state[u].ouid \notin byHand =>
        /\ Exists(u) => passwd[u].uid = state[u].ouid
        /\ ~Exists(u) => state[u].status = "inactive"

\* TombstoneKeepsUid, of the file and of what will be the file.
Kept(state) ==
    \A u \in Tombstoned(state) : state[u].ouid \notin byHand =>
        /\ state[u].uid = state[u].ouid
        /\ \A v \in Users \ {u} : Exists(v) => passwd[v].uid # state[u].ouid

\* A UID that users.yml asks for is neither that of a retired user, nor of one
\* that this sync may still retire.
AskedIsFree ==
    \A u, v \in Users : Pending(u) /\ u # v /\ Row(u).uid \notin byHand =>
        /\ v \in Tombstoned(proc.mem) => Row(u).uid # proc.mem[v].ouid
        /\ Row(v) # None /\ Row(v).status = "inactive" /\ Exists(v) => Row(u).uid # passwd[v].uid

Removing(u) == proc # Idle /\ (HeadIs(u, "userdel") \/ HeadIs(u, "tombstone"))

\* Nobody is given the UID between userdel and the tombstone.
RemovalGoesOn ==
    \A u \in Users : Removing(u) =>
        /\ proc.mem[u] = file[u] /\ file[u] # None /\ file[u].status = "inactive"
        /\ \A v \in Users : Before(v, u) => Todo(v) = <<>>
        /\ file[u].ouid \notin byHand =>
             /\ file[u].uid = file[u].ouid
             /\ HeadIs(u, "tombstone") => \A v \in Users \ {u} :
                  /\ Pending(v) => Row(v).uid # file[u].ouid
                  /\ Exists(v) => passwd[v].uid # file[u].ouid

IdentityInv ==
    /\ UidsAreDistinct /\ MemoryFollowsFile /\ CreatesAreReturns
    /\ EntryIsOfAccount(file) /\ Kept(file)
    /\ proc # Idle => EntryIsOfAccount(proc.mem) /\ Kept(proc.mem)
    /\ AskedIsFree /\ RemovalGoesOn

Inv == TypeInv /\ IdentityInv

LEMMA NamesAreOrdered ==
  ASSUME NEW u \in Users, NEW v \in Users, u # v
  PROVE  Before(u, v) \/ Before(v, u)
<1>1. PICK i \in DOMAIN UserOrder, j \in DOMAIN UserOrder : UserOrder[i] = u /\ UserOrder[j] = v
  BY DEF Users, ToSet
<1>2. i \in Int /\ j \in Int /\ i # j
  BY <1>1, NamesAssumption
<1>3. i < j \/ j < i
  BY <1>2
<1>4. QED BY <1>1, <1>3 DEF Before

\* While a user is being removed no other has his turn.
LEMMA OneRemoval ==
  ASSUME Inv, NEW u \in Users, NEW kind, At(u, kind), NEW v \in Users, Removing(v)
  PROVE  u = v
<1>1. Todo(u) # <<>> /\ \A w \in Users : Before(w, u) => Todo(w) = <<>>
  BY AtIsFirst DEF Inv, TypeInv, HeadIs
<1>2. Todo(v) # <<>> /\ \A w \in Users : Before(w, v) => Todo(w) = <<>>
  BY DEF Removing, HeadIs, Inv, IdentityInv, RemovalGoesOn
<1>3. QED BY <1>1, <1>2, NamesAreOrdered

LEMMA AfterTail ==
  ASSUME Inv, NEW u \in Users, NEW kind, At(u, kind), NEW mem, Moves(u, Tail(Todo(u)), mem)
  PROVE  /\ proc # Idle /\ proc' # Idle /\ proc'.mem = mem
         /\ \A v \in Users : Pending(v)' => v # u /\ Pending(v)
         /\ \A v \in Users : ~Removing(v)'
<1>1. /\ proc # Idle /\ Todo(u) \in Seq(Steps) /\ Todo(u) # <<>> /\ Follows(Todo(u), Row(u))
  BY AtIsFirst DEF Inv, TypeInv, HeadIs, StepsFollowRows
<1>2. Tail(Todo(u)) # <<>> => Tail(Todo(u))[1].kind \notin {"create", "userdel", "tombstone"}
  BY <1>1, TailFollows
<1>3. proc' # Idle /\ proc'.mem = mem /\ proc'.todo = [proc.todo EXCEPT ![u] = Tail(Todo(u))]
  BY SyncIsNotIdle DEF Moves
<1>4. \A v \in Users : Todo(v)' = IF v = u THEN Tail(Todo(u)) ELSE Todo(v)
  BY <1>1, <1>3, SyncType DEF Todo, Inv, TypeInv
<1>5. \A v \in Users : Pending(v)' => v # u /\ Pending(v)
  BY <1>1, <1>2, <1>4 DEF Pending, HeadIs
<1>6. \A v \in Users : Removing(v)' => v # u /\ Removing(v)
  BY <1>1, <1>2, <1>4 DEF Removing, HeadIs
<1>7. QED BY <1>1, <1>3, <1>5, <1>6, OneRemoval

\* state_doc gets an entry for u, whose account has that UID, with or without
\* an older one.
Remembers(u, mem, uid) ==
    /\ mem \in [Users -> Entries \cup {None}]
    /\ \A v \in Users \ {u} : mem[v] = proc.mem[v]
    /\ mem[u] # None /\ mem[u].status # "inactive" /\ mem[u].uid = uid
    /\ proc.mem[u] = None => mem[u].gone = "none" /\ mem[u].ouid = uid
    /\ proc.mem[u] # None => /\ mem[u].ouid = proc.mem[u].ouid /\ mem[u].ogid = proc.mem[u].ogid
                             /\ mem[u].gone = "none" \/ mem[u].gone = proc.mem[u].gone

LEMMA RecordedRemembers ==
  ASSUME TypeInv, NEW u \in Users, NEW kind, At(u, kind), kind \notin Lifecycle,
         NEW account \in Accounts
  PROVE  Remembers(u, Recorded(u, account), account.uid)
<1>1. proc # Idle /\ Row(u) \in AllRows /\ Row(u).status # "inactive"
  BY AtIsFirst, RowOfStep DEF TypeInv
<1>2. QED BY <1>1, EntryRecorded, NoneAssumption DEF Remembers, TypeInv

LEMMA MemoryRemembers ==
  ASSUME Inv, NEW u \in Users, NEW uid, NEW mem, Remembers(u, mem, uid), proc # Idle,
         proc' # Idle, proc'.mem = mem, file' = file
  PROVE  MemoryFollowsFile'
  BY DEF Inv, IdentityInv, MemoryFollowsFile, Remembers

\* A step of a user who is neither created nor retired: lock, groups, record.
LEMMA QuietStep ==
  ASSUME Inv, NEW u \in Users, NEW kind, At(u, kind), NEW mem,
         Moves(u, Tail(Todo(u)), mem), UNCHANGED <<doc, file, byHand>>, SameUids,
         mem = proc.mem \/ (Exists(u) /\ Remembers(u, mem, passwd[u].uid))
  PROVE  IdentityInv'
<1>1. /\ proc # Idle /\ proc' # Idle /\ proc'.mem = mem
      /\ \A v \in Users : Pending(v)' => v # u /\ Pending(v)
      /\ \A v \in Users : ~Removing(v)'
  BY AfterTail
<1>2. \A v \in Users \ {u} : mem[v] = proc.mem[v]
  BY DEF Remembers
<1>3. UidsAreDistinct'
  BY DEF Inv, IdentityInv, UidsAreDistinct, SameUids
<1>4. MemoryFollowsFile'
  BY <1>1, MemoryRemembers DEF Inv, IdentityInv, MemoryFollowsFile
<1>5. CreatesAreReturns'
  BY <1>1, <1>2 DEF Inv, IdentityInv, CreatesAreReturns, Row
<1>6. EntryIsOfAccount(file)'
  BY DEF Inv, IdentityInv, EntryIsOfAccount, SameUids
<1>7. Kept(file)'
  BY DEF Inv, IdentityInv, Kept, Tombstoned, SameUids
<1>8. EntryIsOfAccount(proc.mem)'
  BY <1>1, <1>2 DEF Inv, IdentityInv, EntryIsOfAccount, SameUids, Remembers
<1>9. Kept(proc.mem)'
  BY <1>1, <1>2 DEF Inv, IdentityInv, Kept, Tombstoned, EntryIsOfAccount, SameUids, Remembers
<1>10. AskedIsFree'
  <2>1. \A v \in Users : v \in Tombstoned(mem) =>
           v \in Tombstoned(proc.mem) /\ mem[v].ouid = proc.mem[v].ouid
    BY <1>2 DEF Tombstoned, Remembers
  <2>2. QED BY <1>1, <2>1 DEF Inv, IdentityInv, AskedIsFree, Row, SameUids
<1>11. RemovalGoesOn'
  BY <1>1 DEF RemovalGoesOn
<1>12. QED BY <1>1, <1>3, <1>4, <1>5, <1>6, <1>7, <1>8, <1>9, <1>10, <1>11 DEF IdentityInv

\* The end of a sync, which saves what it has, or nothing.
LEMMA EndStep ==
  ASSUME Inv, proc # Idle, proc' = Idle, UNCHANGED <<doc, byHand>>, SameUids,
         file' = file \/ file' = proc.mem
  PROVE  IdentityInv'
<1>1. UidsAreDistinct'
  BY DEF Inv, IdentityInv, UidsAreDistinct, SameUids
<1>2. EntryIsOfAccount(file)'
  BY DEF Inv, IdentityInv, EntryIsOfAccount, SameUids
<1>3. Kept(file)'
  BY DEF Inv, IdentityInv, Kept, Tombstoned, SameUids
<1>4. MemoryFollowsFile' /\ CreatesAreReturns' /\ AskedIsFree' /\ RemovalGoesOn'
  BY DEF MemoryFollowsFile, CreatesAreReturns, AskedIsFree, RemovalGoesOn, Pending, Removing
<1>5. QED BY <1>1, <1>2, <1>3, <1>4 DEF IdentityInv

LEMMA CreatedUid ==
  ASSUME Inv, NEW u \in Users, At(u, "create"), ~Exists(u), CreateUid(u) # None
  PROVE  /\ proc.mem[u] # None /\ proc.mem[u].ouid \notin byHand => CreateUid(u) = proc.mem[u].ouid
         /\ \A v \in Tombstoned(proc.mem) \ {u} :
              proc.mem[v].ouid \notin byHand => CreateUid(u) # proc.mem[v].ouid
<1>1. proc # Idle /\ Pending(u) /\ proc.mem \in [Users -> Entries \cup {None}]
  BY AtIsFirst, SyncType DEF Pending, Inv, TypeInv
<1>2. \A v \in Users : proc.mem[v] # None => proc.mem[v].ouid \in Ids
  BY <1>1 DEF Entries
<1>3. ASSUME proc.mem[u] # None, proc.mem[u].ouid \notin byHand
      PROVE  CreateUid(u) = proc.mem[u].ouid
  <2>1. proc.mem[u].status = "inactive"
    BY <1>1, <1>3 DEF Inv, IdentityInv, EntryIsOfAccount
  <2>2. Row(u).uid = proc.mem[u].ouid
    BY <1>1, <1>3, <2>1 DEF Inv, IdentityInv, CreatesAreReturns
  <2>3. QED BY <1>2, <1>3, <2>2, NoneAssumption DEF CreateUid
<1>4. ASSUME NEW v \in Tombstoned(proc.mem) \ {u}, proc.mem[v].ouid \notin byHand
      PROVE  CreateUid(u) # proc.mem[v].ouid
  <2>1. v \in Users
    BY DEF Tombstoned
  <2>2. CASE Row(u).uid # None
    BY <1>1, <1>4, <2>1, <2>2 DEF CreateUid, Inv, IdentityInv, AskedIsFree
  <2>3. CASE Row(u).uid = None
    <3>1. CreateUid(u) \notin UsedUids \cup ReservedUids(proc.mem, u)
      BY <2>3, NextFreeIsFree DEF CreateUid
    <3>2. QED BY <3>1 DEF ReservedUids
  <2>4. QED BY <2>2, <2>3
<1>5. QED BY <1>3, <1>4

LEMMA CreateStep ==
  ASSUME Inv, NEW u \in Users, At(u, "create"), NEW account \in Accounts,
         account.uid = CreateUid(u), account.uid \notin UsedUids, ~Exists(u),
         passwd' = [passwd EXCEPT ![u] = account], Continue(u, Recorded(u, account)),
         UNCHANGED <<doc, file, byHand>>
  PROVE  IdentityInv'
<1> DEFINE uid == account.uid
           mem == Recorded(u, account)
<1>1. mem \in [Users -> Entries \cup {None}] /\ Remembers(u, mem, uid)
  <2>1. Remembers(u, mem, uid)
    BY RecordedRemembers DEF Inv, Lifecycle
  <2>2. QED BY <2>1 DEF Remembers
<1>2. Moves(u, Tail(Todo(u)), mem)
  BY <1>1, TailMoves DEF Inv
<1> HIDE DEF mem
<1>3. /\ proc # Idle /\ proc' # Idle /\ proc'.mem = mem
      /\ \A v \in Users : Pending(v)' => v # u /\ Pending(v)
      /\ \A v \in Users : ~Removing(v)'
  BY <1>2, AfterTail
<1>4. /\ Exists(u)' /\ passwd'[u].uid = uid
      /\ \A v \in Users \ {u} : (Exists(v)' <=> Exists(v)) /\ passwd'[v] = passwd[v]
  BY NoneAssumption DEF Exists, Inv, TypeInv, TypeOK
<1>5. \A v \in Users : Exists(v) => passwd[v].uid # uid
  BY DEF UsedUids
<1>6. /\ Pending(u) /\ proc.mem[u] = file[u]
      /\ Row(u).status = "active"
  BY AtIsFirst, RowOfStep DEF Pending, Inv, TypeInv, IdentityInv, CreatesAreReturns
<1>7. uid # None
  BY NoneAssumption DEF Accounts
<1>8. /\ proc.mem[u] # None /\ proc.mem[u].ouid \notin byHand => uid = proc.mem[u].ouid
      /\ \A v \in Tombstoned(proc.mem) \ {u} :
           proc.mem[v].ouid \notin byHand => uid # proc.mem[v].ouid
  BY <1>7, CreatedUid
<1>9. \A v \in Tombstoned(file) \ {u} : file[v].ouid \notin byHand => uid # file[v].ouid
  <2> SUFFICES ASSUME NEW v \in Tombstoned(file) \ {u}, file[v].ouid \notin byHand
               PROVE  uid # file[v].ouid
    OBVIOUS
  <2>1. v \in Users /\ file[v] # None
    BY DEF Tombstoned
  <2>2. CASE proc.mem[v] = file[v]
    BY <1>8, <2>1, <2>2 DEF Tombstoned
  <2>3. CASE proc.mem[v] # file[v]
    <3>1. proc.mem[v] # None /\ proc.mem[v].status # "inactive" /\ proc.mem[v].ouid = file[v].ouid
      BY <1>3, <2>1, <2>3 DEF Inv, IdentityInv, MemoryFollowsFile
    <3>2. Exists(v) /\ passwd[v].uid = file[v].ouid
      BY <1>3, <2>1, <3>1 DEF Inv, IdentityInv, EntryIsOfAccount
    <3>3. QED BY <1>5, <2>1, <3>2
  <2>4. QED BY <2>2, <2>3
<1> HIDE DEF uid
<1>10. UidsAreDistinct'
  BY <1>4, <1>5 DEF Inv, IdentityInv, UidsAreDistinct
<1>11. MemoryFollowsFile'
  BY <1>1, <1>3, MemoryRemembers
<1>12. CreatesAreReturns'
  BY <1>1, <1>3 DEF Inv, IdentityInv, CreatesAreReturns, Row, Remembers
<1>13. EntryIsOfAccount(file)'
  BY <1>4, <1>6, <1>8 DEF Inv, IdentityInv, EntryIsOfAccount
<1>14. Kept(file)'
  BY <1>4, <1>9 DEF Inv, IdentityInv, Kept, Tombstoned
<1>15. EntryIsOfAccount(proc.mem)'
  BY <1>1, <1>3, <1>4, <1>8 DEF Inv, IdentityInv, EntryIsOfAccount, Remembers
<1>16. Kept(proc.mem)'
  BY <1>1, <1>3, <1>4, <1>5, <1>8 DEF Inv, IdentityInv, Kept, Tombstoned, Remembers
<1>17. AskedIsFree'
  <2>1. \A v \in Users : v \in Tombstoned(mem) =>
           v \in Tombstoned(proc.mem) /\ mem[v].ouid = proc.mem[v].ouid
    BY <1>1 DEF Tombstoned, Remembers
  <2>2. QED BY <1>3, <1>4, <1>6, <2>1 DEF Inv, IdentityInv, AskedIsFree, Row
<1>18. RemovalGoesOn'
  BY <1>3 DEF RemovalGoesOn
<1>19. QED BY <1>3, <1>10, <1>11, <1>12, <1>13, <1>14, <1>15, <1>16, <1>17, <1>18 DEF IdentityInv

LEMMA AfterInsert ==
  ASSUME Inv, NEW u \in Users, NEW kind, At(u, kind), NEW mem,
         NEW next \in {"userdel", "tombstone"}, Moves(u, <<Step(next)>> \o Tail(Todo(u)), mem)
  PROVE  /\ proc # Idle /\ proc' # Idle /\ proc'.mem = mem
         /\ \A v \in Users : Pending(v)' => v # u /\ Pending(v)
         /\ \A v \in Users : Removing(v)' => v = u
         /\ \A v \in Users : Before(v, u) => Todo(v)' = <<>>
         /\ HeadIs(u, "tombstone")' => next = "tombstone"
<1> DEFINE steps == <<Step(next)>> \o Tail(Todo(u))
<1>1. /\ proc # Idle /\ Todo(u) \in Seq(Steps) /\ Todo(u) # <<>>
      /\ \A v \in Users : Before(v, u) => Todo(v) = <<>>
  BY AtIsFirst DEF Inv, TypeInv, HeadIs
<1>2. steps[1].kind = next
  <2>1. Tail(Todo(u)) \in Seq(Steps) /\ Step(next) \in Steps /\ Step(next).kind = next
    BY <1>1 DEF Step, Steps, Kinds
  <2>2. QED BY <2>1
<1> HIDE DEF steps
<1>3. proc' # Idle /\ proc'.mem = mem /\ proc'.todo = [proc.todo EXCEPT ![u] = steps]
  BY SyncIsNotIdle DEF Moves, steps
<1>4. \A v \in Users : Todo(v)' = IF v = u THEN steps ELSE Todo(v)
  BY <1>1, <1>3, SyncType DEF Todo, Inv, TypeInv
<1>5. \A v \in Users : Pending(v)' => v # u /\ Pending(v)
  BY <1>1, <1>2, <1>4 DEF Pending, HeadIs
<1>6. \A v \in Users : Removing(v)' => v = u
  <2>1. \A v \in Users : Removing(v)' => v = u \/ Removing(v)
    BY <1>1, <1>4 DEF Removing, HeadIs
  <2>2. QED BY <2>1, OneRemoval
<1>7. \A v \in Users : Before(v, u) => Todo(v)' = <<>>
  BY <1>1, <1>4
<1>8. QED BY <1>1, <1>2, <1>3, <1>4, <1>5, <1>6, <1>7 DEF HeadIs

\* What Retire writes of a user whose account is there.
Retired(u, mem) ==
    /\ mem \in [Users -> Entries \cup {None}]
    /\ \A v \in Users \ {u} : mem[v] = proc.mem[v]
    /\ mem[u] # None /\ mem[u].status = "inactive" /\ mem[u].gone = "leaving"
    /\ mem[u].uid = passwd[u].uid
    /\ mem[u].ouid = IF proc.mem[u] = None THEN passwd[u].uid ELSE proc.mem[u].ouid

LEMMA RetireStep ==
  ASSUME Inv, NEW u \in Users, At(u, "inactive"), Exists(u), NEW mem, Retired(u, mem),
         file' = mem, UNCHANGED <<doc, byHand>>, SameUids,
         \/ proc' = Idle
         \/ Moves(u, Tail(Todo(u)), mem)
         \/ Moves(u, <<Step("userdel")>> \o Tail(Todo(u)), mem)
  PROVE  IdentityInv'
<1>1. proc # Idle
  BY AtIsFirst DEF Inv, TypeInv
<1>2. /\ \A v \in Users : Pending(v)' => v # u /\ Pending(v) /\ proc'.mem = mem
      /\ \A v \in Users : Removing(v)' =>
           /\ v = u /\ proc'.mem = mem /\ ~HeadIs(u, "tombstone")'
           /\ \A w \in Users : Before(w, u) => Todo(w)' = <<>>
      /\ proc' # Idle => proc'.mem = mem
  <2>1. CASE proc' = Idle
    BY <2>1 DEF Pending, Removing
  <2>2. CASE Moves(u, Tail(Todo(u)), mem)
    BY <2>2, AfterTail
  <2>3. CASE Moves(u, <<Step("userdel")>> \o Tail(Todo(u)), mem)
    BY <2>3, AfterInsert
  <2>4. QED BY <2>1, <2>2, <2>3
<1>3. mem[u].ouid \notin byHand => passwd[u].uid = mem[u].ouid
  BY <1>1 DEF Inv, IdentityInv, EntryIsOfAccount, Retired
<1>4. UidsAreDistinct'
  BY DEF Inv, IdentityInv, UidsAreDistinct, SameUids
<1>5. MemoryFollowsFile'
  BY <1>2 DEF MemoryFollowsFile
<1>6. CreatesAreReturns'
  BY <1>2 DEF Inv, IdentityInv, CreatesAreReturns, Row, Retired
<1>7. EntryIsOfAccount(file)'
  BY <1>1, <1>3 DEF Inv, IdentityInv, EntryIsOfAccount, SameUids, Retired
<1>8. Kept(file)'
  BY <1>1 DEF Inv, IdentityInv, Kept, Tombstoned, SameUids, Retired
<1>9. proc' # Idle => EntryIsOfAccount(proc.mem)' /\ Kept(proc.mem)'
  BY <1>2, <1>7, <1>8 DEF EntryIsOfAccount, Kept, Tombstoned
<1>10. AskedIsFree'
  <2>1. \A v \in Users : v \in Tombstoned(mem) =>
           v \in Tombstoned(proc.mem) /\ mem[v].ouid = proc.mem[v].ouid
    BY DEF Tombstoned, Retired
  <2>2. QED BY <1>2, <2>1 DEF Inv, IdentityInv, AskedIsFree, Row, SameUids
<1>11. RemovalGoesOn'
  BY <1>2, <1>3 DEF RemovalGoesOn, Retired
<1>12. QED BY <1>4, <1>5, <1>6, <1>7, <1>8, <1>9, <1>10, <1>11 DEF IdentityInv

LEMMA UserdelStep ==
  ASSUME Inv, NEW u \in Users, At(u, "userdel"), Exists(u), Deleted(u),
         UNCHANGED <<doc, file, byHand>>,
         Moves(u, <<Step("tombstone")>> \o Tail(Todo(u)), proc.mem)
  PROVE  IdentityInv'
<1>1. /\ proc # Idle /\ proc' # Idle /\ proc'.mem = proc.mem
      /\ \A v \in Users : Pending(v)' => v # u /\ Pending(v)
      /\ \A v \in Users : Removing(v)' => v = u
      /\ \A v \in Users : Before(v, u) => Todo(v)' = <<>>
  BY AfterInsert
<1>2. /\ ~Exists(u)'
      /\ \A v \in Users \ {u} : (Exists(v)' <=> Exists(v)) /\ passwd'[v] = passwd[v]
  BY DEF Exists, Deleted, Inv, TypeInv, TypeOK
<1>3. Removing(u) /\ Row(u) # None /\ Row(u).status = "inactive"
  BY AtIsFirst, RowOfStep DEF Removing, Inv, TypeInv, Lifecycle
<1>4. proc.mem[u] = file[u] /\ file[u] # None /\ file[u].status = "inactive"
      /\ (file[u].ouid \notin byHand => file[u].uid = file[u].ouid)
  BY <1>3 DEF Inv, IdentityInv, RemovalGoesOn
<1>5. file[u].ouid \notin byHand => passwd[u].uid = file[u].ouid
  BY <1>4 DEF Inv, IdentityInv, EntryIsOfAccount
<1>6. UidsAreDistinct'
  BY <1>2 DEF Inv, IdentityInv, UidsAreDistinct
<1>7. MemoryFollowsFile' /\ CreatesAreReturns'
  BY <1>1 DEF Inv, IdentityInv, MemoryFollowsFile, CreatesAreReturns, Row
<1>8. EntryIsOfAccount(file)' /\ EntryIsOfAccount(proc.mem)'
  BY <1>1, <1>2, <1>4 DEF Inv, IdentityInv, EntryIsOfAccount
<1>9. Kept(file)' /\ Kept(proc.mem)'
  BY <1>1, <1>2 DEF Inv, IdentityInv, Kept, Tombstoned
<1>10. AskedIsFree'
  BY <1>1, <1>2 DEF Inv, IdentityInv, AskedIsFree, Row, Tombstoned
<1>11. RemovalGoesOn'
  <2>1. \A v \in Users \ {u} :
          Exists(v) /\ file[u].ouid \notin byHand => passwd[v].uid # file[u].ouid
    BY <1>5 DEF Inv, IdentityInv, UidsAreDistinct
  <2>2. \A v \in Users \ {u} : Pending(v) /\ file[u].ouid \notin byHand => Row(v).uid # file[u].ouid
    BY <1>3, <1>5 DEF Inv, IdentityInv, AskedIsFree
  <2>3. QED BY <1>1, <1>2, <1>4, <2>1, <2>2 DEF RemovalGoesOn, Row
<1>12. QED BY <1>6, <1>7, <1>8, <1>9, <1>10, <1>11 DEF IdentityInv

LEMMA TombstoneStep ==
  ASSUME Inv, NEW u \in Users, Tombstone(u)
  PROVE  TypeInv' /\ IdentityInv'
<1> DEFINE mem == [proc.mem EXCEPT ![u].gone = "tombstoned"]
<1>1. /\ At(u, "tombstone") /\ Continue(u, mem) /\ file' = mem
      /\ UNCHANGED <<doc, passwd, byHand>>
  BY DEF Tombstone, hostVars, histVars
<1>2. Removing(u) /\ HeadIs(u, "tombstone") /\ proc # Idle
  BY <1>1, AtIsFirst DEF Removing, Inv, TypeInv
<1>3. /\ proc.mem[u] = file[u] /\ file[u] # None /\ file[u].status = "inactive"
      /\ file[u].ouid \notin byHand =>
           /\ file[u].uid = file[u].ouid
           /\ \A v \in Users \ {u} : /\ Pending(v) => Row(v).uid # file[u].ouid
                                     /\ Exists(v) => passwd[v].uid # file[u].ouid
  BY <1>2 DEF Inv, IdentityInv, RemovalGoesOn
<1>4. TypeInv'
  BY <1>3, TombstoneType DEF Inv
<1>5. /\ mem \in [Users -> Entries \cup {None}] /\ mem[u] \in Entries
      /\ \A v \in Users \ {u} : mem[v] = proc.mem[v]
      /\ mem[u].status = "inactive" /\ mem[u].uid = file[u].uid /\ mem[u].ouid = file[u].ouid
  <2>1. proc.mem \in [Users -> Entries \cup {None}] /\ proc.mem[u] \in Entries
    BY <1>2, <1>3, SyncType DEF Inv, TypeInv
  <2>2. [proc.mem[u] EXCEPT !.gone = "tombstoned"] \in Entries
    BY <2>1 DEF Entries
  <2>3. mem = [proc.mem EXCEPT ![u] = [proc.mem[u] EXCEPT !.gone = "tombstoned"]]
    OBVIOUS
  <2>4. mem[u] = [proc.mem[u] EXCEPT !.gone = "tombstoned"]
    BY <2>1, <2>3
  <2>5. mem[u].status = proc.mem[u].status /\ mem[u].uid = proc.mem[u].uid
        /\ mem[u].ouid = proc.mem[u].ouid
    BY <2>1, <2>4 DEF Entries
  <2>6. QED BY <1>3, <2>1, <2>2, <2>4, <2>5
<1>6. mem[u] # None
  BY <1>5, NoneAssumption
<1> HIDE DEF mem
<1>7. /\ proc' # Idle /\ proc'.mem = mem
      /\ \A v \in Users : Pending(v)' => v # u /\ Pending(v)
      /\ \A v \in Users : ~Removing(v)'
  <2>1. Moves(u, Tail(Todo(u)), mem)
    BY <1>1, <1>5, TailMoves DEF Inv
  <2>2. QED BY <1>1, <2>1, AfterTail
<1>8. UidsAreDistinct'
  BY <1>1 DEF Inv, IdentityInv, UidsAreDistinct, Exists
<1>9. MemoryFollowsFile'
  BY <1>1, <1>7 DEF MemoryFollowsFile
<1>10. CreatesAreReturns'
  BY <1>1, <1>5, <1>7 DEF Inv, IdentityInv, CreatesAreReturns, Row
<1>11. EntryIsOfAccount(file)'
  BY <1>1, <1>2, <1>3, <1>5 DEF Inv, IdentityInv, EntryIsOfAccount, Exists
<1>12. Kept(file)'
  BY <1>1, <1>2, <1>3, <1>5 DEF Inv, IdentityInv, Kept, Tombstoned, Exists
<1>13. EntryIsOfAccount(proc.mem)' /\ Kept(proc.mem)'
  BY <1>1, <1>7, <1>11, <1>12 DEF EntryIsOfAccount, Kept, Tombstoned
<1>14. AskedIsFree'
  <2>1. \A v \in Users \ {u} : v \in Tombstoned(mem) =>
           v \in Tombstoned(proc.mem) /\ mem[v].ouid = proc.mem[v].ouid
    BY <1>5 DEF Tombstoned
  <2>2. QED BY <1>1, <1>3, <1>5, <1>7, <2>1 DEF Inv, IdentityInv, AskedIsFree, Row, Exists
<1>15. RemovalGoesOn'
  BY <1>7 DEF RemovalGoesOn
<1>16. QED BY <1>4, <1>8, <1>9, <1>10, <1>11, <1>12, <1>13, <1>14, <1>15 DEF IdentityInv

LEMMA PlanStarts ==
  ASSUME TypeOK, NEW u \in Users, PlanOf(u) # <<>>
  PROVE  /\ PlanOf(u)[1].kind \notin {"userdel", "tombstone"}
         /\ PlanOf(u)[1].kind = "create" => doc.row[u] # None /\ doc.row[u].status = "active"
<1>1. PlanOf(u) \in Seq(Steps) /\ Follows(PlanOf(u), doc.row[u])
  BY PlanFollows
<1>2. 1 \in 1..Len(PlanOf(u))
  BY <1>1
<1>3. CASE doc.row[u] # None /\ doc.row[u].status = "inactive"
  <2>1. PlanOf(u) = <<Step("inactive")>>
    BY <1>3 DEF PlanOf
  <2>2. QED BY <2>1 DEF Step
<1>4. CASE ~(doc.row[u] # None /\ doc.row[u].status = "inactive")
  BY <1>1, <1>2, <1>4 DEF Follows, Lifecycle
<1>5. QED BY <1>3, <1>4

LEMMA StartSyncStep ==
  ASSUME Inv, NEW targets \in SUBSET Users, StartSync(targets)
  PROVE  IdentityInv'
<1>1. /\ proc = Idle /\ ValidDoc /\ NoPlanError(targets)
      /\ UNCHANGED <<doc, passwd, file, byHand>>
      /\ proc' = [pc |-> "apply", todo |-> Plan(targets), mem |-> file,
                  targets |-> targets, hurt |-> FALSE]
  BY DEF StartSync, hostVars, histVars
<1>2. proc'.mem = file /\ \A u \in Users : Todo(u)' = IF u \in targets THEN PlanOf(u) ELSE <<>>
  BY <1>1 DEF Todo, Plan
<1>3. \A u \in Users : /\ ~Removing(u)'
                       /\ Pending(u)' => u \in targets /\ Row(u) # None /\ Row(u).status = "active"
  BY <1>2, PlanStarts DEF Removing, Pending, HeadIs, Row, Inv, TypeInv
<1>4. UidsAreDistinct'
  BY <1>1 DEF Inv, IdentityInv, UidsAreDistinct, Exists
<1>5. MemoryFollowsFile' /\ RemovalGoesOn'
  BY <1>1, <1>2, <1>3 DEF MemoryFollowsFile, RemovalGoesOn
<1>6. CreatesAreReturns'
  <2>1. \A u \in Users : Pending(u)' /\ file[u] # None /\ file[u].status = "inactive" =>
           Row(u).uid = file[u].ouid /\ Row(u).gid = file[u].ogid
    BY <1>1, <1>3 DEF NoPlanError, MayReturn, Row
  <2>2. QED BY <1>1, <1>2, <2>1 DEF CreatesAreReturns, Row
<1>7. EntryIsOfAccount(file)' /\ Kept(file)'
  BY <1>1 DEF Inv, IdentityInv, EntryIsOfAccount, Kept, Tombstoned, Exists
<1>8. EntryIsOfAccount(proc.mem)' /\ Kept(proc.mem)'
  BY <1>1, <1>2, <1>7 DEF EntryIsOfAccount, Kept, Tombstoned, Exists
<1>9. AskedIsFree'
  <2> SUFFICES ASSUME NEW u \in Users, NEW v \in Users, Pending(u)', u # v
               PROVE  /\ v \in Tombstoned(file) => Row(u).uid # file[v].ouid
                      /\ Exists(v) => Row(u).uid # passwd[v].uid
    BY <1>1, <1>2 DEF AskedIsFree, Row, Exists, Tombstoned
  <2>1. NoLocalConflict(u, Row(u))
    BY <1>1, <1>3 DEF ValidDoc, Row
  <2>2. CASE Row(u).uid # None
    <3>1. Row(u).uid \notin ReservedUids(file, u) /\ UidOwners(Row(u).uid) \subseteq {u}
      BY <2>1, <2>2 DEF NoLocalConflict
    <3>2. QED BY <3>1 DEF ReservedUids, UidOwners
  <2>3. CASE Row(u).uid = None
    BY <2>3, NoneAssumption DEF Tombstoned, Exists, Inv, TypeInv, TypeOK, Entries, Accounts
  <2>4. QED BY <2>2, <2>3
<1>10. QED BY <1>4, <1>5, <1>6, <1>7, <1>8, <1>9 DEF IdentityInv

\* An administrator leaves the plan alone; what he does is in byHand.
LEMMA AfterByHand ==
  ASSUME Inv, ByHand
  PROVE  /\ UNCHANGED <<doc, file>> /\ (proc' = Idle <=> proc = Idle)
         /\ proc # Idle => proc'.mem = proc.mem
         /\ \A u \in Users : /\ Pending(u)' => Pending(u)
                             /\ Removing(u)' => Removing(u)
                             /\ proc # Idle => Todo(u)' = Todo(u)
<1>1. /\ proc' = Idle <=> proc = Idle
      /\ proc # Idle => proc'.todo = proc.todo /\ proc'.mem = proc.mem
  BY ByHandType DEF Inv
<1>2. QED BY <1>1 DEF ByHand, Pending, Removing, HeadIs, Todo

\* An account that comes or goes by hand, the UIDs it is about in byHand.
LEMMA ByHandStep ==
  ASSUME Inv, ByHand, NEW u \in Users, byHand \subseteq byHand', UidsAreDistinct',
         \A v \in Users \ {u} : (Exists(v)' <=> Exists(v)) /\ passwd'[v] = passwd[v],
         Exists(u)' => passwd'[u].uid \in byHand',
         file[u] # None => file[u].ouid \in byHand',
         proc # Idle /\ proc.mem[u] # None => proc.mem[u].ouid \in byHand'
  PROVE  IdentityInv'
<1>1. /\ UNCHANGED <<doc, file>> /\ (proc' = Idle <=> proc = Idle)
      /\ proc # Idle => proc'.mem = proc.mem
      /\ \A v \in Users : /\ Pending(v)' => Pending(v)
                          /\ Removing(v)' => Removing(v)
                          /\ proc # Idle => Todo(v)' = Todo(v)
  BY AfterByHand
<1>2. MemoryFollowsFile' /\ CreatesAreReturns'
  BY <1>1 DEF Inv, IdentityInv, MemoryFollowsFile, CreatesAreReturns, Row, Pending
<1>3. EntryIsOfAccount(file)'
  BY <1>1 DEF Inv, IdentityInv, EntryIsOfAccount
<1>4. Kept(file)'
  BY <1>1 DEF Inv, IdentityInv, Kept, Tombstoned
<1>5. proc' # Idle => EntryIsOfAccount(proc.mem)'
  BY <1>1 DEF Inv, IdentityInv, EntryIsOfAccount
<1>6. proc' # Idle => Kept(proc.mem)'
  BY <1>1 DEF Inv, IdentityInv, Kept, Tombstoned
<1>7. AskedIsFree'
  BY <1>1 DEF Inv, IdentityInv, AskedIsFree, Row, Tombstoned, Pending
<1>8. RemovalGoesOn'
  <2> SUFFICES ASSUME NEW v \in Users, Removing(v)'
               PROVE  /\ proc.mem[v] = file[v] /\ file[v] # None /\ file[v].status = "inactive"
                      /\ \A w \in Users : Before(w, v) => Todo(w)' = <<>>
                      /\ file[v].ouid \notin byHand' =>
                           /\ file[v].uid = file[v].ouid
                           /\ HeadIs(v, "tombstone")' => \A w \in Users \ {v} :
                                /\ Pending(w)' => Row(w).uid # file[v].ouid
                                /\ Exists(w)' => passwd'[w].uid # file[v].ouid
    BY <1>1 DEF RemovalGoesOn, Row, Removing
  <2>1. Removing(v) /\ proc # Idle /\ (HeadIs(v, "tombstone")' => HeadIs(v, "tombstone"))
    BY <1>1 DEF Removing, HeadIs
  <2>2. QED BY <1>1, <2>1 DEF Inv, IdentityInv, RemovalGoesOn
<1>9. QED BY <1>2, <1>3, <1>4, <1>5, <1>6, <1>7, <1>8 DEF IdentityInv

LEMMA UseraddByHandStep ==
  ASSUME Inv, NEW u \in Users, NEW i \in Ids, UseraddByHand(u, i)
  PROVE  IdentityInv'
<1>1. /\ ByHand /\ ~Exists(u) /\ UidOwners(i) = {} /\ byHand \subseteq byHand' /\ i \in byHand'
      /\ IdsOf(file[u]) \subseteq byHand'
  BY DEF UseraddByHand
<1>2. /\ Exists(u)' /\ passwd'[u].uid = i
      /\ \A v \in Users \ {u} : (Exists(v)' <=> Exists(v)) /\ passwd'[v] = passwd[v]
  <2>1. [uid |-> i, gid |-> i, locked |-> FALSE] \in Accounts
    BY DEF Accounts
  <2>2. QED BY <2>1, NoneAssumption DEF UseraddByHand, Exists, Inv, TypeInv, TypeOK
<1>3. file[u] # None => file[u].ouid \in byHand'
  BY <1>1 DEF IdsOf
<1>4. proc # Idle /\ proc.mem[u] # None => proc.mem[u].ouid \in byHand'
  BY <1>1, <1>3 DEF Inv, IdentityInv, MemoryFollowsFile, EntryIsOfAccount
<1>5. UidsAreDistinct'
  BY <1>1, <1>2 DEF Inv, IdentityInv, UidsAreDistinct, UidOwners
<1>6. QED BY <1>1, <1>2, <1>3, <1>4, <1>5, ByHandStep

LEMMA UserdelByHandStep ==
  ASSUME Inv, NEW u \in Users, UserdelByHand(u)
  PROVE  IdentityInv'
<1>1. /\ ByHand /\ Exists(u) /\ byHand \subseteq byHand' /\ passwd[u].uid \in byHand'
  BY DEF UserdelByHand
<1>2. /\ ~Exists(u)'
      /\ \A v \in Users \ {u} : (Exists(v)' <=> Exists(v)) /\ passwd'[v] = passwd[v]
  BY DEF UserdelByHand, Exists, Deleted, Inv, TypeInv, TypeOK
<1>3. file[u] # None => file[u].ouid \in byHand'
  BY <1>1 DEF Inv, IdentityInv, EntryIsOfAccount
<1>4. proc # Idle /\ proc.mem[u] # None => proc.mem[u].ouid \in byHand'
  BY <1>1 DEF Inv, IdentityInv, EntryIsOfAccount
<1>5. UidsAreDistinct'
  BY <1>2 DEF Inv, IdentityInv, UidsAreDistinct
<1>6. QED BY <1>1, <1>2, <1>3, <1>4, <1>5, ByHandStep

\* Steps that bear on none of it.
LEMMA SameStep ==
  ASSUME Inv, SameUids, UNCHANGED <<doc, file, byHand>>, proc' = Idle <=> proc = Idle,
         proc # Idle => proc'.mem = proc.mem /\ proc'.todo = proc.todo
  PROVE  IdentityInv'
<1>1. \A u \in Users : /\ Pending(u)' <=> Pending(u)
                       /\ Removing(u)' <=> Removing(u)
                       /\ proc # Idle =>
                            /\ Todo(u)' = Todo(u)
                            /\ HeadIs(u, "tombstone")' <=> HeadIs(u, "tombstone")
  BY DEF Pending, Removing, HeadIs, Todo
<1>2. UidsAreDistinct'
  BY DEF Inv, IdentityInv, UidsAreDistinct, SameUids
<1>3. MemoryFollowsFile' /\ CreatesAreReturns'
  BY <1>1 DEF Inv, IdentityInv, MemoryFollowsFile, CreatesAreReturns, Row, Pending
<1>4. EntryIsOfAccount(file)' /\ Kept(file)'
  BY DEF Inv, IdentityInv, EntryIsOfAccount, Kept, Tombstoned, SameUids
<1>5. proc' # Idle => EntryIsOfAccount(proc.mem)' /\ Kept(proc.mem)'
  BY DEF Inv, IdentityInv, EntryIsOfAccount, Kept, Tombstoned, SameUids
<1>6. AskedIsFree'
  BY <1>1 DEF Inv, IdentityInv, AskedIsFree, Row, Tombstoned, Pending, SameUids
<1>7. RemovalGoesOn'
  BY <1>1 DEF Inv, IdentityInv, RemovalGoesOn, Row, Removing, SameUids
<1>8. QED BY <1>2, <1>3, <1>4, <1>5, <1>6, <1>7 DEF IdentityInv

LEMMA EditStep ==
  ASSUME Inv, proc = Idle, UNCHANGED <<passwd, file, proc, byHand>>
  PROVE  IdentityInv'
<1>1. UidsAreDistinct' /\ EntryIsOfAccount(file)' /\ Kept(file)'
  BY DEF Inv, IdentityInv, UidsAreDistinct, EntryIsOfAccount, Kept, Tombstoned, Exists
<1>2. MemoryFollowsFile' /\ CreatesAreReturns' /\ AskedIsFree' /\ RemovalGoesOn'
  BY DEF MemoryFollowsFile, CreatesAreReturns, AskedIsFree, RemovalGoesOn, Pending, Removing
<1>3. QED BY <1>1, <1>2 DEF IdentityInv

-----------------------------------------------------------------------------
(* The actions of a sync.                                                  *)

\* An action that records u's account, its UID unchanged.
LEMMA RecordingStep ==
  ASSUME Inv, NEW u \in Users, NEW kind, At(u, kind), kind \notin Lifecycle,
         NEW account \in Accounts \cup {None},
         account # None => Exists(u) /\ account.uid = passwd[u].uid,
         UNCHANGED <<doc, file, byHand>>, SameUids,
         Continue(u, Recorded(u, account)) \/ ContinueHurt(u, Recorded(u, account))
  PROVE  IdentityInv'
<1>1. Moves(u, Tail(Todo(u)), Recorded(u, account))
  BY RecordedType, TailMoves DEF Inv
<1>2. CASE account = None
  BY <1>1, <1>2, NothingRecorded, QuietStep
<1>3. CASE account # None
  <2>1. Exists(u) /\ Remembers(u, Recorded(u, account), passwd[u].uid)
    BY <1>3, RecordedRemembers DEF Inv
  <2>2. QED BY <1>1, <2>1, QuietStep
<1>4. QED BY <1>2, <1>3

LEMMA AccountOf ==
  ASSUME TypeOK, NEW u \in Users
  PROVE  /\ passwd[u] \in Accounts \cup {None}
         /\ passwd[u] # None <=> Exists(u)
  BY DEF TypeOK, Exists

LEMMA SyncStepIdentity ==
  ASSUME Inv, NEW u \in Users, SyncStep(u)
  PROVE  TypeInv' /\ IdentityInv'
<1>1. CASE Create(u)
  <2> DEFINE account == [uid |-> CreateUid(u), gid |-> CreateGid(u), locked |-> FALSE]
  <2>1. TypeInv'
    BY <1>1, CreateType DEF Inv
  <2>2. At(u, "create") /\ UNCHANGED <<doc, file, byHand>>
    BY <1>1 DEF Create, histVars
  <2>3. CASE Abort /\ passwd' = passwd
    BY <2>1, <2>2, <2>3, EndStep, AtIsFirst DEF Abort, SameUids, Exists, Inv, TypeInv
  <2>4. CASE /\ CreateGid(u) # None /\ CreateUid(u) # None /\ CreateUid(u) \notin UsedUids
             /\ ~Exists(u) /\ passwd' = [passwd EXCEPT ![u] = account]
             /\ Continue(u, Recorded(u, account))
    <3>1. account \in Accounts /\ account.uid = CreateUid(u)
      BY <2>2, <2>4, CreateIds DEF Accounts, Inv
    <3> HIDE DEF account
    <3>2. QED BY <2>1, <2>2, <2>4, <3>1, CreateStep
  <2>5. IdentityInv'
    BY <1>1, <2>3, <2>4 DEF Create
  <2>6. QED BY <2>1, <2>5
<1>2. ASSUME NEW kind \in {"lock", "unlock"}, NEW locked \in BOOLEAN, SetLock(u, kind, locked)
      PROVE  TypeInv' /\ IdentityInv'
  <2>1. TypeInv'
    BY <1>2, SetLockType DEF Inv
  <2>2. At(u, kind) /\ UNCHANGED <<doc, file, byHand>>
    BY <1>2 DEF SetLock, histVars
  <2>3. /\ SameUids /\ (passwd'[u] # None <=> Exists(u))
        /\ Exists(u) => passwd'[u].uid = passwd[u].uid
    <3>1. CASE passwd' = passwd
      BY <3>1 DEF SameUids, Exists
    <3>2. CASE Exists(u) /\ passwd' = [passwd EXCEPT ![u].locked = locked]
      BY <3>2, LockChanges DEF SameUids, Exists, Inv, TypeInv
    <3>3. QED BY <1>2, <3>1, <3>2 DEF SetLock
  <2>4. passwd'[u] \in Accounts \cup {None} /\ passwd[u] \in Accounts \cup {None}
    BY <2>1 DEF Inv, TypeInv, TypeOK
  <2>5. PICK account \in Accounts \cup {None} :
          /\ Continue(u, Recorded(u, account)) \/ ContinueHurt(u, Recorded(u, account))
          /\ account # None => Exists(u) /\ account.uid = passwd[u].uid
    BY <1>2, <2>3, <2>4, AccountOf DEF SetLock, Inv, TypeInv
  <2>6. QED BY <2>1, <2>2, <2>3, <2>5, RecordingStep DEF Lifecycle
<1>3. CASE Primary(u)
  <2>1. TypeInv'
    BY <1>3, PrimaryType DEF Inv
  <2>2. At(u, "primary") /\ UNCHANGED <<doc, file, byHand>>
    BY <1>3 DEF Primary, histVars
  <2>3. /\ SameUids /\ (passwd'[u] # None <=> Exists(u))
        /\ Exists(u) => passwd'[u].uid = passwd[u].uid
    BY <1>3, <2>1, NoneAssumption DEF Primary, SameUids, Exists, Inv, TypeInv, TypeOK, Accounts
  <2>4. passwd'[u] \in Accounts \cup {None}
    BY <2>1 DEF TypeInv, TypeOK
  <2>5. CASE Abort
    BY <2>1, <2>2, <2>3, <2>5, EndStep, AtIsFirst DEF Abort, Inv, TypeInv
  <2>6. CASE Continue(u, Recorded(u, passwd'[u]))
    BY <2>1, <2>2, <2>3, <2>4, <2>6, RecordingStep DEF Lifecycle
  <2>7. QED BY <1>3, <2>1, <2>5, <2>6 DEF Primary
<1>4. CASE Join(u)
  <2>1. TypeInv'
    BY <1>4, JoinType DEF Inv
  <2>2. At(u, "join") /\ UNCHANGED <<doc, passwd, file, byHand>> /\ (Abort \/ Continue(u, proc.mem))
    BY <1>4 DEF Join
  <2>3. SameUids /\ proc # Idle /\ proc.mem \in [Users -> Entries \cup {None}]
    BY <2>2, AtIsFirst, SyncType DEF SameUids, Exists, Inv, TypeInv
  <2>4. CASE Abort
    BY <2>1, <2>2, <2>3, <2>4, EndStep DEF Abort
  <2>5. CASE Continue(u, proc.mem)
    <3>1. Moves(u, Tail(Todo(u)), proc.mem)
      BY <2>2, <2>3, <2>5, TailMoves DEF Inv
    <3>2. QED BY <2>1, <2>2, <2>3, <3>1, QuietStep
  <2>6. QED BY <2>1, <2>2, <2>4, <2>5
<1>5. CASE Leave(u) \/ Record(u)
  <2>1. TypeInv'
    BY <1>5, LeaveType DEF Inv
  <2>2. PICK kind \in {"leave", "record"} : At(u, kind)
    BY <1>5 DEF Leave, Record
  <2>3. /\ UNCHANGED <<doc, passwd, file, byHand>>
        /\ Continue(u, Recorded(u, passwd[u])) \/ ContinueHurt(u, Recorded(u, passwd[u]))
    BY <1>5 DEF Leave, Record, hostVars, histVars, boundVars
  <2>4. SameUids
    BY <2>3 DEF SameUids, Exists
  <2>5. QED BY <2>1, <2>2, <2>3, <2>4, AccountOf, RecordingStep DEF Lifecycle, Inv, TypeInv
<1>6. CASE Retire(u)
  <2>1. TypeInv'
    BY <1>6, RetireType DEF Inv
  <2>2. At(u, "inactive") /\ UNCHANGED <<doc, byHand>>
    BY <1>6 DEF Retire, histVars
  <2>3. /\ proc # Idle /\ proc.mem \in [Users -> Entries \cup {None}]
        /\ Todo(u) # <<>>
    BY <2>2, AtIsFirst, SyncType DEF Inv, TypeInv, HeadIs
  <2>4. CASE ~Exists(u)
    <3>1. UNCHANGED <<passwd, file>> /\ (Abort \/ Continue(u, proc.mem))
      BY <1>6, <2>4 DEF Retire
    <3>2. SameUids
      BY <3>1 DEF SameUids, Exists
    <3>3. CASE Abort
      BY <2>1, <2>2, <2>3, <3>1, <3>2, <3>3, EndStep DEF Abort
    <3>4. CASE Continue(u, proc.mem)
      <4>1. Moves(u, Tail(Todo(u)), proc.mem)
        BY <2>2, <2>3, <3>4, TailMoves DEF Inv
      <4>2. QED BY <2>1, <2>2, <3>1, <3>2, <4>1, QuietStep
    <3>5. QED BY <3>1, <3>3, <3>4
  <2>5. CASE Exists(u)
    <3> DEFINE old == proc.mem[u]
               new == [status |-> "inactive", gone |-> "leaving",
                       uid |-> passwd[u].uid, gid |-> passwd[u].gid,
                       ouid |-> IF old = None THEN passwd[u].uid ELSE old.ouid,
                       ogid |-> IF old = None THEN passwd[u].gid ELSE old.ogid,
                       groups |-> Row(u).groups]
               mem == [proc.mem EXCEPT ![u] = new]
    <3>1. /\ file' = mem /\ passwd' = [passwd EXCEPT ![u].locked = TRUE]
          /\ \/ Abort \/ Continue(u, mem)
             \/ proc' = [proc EXCEPT !.mem = mem, !.todo[u] = <<Step("userdel")>> \o Tail(@)]
      BY <1>6, <2>5 DEF Retire
    <3>2. SameUids
      BY <2>5, <3>1, LockChanges DEF Inv, TypeInv
    <3>3. mem \in [Users -> Entries \cup {None}] /\ Retired(u, mem)
      <4>1. mem \in [Users -> Entries \cup {None}]
        BY <2>1, <3>1 DEF TypeInv, TypeOK
      <4>2. mem[u] = new /\ \A v \in Users \ {u} : mem[v] = proc.mem[v]
        BY <2>3
      <4>3. new # None
        <5>1. new \in Entries \cup {None}
          BY <4>1, <4>2
        <5>2. passwd[u] \in Accounts
          BY <2>5 DEF Exists, Inv, TypeInv, TypeOK
        <5>3. Row(u) \in AllRows
          BY <2>2, RowOfStep DEF Inv
        <5>4. new \in Entries
          BY <2>3, <5>2, <5>3 DEF Entries, Accounts, AllRows
        <5>5. QED BY <5>4, NoneAssumption
      <4>4. QED BY <4>1, <4>2, <4>3 DEF Retired
    <3> HIDE DEF mem
    <3>4. \/ proc' = Idle
          \/ Moves(u, Tail(Todo(u)), mem)
          \/ Moves(u, <<Step("userdel")>> \o Tail(Todo(u)), mem)
      <4>1. CASE Abort
        BY <4>1 DEF Abort
      <4>2. CASE Continue(u, mem)
        BY <2>2, <3>3, <4>2, TailMoves DEF Inv
      <4>3. CASE proc' = [proc EXCEPT !.mem = mem, !.todo[u] = <<Step("userdel")>> \o Tail(@)]
        BY <2>3, <3>3, <4>3, InsertMoves DEF Inv, TypeInv, Kinds
      <4>4. QED BY <3>1, <4>1, <4>2, <4>3
    <3>5. QED BY <2>1, <2>2, <2>5, <3>1, <3>2, <3>3, <3>4, RetireStep
  <2>6. QED BY <2>4, <2>5
<1>7. CASE Userdel(u)
  <2>1. TypeInv'
    BY <1>7, UserdelType DEF Inv
  <2>2. At(u, "userdel") /\ UNCHANGED <<doc, byHand>>
    BY <1>7 DEF Userdel
  <2>3. /\ proc # Idle /\ Todo(u) # <<>>
        /\ proc.mem \in [Users -> Entries \cup {None}] /\ proc \in Syncs
    BY <2>2, AtIsFirst, SyncType DEF Inv, TypeInv, HeadIs
  <2>4. CASE Abort /\ file' = proc.mem /\ passwd' = passwd
    BY <2>1, <2>2, <2>3, <2>4, EndStep DEF Abort, SameUids, Exists
  <2>5. CASE /\ Exists(u) /\ Deleted(u) /\ file' = file
             /\ proc' = [proc EXCEPT !.todo[u] = <<Step("tombstone")>> \o Tail(@)]
    <3>1. proc' = [proc EXCEPT !.mem = proc.mem, !.todo[u] = <<Step("tombstone")>> \o Tail(@)]
      BY <2>3, <2>5 DEF Syncs
    <3>2. Moves(u, <<Step("tombstone")>> \o Tail(Todo(u)), proc.mem)
      BY <2>3, <3>1, InsertMoves DEF Inv, TypeInv, Kinds
    <3>3. QED BY <2>1, <2>2, <2>5, <3>2, UserdelStep
  <2>6. QED BY <1>7, <2>4, <2>5 DEF Userdel, hostVars
<1>8. CASE Tombstone(u)
  BY <1>8, TombstoneStep
<1>9. QED BY <1>1, <1>2, <1>3, <1>4, <1>5, <1>6, <1>7, <1>8 DEF SyncStep, Unlock, Lock

-----------------------------------------------------------------------------
(* The theorems.                                                           *)

LEMMA InitIdentity == Init => IdentityInv
  BY DEF Init, IdentityInv, UidsAreDistinct, MemoryFollowsFile, CreatesAreReturns,
         EntryIsOfAccount, Kept, Tombstoned, AskedIsFree, RemovalGoesOn, Exists, Pending, Removing

LEMMA NextIdentity ==
  ASSUME Inv, [Next]_vars
  PROVE  Inv'
<1>1. ASSUME NEW targets \in SUBSET Users, StartSync(targets) PROVE Inv'
  BY <1>1, StartSyncType, StartSyncStep DEF Inv
<1>2. ASSUME NEW u \in Users, SyncStep(u) PROVE Inv'
  BY <1>2, SyncStepIdentity DEF Inv
<1>3. CASE Finish \/ Crash
  <2>1. /\ UNCHANGED <<doc, passwd, byHand>> /\ proc # Idle /\ proc' = Idle
        /\ file' = file \/ file' = proc.mem
    BY <1>3 DEF Finish, Crash, Abort, NothingLeft, hostVars, histVars
  <2>2. SameUids
    BY <2>1 DEF SameUids, Exists
  <2>3. QED BY <1>3, <2>1, <2>2, EndType, EndStep DEF Inv
<1>4. CASE \/ \E u \in Users, row \in Rows : EditRow(u, row)
           \/ \E p \in Projects, how \in {"absent", "defined", "adopted"} : EditGroup(p, how)
  <2>1. TypeInv'
    BY <1>4, EditType DEF Inv
  <2>2. proc = Idle /\ UNCHANGED <<passwd, file, proc, byHand>>
    BY <1>4 DEF EditRow, EditGroup, Edit, hostVars, histVars
  <2>3. QED BY <2>1, <2>2, EditStep DEF Inv
<1>5. ASSUME NEW u \in Users, NEW i \in Ids, UseraddByHand(u, i) PROVE Inv'
  BY <1>5, UseraddByHandType, UseraddByHandStep DEF Inv
<1>6. ASSUME NEW u \in Users, UserdelByHand(u) PROVE Inv'
  BY <1>6, UserdelByHandType, UserdelByHandStep DEF Inv
<1>7. ASSUME NEW u \in Users, NEW p \in Projects, GpasswdByHand(u, p) PROVE Inv'
  <2>1. TypeInv'
    BY <1>7, GpasswdByHandType DEF Inv
  <2>2. /\ UNCHANGED <<doc, passwd, file, byHand>> /\ (proc' = Idle <=> proc = Idle)
        /\ proc # Idle => proc'.mem = proc.mem /\ proc'.todo = proc.todo
    BY <1>7, ByHandType DEF GpasswdByHand, ByHand, Inv
  <2>3. SameUids
    BY <2>2 DEF SameUids, Exists
  <2>4. QED BY <2>1, <2>2, <2>3, SameStep DEF Inv
<1>8. CASE UNCHANGED vars
  <2>1. TypeInv'
    BY <1>8 DEF vars, hostVars, histVars, boundVars, Inv, TypeInv, TypeOK,
               StepsFollowRows, Todo, Row
  <2>2. UNCHANGED <<doc, passwd, file, proc, byHand>>
    BY <1>8 DEF vars, hostVars, histVars
  <2>3. SameUids
    BY <2>2 DEF SameUids, Exists
  <2>4. QED BY <2>1, <2>2, <2>3, SameStep DEF Inv
<1>9. \A targets \in {Users} \cup {{u} : u \in Users} : targets \in SUBSET Users
  OBVIOUS
<1>10. QED BY <1>1, <1>2, <1>3, <1>4, <1>5, <1>6, <1>7, <1>8, <1>9 DEF Next

\* Accounts, groups, users-state.yml and the plan of a running sync keep their
\* types, and what the entries and the accounts say of each other stays true.
THEOREM IdentityInvariant == Spec => []Inv
<1>1. Init => Inv
  BY InitType, InitIdentity DEF Inv
<1>2. Inv /\ [Next]_vars => Inv'
  BY NextIdentity
<1>3. QED BY <1>1, <1>2, PTL DEF Spec

\* Every variable of the model of ssn-sync-users keeps its type, with failing
\* commands, crashes and an administrator at work at the same time.
THEOREM TypeCorrect == Spec => []TypeOK
<1>1. Inv => TypeOK
  BY DEF Inv, TypeInv
<1>2. QED BY <1>1, IdentityInvariant, PTL

\* No account gets or keeps the UID of a retired user (_reserved_tombstone_ids,
\* _validate_local_identity_conflicts), unless it went through an administrator's
\* hands: the ids are checked when the sync begins and used after other users'
\* actions, of which any may fail.
THEOREM TombstonesKeepUids == Spec => []TombstoneKeepsUid
<1>1. Inv => TombstoneKeepsUid
  BY DEF Inv, IdentityInv, Kept, TombstoneKeepsUid
<1>2. QED BY <1>1, IdentityInvariant, PTL

LEMMA NoNewAccount ==
  ASSUME TypeOK, NEW v \in Users, SyncStep(v), ~Create(v), NEW u \in Users, passwd[u] = None
  PROVE  passwd'[u] = None
<1>1. ASSUME NEW kind, NEW locked, SetLock(v, kind, locked) PROVE passwd'[u] = None
  BY <1>1 DEF SetLock, Exists, TypeOK
<1>2. CASE Primary(v)
  BY <1>2 DEF Primary, Exists, TypeOK
<1>3. CASE Join(v) \/ Leave(v) \/ Record(v) \/ Tombstone(v)
  BY <1>3 DEF Join, Leave, Record, Tombstone, hostVars
<1>4. CASE Retire(v)
  <2>1. passwd' = passwd \/ (Exists(v) /\ passwd' = [passwd EXCEPT ![v].locked = TRUE])
    BY <1>4 DEF Retire
  <2>2. QED BY <2>1 DEF Exists, TypeOK
<1>5. CASE Userdel(v)
  <2>1. passwd' = passwd \/ passwd' = [passwd EXCEPT ![v] = None]
    BY <1>5 DEF Userdel, Deleted, hostVars
  <2>2. QED BY <2>1 DEF TypeOK
<1>6. QED BY <1>1, <1>2, <1>3, <1>4, <1>5 DEF SyncStep, Unlock, Lock

LEMMA NewAccount ==
  ASSUME TypeOK, NEW v \in Users, Create(v), NEW u \in Users, passwd[u] = None, passwd'[u] # None
  PROVE  /\ u = v /\ At(u, "create") /\ CreateGid(u) # None
         /\ passwd'[u].uid = CreateUid(u) /\ passwd'[u].gid = CreateGid(u)
<1> DEFINE account == [uid |-> CreateUid(v), gid |-> CreateGid(v), locked |-> FALSE]
<1>1. /\ At(v, "create")
      /\ passwd' = passwd \/ (CreateGid(v) # None /\ passwd' = [passwd EXCEPT ![v] = account])
  BY DEF Create
<1>2. CreateGid(v) # None /\ passwd' = [passwd EXCEPT ![v] = account]
  BY <1>1
<1> HIDE DEF account
<1>3. u = v /\ passwd'[u] = account
  BY <1>2 DEF TypeOK
<1>4. QED BY <1>1, <1>2, <1>3 DEF account

LEMMA ReturningStep ==
  ASSUME Inv, [Next]_vars, NEW u \in Users,
         passwd[u] = None, passwd'[u] # None, proc # Idle, hands' = hands,
         proc.mem[u] # None, proc.mem[u].status = "inactive"
  PROVE  passwd'[u].uid = proc.mem[u].ouid /\ passwd'[u].gid = proc.mem[u].ogid
<1>1. PICK v \in Users : SyncStep(v)
  <2>1. ASSUME NEW v \in Users, UserdelByHand(v) PROVE FALSE
    BY <2>1 DEF UserdelByHand, ByHand, Inv, TypeInv, TypeOK
  <2>2. ASSUME NEW v \in Users, NEW i \in Ids, UseraddByHand(v, i) PROVE FALSE
    BY <2>2 DEF UseraddByHand, ByHand, Inv, TypeInv, TypeOK
  <2>3. passwd' # passwd
    OBVIOUS
  <2>4. ~(\E targets \in {Users} \cup {{w} : w \in Users} : StartSync(targets))
    BY <2>3 DEF StartSync, hostVars
  <2>5. ~Finish /\ ~Crash /\ ~UNCHANGED vars
    BY <2>3 DEF Finish, Crash, vars, hostVars
  <2>6. /\ ~(\E w \in Users, row \in Rows : EditRow(w, row))
        /\ ~(\E p \in Projects, how \in {"absent", "defined", "adopted"} : EditGroup(p, how))
        /\ ~(\E w \in Users, p \in Projects : GpasswdByHand(w, p))
    BY <2>3 DEF EditRow, EditGroup, Edit, GpasswdByHand, hostVars
  <2>7. QED BY <2>1, <2>2, <2>4, <2>5, <2>6 DEF Next
<1>2. /\ At(u, "create") /\ CreateGid(u) # None
      /\ passwd'[u].uid = CreateUid(u) /\ passwd'[u].gid = CreateGid(u)
  BY <1>1, NoNewAccount, NewAccount DEF Inv, TypeInv
<1>3. Row(u).uid = proc.mem[u].ouid /\ Row(u).gid = proc.mem[u].ogid
  <2>1. Pending(u)
    BY <1>2, AtIsFirst DEF Pending, Inv, TypeInv
  <2>2. QED BY <2>1 DEF Inv, IdentityInv, CreatesAreReturns
<1>4. proc.mem[u].ouid # None /\ proc.mem[u].ogid # None
  <2>1. proc.mem[u] \in Entries
    BY SyncType DEF Inv, TypeInv
  <2>2. QED BY <2>1, NoneAssumption DEF Entries
<1>5. CreateUid(u) = Row(u).uid /\ CreateGid(u) = Row(u).gid
  BY <1>2, <1>3, <1>4 DEF CreateUid, CreateGid
<1>6. QED BY <1>2, <1>3, <1>5

-----------------------------------------------------------------------------
(* Primary groups.                                                         *)

\* The primary group of every account is a group.
GidsAreOfGroups == \A u \in Users : Exists(u) => GidOwners(passwd[u].gid) # {}

\* No group loses its GID, and one may get a GID.
GroupsGrow == \A n \in Users \cup Projects : group[n] # None => group'[n] = group[n]

LEMMA GroupsAreFixed ==
  ASSUME TypeOK
  PROVE  DOMAIN group = Users \cup Projects
  BY DEF TypeOK

LEMMA GroupsGrowStep ==
  ASSUME TypeOK, TypeOK', GroupsGrow, GidsAreOfGroups,
         \A u \in Users : Exists(u)' => \/ Exists(u) /\ passwd'[u].gid = passwd[u].gid
                                        \/ (GidOwners(passwd[u].gid) # {})'
  PROVE  GidsAreOfGroups'
<1> SUFFICES ASSUME NEW u \in Users, Exists(u)', Exists(u), passwd'[u].gid = passwd[u].gid
             PROVE  (GidOwners(passwd[u].gid) # {})'
  BY DEF GidsAreOfGroups
<1>1. passwd[u].gid \in Ids /\ passwd[u].gid # None
  BY NoneAssumption DEF TypeOK, Exists, Accounts
<1>2. PICK n \in Users \cup Projects : group[n] = passwd[u].gid
  BY GroupsAreFixed DEF GidsAreOfGroups, GidOwners
<1>3. group'[n] = passwd'[u].gid
  BY <1>1, <1>2 DEF GroupsGrow
<1>4. DOMAIN group' = Users \cup Projects
  BY DEF TypeOK
<1>5. QED BY <1>3, <1>4 DEF GidOwners

LEMMA CreateGroups ==
  ASSUME Inv, GidsAreOfGroups, NEW u \in Users, Create(u)
  PROVE  GidsAreOfGroups'
<1> DEFINE gid == CreateGid(u)
           account == [uid |-> CreateUid(u), gid |-> gid, locked |-> FALSE]
<1>1. TypeOK /\ TypeOK' /\ At(u, "create") /\ gid \in Ids \cup {None}
  BY CreateType, CreateIds DEF Inv, TypeInv, Create
<1>2. group \in [Users \cup Projects -> Ids \cup {None}] /\ passwd \in [Users -> Accounts \cup {None}]
  BY <1>1 DEF TypeOK
<1>3. /\ passwd' = passwd \/ passwd' = [passwd EXCEPT ![u] = account]
      /\ group' = group \/ (gid # None /\ GidOwners(gid) = {} /\ group' = [group EXCEPT ![u] = gid])
      /\ passwd' # passwd => gid # None /\ (group' = [group EXCEPT ![u] = gid] \/ GidOwners(gid) # {})
      /\ gid # None /\ GidOwners(gid) # {} => group' = group
  BY DEF Create
<1>4. gid # None /\ GidOwners(gid) = {} => group[u] = None
  <2>1. ASSUME gid # None, GidOwners(gid) = {}, group[u] # None PROVE FALSE
    <3>1. CASE Row(u).gid # None
      BY <2>1, <3>1 DEF CreateGid
    <3>2. CASE Row(u).gid = None
      <4>1. gid = group[u]
        BY <2>1, <3>2 DEF CreateGid
      <4>2. u \in GidOwners(gid)
        BY <1>2, <4>1 DEF GidOwners
      <4>3. QED BY <2>1, <4>2
    <3>3. QED BY <3>1, <3>2
  <2>2. QED BY <2>1
<1> HIDE DEF gid
<1>5. GroupsGrow
  BY <1>2, <1>3, <1>4 DEF GroupsGrow
<1>6. ASSUME NEW v \in Users, Exists(v)'
      PROVE  \/ Exists(v) /\ passwd'[v].gid = passwd[v].gid
             \/ (GidOwners(passwd[v].gid) # {})'
  <2>1. CASE passwd' = passwd \/ v # u
    BY <1>2, <1>3, <1>6, <2>1 DEF Exists
  <2>2. CASE passwd' # passwd /\ v = u
    <3>1. passwd'[u].gid = gid
      BY <1>2, <1>3, <2>2
    <3>2. CASE group' = [group EXCEPT ![u] = gid]
      <4>1. u \in DOMAIN group' /\ group'[u] = gid
        BY <1>2, <3>2
      <4>2. QED BY <2>2, <3>1, <4>1 DEF GidOwners
    <3>3. CASE GidOwners(gid) # {}
      <4>1. group' = group
        BY <1>3, <2>2, <3>3
      <4>2. QED BY <2>2, <3>1, <3>3, <4>1 DEF GidOwners
    <3>4. QED BY <1>3, <2>2, <3>2, <3>3
  <2>3. QED BY <2>1, <2>2
<1>7. QED BY <1>1, <1>5, <1>6, GroupsGrowStep

LEMMA PrimaryGroups ==
  ASSUME Inv, GidsAreOfGroups, NEW u \in Users, Primary(u)
  PROVE  /\ GidsAreOfGroups'
         /\ \A v \in Users : Exists(v) =>
              /\ passwd'[v].uid = passwd[v].uid
              /\ passwd'[v].gid # passwd[v].gid => v = u /\ group[u] # passwd[u].gid
<1> DEFINE gid == IF group[u] = None THEN GroupaddGid ELSE group[u]
<1>1. TypeOK /\ TypeOK'
  BY PrimaryType DEF Inv, TypeInv
<1>2. group \in [Users \cup Projects -> Ids \cup {None}] /\ passwd \in [Users -> Accounts \cup {None}]
  BY <1>1 DEF TypeOK
<1>3. \/ group' = group /\ passwd' = passwd
      \/ /\ Exists(u) /\ gid # None /\ group' = [group EXCEPT ![u] = gid]
         /\ passwd' = passwd \/ passwd' = [passwd EXCEPT ![u].gid = gid]
  BY DEF Primary
<1>4. group[u] # None => gid = group[u]
  OBVIOUS
<1> HIDE DEF gid
<1>5. GroupsGrow
  BY <1>2, <1>3, <1>4 DEF GroupsGrow
<1>6. \A v \in Users : v # u => passwd'[v] = passwd[v]
  BY <1>2, <1>3
<1>7. \/ passwd'[u] = passwd[u]
      \/ /\ Exists(u) /\ passwd'[u] = [passwd[u] EXCEPT !.gid = gid]
         /\ group' = [group EXCEPT ![u] = gid]
  BY <1>2, <1>3
<1>8. Exists(u) => \/ passwd'[u] = passwd[u]
                   \/ /\ passwd'[u].uid = passwd[u].uid /\ passwd'[u].gid = gid
                      /\ group' = [group EXCEPT ![u] = gid] /\ Exists(u)
  BY <1>2, <1>7 DEF Exists, Accounts
<1>9. Exists(u) <=> Exists(u)'
  <2>1. passwd'[u] \in Accounts \cup {None}
    BY <1>1 DEF TypeOK
  <2>2. ASSUME Exists(u), passwd'[u] = None PROVE FALSE
    <3>1. passwd'[u] = [passwd[u] EXCEPT !.gid = gid] /\ gid # None /\ gid \in Ids
      <4>1. passwd'[u] # passwd[u]
        BY <2>2 DEF Exists
      <4>2. passwd' # passwd /\ gid # None
        BY <1>3, <4>1
      <4>3. group' = [group EXCEPT ![u] = gid]
        BY <1>3, <4>2
      <4>4. group'[u] = gid /\ group'[u] \in Ids \cup {None}
        BY <1>1, <1>2, <4>3 DEF TypeOK
      <4>5. QED BY <1>7, <4>1, <4>2, <4>4
    <3>2. passwd'[u] \in Accounts
      BY <1>2, <2>2, <3>1 DEF Exists, Accounts
    <3>3. QED BY <2>2, <3>2, NoneAssumption
  <2>3. passwd[u] = None => passwd'[u] = None
    BY <1>7 DEF Exists
  <2>4. QED BY <2>2, <2>3 DEF Exists
<1>10. GidsAreOfGroups'
  <2>1. ASSUME NEW v \in Users, Exists(v)'
        PROVE  \/ Exists(v) /\ passwd'[v].gid = passwd[v].gid
               \/ (GidOwners(passwd[v].gid) # {})'
    <3>1. CASE v # u
      BY <1>6, <2>1, <3>1 DEF Exists
    <3>2. CASE v = u /\ passwd'[u].gid = gid /\ group' = [group EXCEPT ![u] = gid]
      <4>1. u \in DOMAIN group' /\ group'[u] = gid
        BY <1>2, <3>2
      <4>2. QED BY <3>2, <4>1 DEF GidOwners
    <3>3. QED BY <1>8, <1>9, <2>1, <3>1, <3>2
  <2>2. QED BY <1>1, <1>5, <2>1, GroupsGrowStep
<1>11. ASSUME NEW v \in Users, Exists(v)
       PROVE  /\ passwd'[v].uid = passwd[v].uid
              /\ passwd'[v].gid # passwd[v].gid => v = u /\ group[u] # passwd[u].gid
  <2>1. group[u] # None => gid = group[u]
    BY <1>4
  <2>2. passwd[v].gid \in Ids /\ passwd[v].gid # None
    BY <1>2, <1>11, NoneAssumption DEF Exists, Accounts
  <2>3. QED BY <1>6, <1>8, <1>11, <2>1, <2>2
<1>12. QED BY <1>10, <1>11

\* A step that changes neither ids nor GIDs of groups, except for new groups.
SameIds == \A v \in Users : Exists(v)' => /\ Exists(v) /\ passwd'[v].uid = passwd[v].uid
                                          /\ passwd'[v].gid = passwd[v].gid

LEMMA SameIdsStep ==
  ASSUME TypeOK, TypeOK', GidsAreOfGroups, GroupsGrow, SameIds
  PROVE  GidsAreOfGroups'
  BY GroupsGrowStep DEF SameIds

LEMMA LockKeepsIds ==
  ASSUME TypeOK, NEW u \in Users, NEW locked \in BOOLEAN, Exists(u),
         passwd' = [passwd EXCEPT ![u].locked = locked]
  PROVE  SameIds
<1>1. passwd[u] \in Accounts
  BY DEF TypeOK, Exists
<1>2. passwd'[u] = [passwd[u] EXCEPT !.locked = locked]
      /\ \A v \in Users \ {u} : passwd'[v] = passwd[v]
  BY DEF TypeOK
<1>3. passwd'[u].uid = passwd[u].uid /\ passwd'[u].gid = passwd[u].gid
  BY <1>1, <1>2 DEF Accounts
<1>4. QED BY <1>2, <1>3 DEF SameIds, Exists

LEMMA DeletedGroups ==
  ASSUME TypeOK, TypeOK', GidsAreOfGroups, NEW u \in Users, Exists(u), Deleted(u)
  PROVE  GidsAreOfGroups' /\ SameIds
<1>1. group \in [Users \cup Projects -> Ids \cup {None}] /\ passwd \in [Users -> Accounts \cup {None}]
  BY DEF TypeOK
<1>2. passwd'[u] = None /\ \A v \in Users \ {u} : passwd'[v] = passwd[v]
  BY <1>1 DEF Deleted
<1>3. SameIds
  BY <1>2 DEF SameIds, Exists
<1>4. ASSUME NEW v \in Users, Exists(v)' PROVE (GidOwners(passwd[v].gid) # {})'
  <2>1. v # u /\ Exists(v) /\ passwd'[v] = passwd[v]
    BY <1>2, <1>4 DEF Exists
  <2>2. PICK n \in Users \cup Projects : group[n] = passwd[v].gid
    BY <2>1, GroupsAreFixed DEF GidsAreOfGroups, GidOwners
  <2>3. group'[n] = group[n]
    <3>1. CASE group' = group
      BY <3>1
    <3>2. CASE group' = [group EXCEPT ![u] = None]
             /\ ~(\E w \in Users \ {u} : Exists(w) /\ passwd[w].gid = group[u])
      BY <1>1, <2>1, <2>2, <3>2
    <3>3. QED BY <3>1, <3>2 DEF Deleted
  <2>4. DOMAIN group' = Users \cup Projects
    BY DEF TypeOK
  <2>5. QED BY <2>1, <2>2, <2>3, <2>4 DEF GidOwners
<1>5. QED BY <1>3, <1>4 DEF GidsAreOfGroups

\* Every other action of a sync leaves the ids of the accounts alone.
LEMMA OtherSyncStep ==
  ASSUME Inv, GidsAreOfGroups, NEW u \in Users, SyncStep(u), ~Create(u), ~Primary(u)
  PROVE  GidsAreOfGroups' /\ SameIds
<1>1. TypeOK /\ TypeOK'
  BY SyncStepIdentity DEF Inv, TypeInv
<1>2. group \in [Users \cup Projects -> Ids \cup {None}] /\ passwd \in [Users -> Accounts \cup {None}]
  BY <1>1 DEF TypeOK
<1>3. CASE group' = group /\ passwd' = passwd
  BY <1>1, <1>3, SameIdsStep DEF SameIds, GroupsGrow, Exists
<1>4. ASSUME Exists(u), group' = group, NEW locked \in BOOLEAN,
             passwd' = [passwd EXCEPT ![u].locked = locked]
      PROVE  GidsAreOfGroups' /\ SameIds
  BY <1>1, <1>4, LockKeepsIds, SameIdsStep DEF GroupsGrow
<1>5. CASE Unlock(u) \/ Lock(u)
  <2>1. PICK locked \in BOOLEAN : \E kind \in Kinds : SetLock(u, kind, locked)
    BY <1>5 DEF Unlock, Lock, Kinds
  <2>2. \/ passwd' = passwd
        \/ Exists(u) /\ passwd' = [passwd EXCEPT ![u].locked = locked]
    BY <2>1 DEF SetLock
  <2>3. group' = group
    BY <2>1 DEF SetLock
  <2>4. QED BY <1>3, <1>4, <2>2, <2>3
<1>6. CASE Join(u)
  <2>1. /\ passwd' = passwd
        /\ \/ group' = group
           \/ \E p \in Projects, gid \in Ids :
                group' = [group EXCEPT ![p] = gid] /\ (group[p] # None => gid = group[p])
    <3> DEFINE p == Head(proc.todo[u]).group
               gid == IF group[p] = None THEN GroupaddGid ELSE group[p]
    <3>1. passwd' = passwd /\ (group' = group \/ (gid # None /\ group' = [group EXCEPT ![p] = gid]))
      BY <1>6 DEF Join
    <3>2. p \in Projects
      <4>1. proc # Idle /\ HeadIs(u, "join") /\ Todo(u) \in Seq(Steps) /\ Head(Todo(u)) = Todo(u)[1]
            /\ 1 \in 1..Len(Todo(u))
        BY <1>1, <1>6, AtIsFirst DEF Join
      <4>2. Todo(u)[1] \in Steps /\ Todo(u)[1].kind = "join"
        BY <4>1 DEF HeadIs
      <4>3. QED BY <4>1, <4>2 DEF Steps, Todo
    <3>3. gid # None => gid \in Ids
      <4>1. group[p] \in Ids \cup {None}
        BY <1>2, <3>2
      <4>2. GroupaddGid \in Ids \cup {None}
        BY <1>1, GroupaddPicksId
      <4>3. QED BY <4>1, <4>2
    <3> HIDE DEF p
    <3>4. QED BY <3>1, <3>2, <3>3
  <2>2. GroupsGrow
    BY <1>2, <2>1 DEF GroupsGrow
  <2>3. SameIds
    BY <2>1 DEF SameIds, Exists
  <2>4. QED BY <1>1, <2>2, <2>3, SameIdsStep
<1>7. CASE Leave(u) \/ Record(u) \/ Tombstone(u)
  BY <1>3, <1>7 DEF Leave, Record, Tombstone, hostVars
<1>8. CASE Retire(u)
  <2>1. /\ group' = group
        /\ passwd' = passwd \/ (Exists(u) /\ passwd' = [passwd EXCEPT ![u].locked = TRUE])
    BY <1>8 DEF Retire
  <2>2. QED BY <1>3, <1>4, <2>1
<1>9. CASE Userdel(u)
  <2>1. (group' = group /\ passwd' = passwd) \/ (Exists(u) /\ Deleted(u))
    BY <1>9 DEF Userdel, hostVars
  <2>2. QED BY <1>1, <1>3, <2>1, DeletedGroups
<1>10. QED BY <1>5, <1>6, <1>7, <1>8, <1>9 DEF SyncStep

LEMMA UseraddGroups ==
  ASSUME TypeOK, TypeOK', GidsAreOfGroups, NEW u \in Users, NEW i \in Ids, UseraddByHand(u, i)
  PROVE  GidsAreOfGroups'
<1>1. group \in [Users \cup Projects -> Ids \cup {None}] /\ passwd \in [Users -> Accounts \cup {None}]
  BY DEF TypeOK
<1>2. /\ group[u] = None /\ group' = [group EXCEPT ![u] = i]
      /\ passwd' = [passwd EXCEPT ![u] = [uid |-> i, gid |-> i, locked |-> FALSE]]
  BY DEF UseraddByHand
<1>3. GroupsGrow
  BY <1>1, <1>2 DEF GroupsGrow
<1>4. ASSUME NEW v \in Users, Exists(v)'
      PROVE  \/ Exists(v) /\ passwd'[v].gid = passwd[v].gid
             \/ (GidOwners(passwd[v].gid) # {})'
  <2>1. CASE v = u
    <3>1. passwd'[v].gid = i /\ v \in DOMAIN group' /\ group'[v] = i
      BY <1>1, <1>2, <2>1
    <3>2. QED BY <3>1 DEF GidOwners
  <2>2. CASE v # u
    BY <1>1, <1>2, <1>4, <2>2 DEF Exists
  <2>3. QED BY <2>1, <2>2
<1>5. QED BY <1>3, <1>4, GroupsGrowStep

LEMMA NextGroups ==
  ASSUME Inv, GidsAreOfGroups, [Next]_vars
  PROVE  GidsAreOfGroups'
<1>1. TypeOK /\ TypeOK'
  BY NextIdentity DEF Inv, TypeInv
<1>2. CASE group' = group /\ passwd' = passwd
  BY <1>1, <1>2, SameIdsStep DEF SameIds, GroupsGrow, Exists
<1>3. ASSUME NEW u \in Users, SyncStep(u) PROVE GidsAreOfGroups'
  BY <1>3, CreateGroups, PrimaryGroups, OtherSyncStep
<1>4. ASSUME NEW u \in Users, NEW i \in Ids, UseraddByHand(u, i) PROVE GidsAreOfGroups'
  BY <1>1, <1>4, UseraddGroups
<1>5. ASSUME NEW u \in Users, UserdelByHand(u) PROVE GidsAreOfGroups'
  BY <1>1, <1>5, DeletedGroups DEF UserdelByHand
<1>6. CASE ~(\E u \in Users : SyncStep(u)) /\ ~(\E u \in Users : UserdelByHand(u))
           /\ ~(\E u \in Users, i \in Ids : UseraddByHand(u, i))
  <2>1. group' = group /\ passwd' = passwd
    BY <1>6 DEF Next, StartSync, Finish, Crash, EditRow, EditGroup, Edit, GpasswdByHand,
                hostVars, vars
  <2>2. QED BY <1>2, <2>1
<1>7. QED BY <1>3, <1>4, <1>5, <1>6

LEMMA AccountIsKept ==
  ASSUME Inv, GidsAreOfGroups, [Next]_vars, NEW u \in Users
  PROVE  AccountStaysHis(u)
<1> SUFFICES ASSUME passwd[u] # None, passwd'[u] # None, hands' = hands
             PROVE  /\ passwd'[u].uid = passwd[u].uid
                    /\ passwd'[u].gid # passwd[u].gid => GidOwners(passwd[u].gid) \ {u} # {}
  BY DEF AccountStaysHis
<1>1. Exists(u) /\ Exists(u)'
  BY DEF Exists
<1>2. CASE passwd'[u] = passwd[u]
  BY <1>2
<1>3. ASSUME NEW v \in Users, Create(v), passwd'[u] # passwd[u] PROVE FALSE
  <2>1. /\ passwd' # passwd
        /\ passwd' = passwd \/ (~Exists(v) /\ \E account : passwd' = [passwd EXCEPT ![v] = account])
    BY <1>3 DEF Create
  <2>2. u = v
    BY <1>3, <2>1 DEF Inv, TypeInv, TypeOK
  <2>3. QED BY <1>1, <2>1, <2>2
<1>4. ASSUME NEW v \in Users, Primary(v)
      PROVE  /\ passwd'[u].uid = passwd[u].uid
             /\ passwd'[u].gid # passwd[u].gid => GidOwners(passwd[u].gid) \ {u} # {}
  <2>1. passwd'[u].uid = passwd[u].uid
        /\ (passwd'[u].gid # passwd[u].gid => group[u] # passwd[u].gid)
    BY <1>1, <1>4, PrimaryGroups
  <2>2. ASSUME group[u] # passwd[u].gid PROVE GidOwners(passwd[u].gid) \ {u} # {}
    BY <1>1, <2>2 DEF GidsAreOfGroups, GidOwners
  <2>3. QED BY <2>1, <2>2
<1>5. ASSUME NEW v \in Users, SyncStep(v), ~Create(v), ~Primary(v)
      PROVE  passwd'[u].uid = passwd[u].uid /\ passwd'[u].gid = passwd[u].gid
  BY <1>1, <1>5, OtherSyncStep DEF SameIds
<1>6. CASE ~(\E v \in Users : SyncStep(v))
  <2>1. ASSUME NEW v \in Users, UserdelByHand(v) PROVE FALSE
    BY <2>1 DEF UserdelByHand, ByHand, Inv, TypeInv, TypeOK
  <2>2. ASSUME NEW v \in Users, NEW i \in Ids, UseraddByHand(v, i) PROVE FALSE
    BY <2>2 DEF UseraddByHand, ByHand, Inv, TypeInv, TypeOK
  <2>3. passwd' = passwd
    BY <1>6, <2>1, <2>2 DEF Next, StartSync, Finish, Crash, EditRow, EditGroup, Edit,
                            GpasswdByHand, hostVars, vars
  <2>4. QED BY <1>2, <2>3
<1>7. QED BY <1>2, <1>3, <1>4, <1>5, <1>6

-----------------------------------------------------------------------------
(* What users-state.yml says of a tombstone.                               *)

\* An entry that stands in for u's tombstone, in a state where u has that account.
StandsFor(entry, u, account) ==
    /\ entry # None /\ entry.ouid = file[u].ouid /\ entry.ogid = file[u].ogid
    /\ file[u].ouid \notin byHand /\ entry.gone # "tombstoned" =>
         account # None /\ account.uid = file[u].ouid

\* What a sync remembers of a retired user it has not touched, or has brought back.
LEMMA MemoryStandsFor ==
  ASSUME Inv, proc # Idle, NEW u \in Tombstoned(file)
  PROVE  StandsFor(proc.mem[u], u, passwd[u])
<1>1. u \in Users /\ file[u] # None /\ file[u].gone = "tombstoned"
  BY DEF Tombstoned
<1>2. CASE proc.mem[u] = file[u]
  BY <1>1, <1>2 DEF StandsFor
<1>3. CASE proc.mem[u] # file[u]
  <2>1. /\ proc.mem[u] # None /\ proc.mem[u].status # "inactive"
        /\ proc.mem[u].ouid = file[u].ouid /\ proc.mem[u].ogid = file[u].ogid
    BY <1>1, <1>3 DEF Inv, IdentityInv, MemoryFollowsFile
  <2>2. file[u].ouid \notin byHand => Exists(u) /\ passwd[u].uid = file[u].ouid
    BY <1>1, <2>1 DEF Inv, IdentityInv, EntryIsOfAccount
  <2>3. QED BY <2>1, <2>2 DEF StandsFor, Exists
<1>4. QED BY <1>2, <1>3

\* The lifecycle of a retired user who has his account again begins anew.
LEMMA RetireStandsFor ==
  ASSUME Inv, NEW v \in Users, Retire(v), NEW u \in Tombstoned(file)
  PROVE  StandsFor(file'[u], u, passwd'[u])
<1> DEFINE old == proc.mem[v]
           new == [status |-> "inactive", gone |-> "leaving",
                   uid |-> passwd[v].uid, gid |-> passwd[v].gid,
                   ouid |-> IF old = None THEN passwd[v].uid ELSE old.ouid,
                   ogid |-> IF old = None THEN passwd[v].gid ELSE old.ogid,
                   groups |-> Row(v).groups]
<1>1. u \in Users /\ file[u] # None /\ file[u].gone = "tombstoned"
  BY DEF Tombstoned
<1>2. proc # Idle /\ TypeOK /\ Row(v) \in AllRows
  BY AtIsFirst, RowOfStep DEF Retire, Inv, TypeInv
<1>3. StandsFor(proc.mem[u], u, passwd[u])
  BY <1>2, MemoryStandsFor
<1>4. CASE file' = file
  BY <1>1, <1>4 DEF StandsFor
<1>5. CASE Exists(v) /\ file' = [proc.mem EXCEPT ![v] = new]
             /\ passwd' = [passwd EXCEPT ![v].locked = TRUE]
  <2>1. proc.mem \in [Users -> Entries \cup {None}] /\ passwd \in [Users -> Accounts \cup {None}]
    BY <1>2, SyncType DEF TypeOK
  <2>2. CASE u # v
    BY <1>1, <1>3, <1>5, <2>1, <2>2 DEF StandsFor
  <2>3. CASE u = v
    <3>1. passwd[u] \in Accounts /\ passwd'[u] = [passwd[u] EXCEPT !.locked = TRUE]
      BY <1>1, <1>5, <2>1, <2>3 DEF Exists
    <3>2. passwd'[u] \in Accounts /\ passwd'[u].uid = passwd[u].uid
      BY <3>1 DEF Accounts
    <3>3. file'[u] = new
      BY <1>1, <1>5, <2>1, <2>3
    <3>4. old # None /\ old.ouid = file[u].ouid /\ old.ogid = file[u].ogid
      BY <1>3, <2>3 DEF StandsFor
    <3>5. new.ouid = file[u].ouid /\ new.ogid = file[u].ogid
      BY <3>4
    <3>6. new # None
      <4>1. passwd[v].uid \in Ids /\ passwd[v].gid \in Ids
        BY <2>3, <3>1 DEF Accounts
      <4>2. old \in Entries
        BY <2>1, <3>4
      <4>3. Row(v).groups \in SUBSET Projects
        BY <1>2 DEF AllRows
      <4>4. new \in Entries
        BY <3>4, <4>1, <4>2, <4>3 DEF Entries
      <4>5. QED BY <4>4, NoneAssumption
    <3>7. file[u].ouid \notin byHand => passwd[u].uid = file[u].ouid
      BY <1>1, <1>5, <2>3 DEF Inv, IdentityInv, EntryIsOfAccount
    <3>8. QED BY <3>2, <3>3, <3>5, <3>6, <3>7, NoneAssumption DEF StandsFor
  <2>4. QED BY <2>2, <2>3
<1>6. file' = file \/ (Exists(v) /\ file' = [proc.mem EXCEPT ![v] = new]
                         /\ passwd' = [passwd EXCEPT ![v].locked = TRUE])
  BY DEF Retire
<1>7. QED BY <1>4, <1>5, <1>6

LEMMA TombstoneStandsFor ==
  ASSUME Inv, NEW v \in Users, Tombstone(v), NEW u \in Tombstoned(file)
  PROVE  StandsFor(file'[u], u, passwd'[u])
<1> DEFINE mem == [proc.mem EXCEPT ![v].gone = "tombstoned"]
<1>1. u \in Users /\ file[u] # None /\ file[u].gone = "tombstoned"
  BY DEF Tombstoned
<1>2. proc # Idle /\ TypeOK /\ file' = mem /\ passwd' = passwd
  BY AtIsFirst DEF Tombstone, Inv, TypeInv, hostVars
<1>3. StandsFor(proc.mem[u], u, passwd[u])
  BY <1>2, MemoryStandsFor
<1>4. proc.mem \in [Users -> Entries \cup {None}]
  BY <1>2, SyncType
<1>5. CASE u # v
  BY <1>1, <1>2, <1>3, <1>4, <1>5
<1>6. CASE u = v
  <2>1. proc.mem[u] \in Entries
    BY <1>1, <1>3, <1>4 DEF StandsFor
  <2>2. mem[u] = [proc.mem[u] EXCEPT !.gone = "tombstoned"]
    BY <1>1, <1>4, <1>6
  <2>3. /\ mem[u] \in Entries /\ mem[u].gone = "tombstoned"
        /\ mem[u].ouid = proc.mem[u].ouid /\ mem[u].ogid = proc.mem[u].ogid
    BY <2>1, <2>2 DEF Entries
  <2>4. QED BY <1>2, <1>3, <2>3, NoneAssumption DEF StandsFor
<1>7. QED BY <1>5, <1>6

LEMMA TombstoneIsKept ==
  ASSUME Inv, [Next]_vars, NEW u \in Tombstoned(file)
  PROVE  StandsFor(file'[u], u, passwd'[u])
<1>1. CASE file' = file
  BY <1>1 DEF StandsFor, Tombstoned
<1>2. CASE proc # Idle /\ file' = proc.mem /\ passwd' = passwd
  BY <1>2, MemoryStandsFor
<1>3. CASE \E v \in Users : SyncStep(v)
  <2>1. PICK v \in Users : SyncStep(v)
    BY <1>3
  <2>2. CASE Create(v) \/ Unlock(v) \/ Lock(v) \/ Primary(v) \/ Join(v) \/ Leave(v) \/ Record(v)
    <3>1. file' = file
      BY <2>2 DEF Create, Unlock, Lock, SetLock, Primary, Join, Leave, Record
    <3>2. QED BY <1>1, <3>1
  <2>3. CASE Userdel(v)
    <3>1. proc # Idle
      BY <2>3, AtIsFirst DEF Userdel, Inv, TypeInv
    <3>2. file' = file \/ (file' = proc.mem /\ passwd' = passwd)
      BY <2>3 DEF Userdel, hostVars
    <3>3. QED BY <1>1, <1>2, <3>1, <3>2
  <2>4. QED BY <2>1, <2>2, <2>3, RetireStandsFor, TombstoneStandsFor DEF SyncStep
<1>4. CASE Finish
  BY <1>2, <1>4 DEF Finish, NothingLeft, hostVars
<1>5. CASE ~Finish /\ ~(\E v \in Users : SyncStep(v))
  <2>1. file' = file
    BY <1>5 DEF Next, StartSync, Crash, EditRow, EditGroup, Edit, UseraddByHand, UserdelByHand,
                GpasswdByHand, ByHand, vars
  <2>2. QED BY <1>1, <2>1
<1>6. QED BY <1>3, <1>4, <1>5

\* A user whose retirement is undone is given the UID and GID of his entry when his
\* account is made (_reactivation_identity_error, _create_unix_user).  He keeps the
\* UID, and the GID too unless a group of another name has taken it, from which
\* _ensure_private_primary_group moves him away; and users-state.yml keeps both ids
\* and his tombstone until he is back (_update_state_for_user, _persist_state).
THEOREM UsersReturnAsThemselves == Spec => ReturnsAsHimself
<1>1. ASSUME Inv, GidsAreOfGroups, [Next]_vars, NEW u \in Users
      PROVE  AccountIsHis(u) /\ AccountStaysHis(u) /\ TombstoneStays(u)
  <2>1. AccountIsHis(u)
    BY <1>1, ReturningStep DEF AccountIsHis
  <2>2. AccountStaysHis(u)
    BY <1>1, AccountIsKept
  <2>3. TombstoneStays(u)
    BY <1>1, TombstoneIsKept DEF TombstoneStays, StandsFor
  <2>4. QED BY <2>1, <2>2, <2>3
<1>2. Inv /\ GidsAreOfGroups /\ [Next]_vars
        => [\A u \in Users : AccountIsHis(u) /\ AccountStaysHis(u) /\ TombstoneStays(u)]_vars
  BY <1>1
<1>3. Init => GidsAreOfGroups
  BY DEF Init, GidsAreOfGroups, Exists
<1>4. Inv /\ GidsAreOfGroups /\ [Next]_vars => GidsAreOfGroups'
  BY NextGroups
<1>5. QED BY <1>2, <1>3, <1>4, IdentityInvariant, PTL DEF Spec, ReturnsAsHimself

-----------------------------------------------------------------------------
(***************************************************************************)
(* A sync that nothing has disturbed: what an active user does not have    *)
(* yet is still to come in his plan, and nothing else is.                  *)
(***************************************************************************)
Has(steps, step) == \E i \in 1..Len(steps) : steps[i] = step
Left(u, step) == Has(Todo(u), step)

ActiveKinds == {"create", "unlock", "primary", "join", "leave", "record"}
Recording == ActiveKinds \ {"join"}

AccountLeft(u) ==
    /\ ~Exists(u) => HeadIs(u, "create")
    /\ Exists(u) /\ passwd[u].locked => Left(u, Step("unlock"))
    /\ ~PrivateGroupMatches(u) => Left(u, Step("primary"))

GroupLeft(u, p) ==
    /\ Left(u, JoinStep(p)) => p \in Row(u).groups
    /\ p \in Row(u).groups => u \in members[p] \/ Left(u, JoinStep(p))
    /\ u \in members[p] /\ doc.group[p] # "absent"
         => p \in Row(u).groups \/ Left(u, Step("leave"))

EntryIsRight(u) ==
    /\ Exists(u) /\ proc.mem[u] # None
    /\ proc.mem[u].status = "active" /\ proc.mem[u].groups = Row(u).groups
    /\ proc.mem[u].uid = passwd[u].uid /\ proc.mem[u].gid = passwd[u].gid

EntryLeft(u) == EntryIsRight(u) \/ \E kind \in Recording : Left(u, Step(kind))

OnCourse(u) ==
    /\ \A i \in 1..Len(Todo(u)) : Todo(u)[i].kind \in ActiveKinds
    /\ AccountLeft(u) /\ (\A p \in Projects : GroupLeft(u, p)) /\ EntryLeft(u)

WorkLeft == proc # Idle /\ ~proc.hurt => \A u \in ActiveTargets : OnCourse(u)

ActiveAreHere(state) ==
    \A u \in Users : state[u] # None /\ state[u].status = "active" => state[u].gone = "none"

ReconcileInv == ActiveAreHere(file) /\ (proc # Idle => ActiveAreHere(proc.mem)) /\ WorkLeft

LEMMA ConcatHas ==
  ASSUME NEW S, NEW s \in Seq(S), NEW t \in Seq(S)
  PROVE  /\ s \o t \in Seq(S)
         /\ \A x : Has(s \o t, x) <=> Has(s, x) \/ Has(t, x)
         /\ s # <<>> => s \o t # <<>> /\ (s \o t)[1] = s[1]
<1> DEFINE both == s \o t
<1>1. /\ both \in Seq(S) /\ Len(both) = Len(s) + Len(t)
      /\ \A i \in 1..Len(both) : both[i] = IF i <= Len(s) THEN s[i] ELSE t[i - Len(s)]
  OBVIOUS
<1>2. Len(s) \in Nat /\ Len(t) \in Nat
  OBVIOUS
<1> HIDE DEF both
<1>3. ASSUME NEW x, NEW i \in 1..Len(both), both[i] = x PROVE Has(s, x) \/ Has(t, x)
  <2>1. CASE i <= Len(s)
    BY <1>1, <1>2, <1>3, <2>1 DEF Has
  <2>2. CASE ~(i <= Len(s))
    <3>1. i - Len(s) \in 1..Len(t) /\ t[i - Len(s)] = x
      BY <1>1, <1>2, <1>3, <2>2
    <3>2. QED BY <3>1 DEF Has
  <2>3. QED BY <2>1, <2>2
<1>4. ASSUME NEW x, NEW i \in 1..Len(s), s[i] = x PROVE Has(both, x)
  <2>1. i \in 1..Len(both) /\ both[i] = x
    BY <1>1, <1>2, <1>4
  <2>2. QED BY <2>1 DEF Has
<1>5. ASSUME NEW x, NEW i \in 1..Len(t), t[i] = x PROVE Has(both, x)
  <2> DEFINE j == i + Len(s)
  <2>1. j \in 1..Len(both) /\ ~(j <= Len(s)) /\ j - Len(s) = i
    BY <1>1, <1>2
  <2>2. both[j] = x
    BY <1>1, <1>5, <2>1
  <2> HIDE DEF j
  <2>3. QED BY <2>1, <2>2 DEF Has
<1>6. s # <<>> => both # <<>> /\ both[1] = s[1]
  <2>1. s # <<>> => 1 \in 1..Len(both) /\ 1 <= Len(s)
    BY <1>1, <1>2
  <2>2. QED BY <1>1, <2>1
<1>7. QED BY <1>1, <1>3, <1>4, <1>5, <1>6 DEF both, Has

LEMMA WhenHas ==
  ASSUME NEW condition \in BOOLEAN, NEW kind \in Kinds \ {"join"}
  PROVE  /\ When(condition, Step(kind)) \in Seq(Steps)
         /\ \A x : Has(When(condition, Step(kind)), x) <=> condition /\ x = Step(kind)
<1>1. Step(kind) \in Steps
  BY DEF Step, Steps
<1>2. CASE condition
  BY <1>1, <1>2 DEF When, Has
<1>3. CASE ~condition
  BY <1>3 DEF When, Has
<1>4. QED BY <1>2, <1>3

\* usermod -aG is planned for each group of the entry.
LEMMA GroupStepsHave ==
  ASSUME NEW u \in Users, doc.row[u].groups \in SUBSET Projects
  PROVE  \A x : Has(GroupSteps(u), x)
                  <=> x = Step("leave") \/ \E p \in doc.row[u].groups : x = JoinStep(p)
<1> DEFINE gs == doc.row[u].groups
           n == Cardinality(gs)
           asked == SetToSeq(gs)
           joins == [i \in DOMAIN asked |-> JoinStep(asked[i])]
<1>1. IsFiniteSet(gs)
  BY NamesAssumption, FS_Subset
<1>2. n \in Nat /\ ExistsBijection(1..n, gs)
  BY <1>1, FS_CardinalityType
<1>3. asked \in Injection(1..n, gs)
  BY <1>2 DEF ExistsBijection, Bijection, Injection, SetToSeq
<1>4. asked \in Surjection(1..n, gs)
  <2>1. IsFiniteSet(1..n) /\ Cardinality(1..n) = n
    BY <1>2, FS_Interval
  <2>2. QED BY <1>1, <1>3, <2>1, FS_Injection
<1>5. asked \in [1..n -> gs] /\ \A p \in gs : \E i \in 1..n : asked[i] = p
  BY <1>4 DEF Surjection
<1> HIDE DEF asked, n, gs
<1>6. joins \in [1..n -> Steps] /\ \A i \in 1..n : joins[i] = JoinStep(asked[i])
  <2>1. \A p \in gs : JoinStep(p) \in Steps
    BY DEF JoinStep, Steps, gs
  <2>2. QED BY <1>5, <2>1
<1>7. joins \in Seq(Steps) /\ Len(joins) = n
  BY <1>2, <1>6
<1>8. \A x : Has(joins, x) <=> \E p \in gs : x = JoinStep(p)
  BY <1>5, <1>6, <1>7 DEF Has
<1> DEFINE last == <<Step("leave")>>
<1>9. last \in Seq(Steps) /\ \A x : Has(last, x) <=> x = Step("leave")
  BY DEF Step, Steps, Kinds, Has
<1>10. GroupSteps(u) = joins \o last
  BY DEF GroupSteps, asked, gs
<1> HIDE DEF joins, last
<1>11. \A x : Has(joins \o last, x) <=> Has(joins, x) \/ Has(last, x)
  BY <1>7, <1>9, ConcatHas
<1>12. QED BY <1>8, <1>9, <1>10, <1>11 DEF gs

LEMMA ActivePlan ==
  ASSUME TypeOK, NEW u \in Users, doc.row[u] # None, doc.row[u].status = "active"
  PROVE  /\ PlanOf(u) \in Seq(Steps)
         /\ ~Exists(u) => PlanOf(u) # <<>> /\ PlanOf(u)[1] = Step("create")
         /\ \A x : Has(PlanOf(u), x) <=>
              \/ ~Exists(u) /\ x = Step("create")
              \/ Exists(u) /\ passwd[u].locked /\ x = Step("unlock")
              \/ ~PrivateGroupMatches(u) /\ x = Step("primary")
              \/ /\ ~GroupsMatch(u)
                 /\ x = Step("leave") \/ \E p \in doc.row[u].groups : x = JoinStep(p)
              \/ Exists(u) /\ ~EntryMatches(u) /\ x = Step("record")
<1> DEFINE create == When(~Exists(u), Step("create"))
           unlock == When(Exists(u) /\ passwd[u].locked, Step("unlock"))
           primary == When(~PrivateGroupMatches(u), Step("primary"))
           groups == IF GroupsMatch(u) THEN <<>> ELSE GroupSteps(u)
           record == When(Exists(u) /\ ~EntryMatches(u), Step("record"))
<1>1. /\ create \in Seq(Steps)
      /\ \A x : Has(create, x) <=> ~Exists(u) /\ x = Step("create")
  BY WhenHas DEF Exists, Kinds
<1>2. /\ unlock \in Seq(Steps)
      /\ \A x : Has(unlock, x) <=> Exists(u) /\ passwd[u].locked /\ x = Step("unlock")
  <2>1. (Exists(u) /\ passwd[u].locked) \in BOOLEAN
    BY DEF Exists, TypeOK, Accounts
  <2>2. QED BY <2>1, WhenHas DEF Kinds
<1>3. /\ primary \in Seq(Steps)
      /\ \A x : Has(primary, x) <=> ~PrivateGroupMatches(u) /\ x = Step("primary")
  BY WhenHas DEF PrivateGroupMatches, Exists, Kinds
<1>4. /\ record \in Seq(Steps)
      /\ \A x : Has(record, x) <=> Exists(u) /\ ~EntryMatches(u) /\ x = Step("record")
  BY WhenHas DEF Exists, EntryMatches, Kinds
<1>5. /\ groups \in Seq(Steps)
      /\ \A x : Has(groups, x) <=>
           /\ ~GroupsMatch(u)
           /\ x = Step("leave") \/ \E p \in doc.row[u].groups : x = JoinStep(p)
  <2>1. doc.row[u].groups \in SUBSET Projects
    BY RowsAssumption DEF TypeOK, Docs, AllRows
  <2>2. CASE GroupsMatch(u)
    BY <2>2 DEF Has
  <2>3. CASE ~GroupsMatch(u)
    BY <2>1, <2>3, GroupStepsAre, GroupStepsHave
  <2>4. QED BY <2>2, <2>3
<1>6. ~Exists(u) => create # <<>> /\ create[1] = Step("create")
  BY DEF When
<1>7. PlanOf(u) = create \o unlock \o primary \o groups \o record
  BY DEF PlanOf, PlanActive
<1> HIDE DEF create, unlock, primary, groups, record
<1> DEFINE two == create \o unlock
           three == two \o primary
           four == three \o groups
<1>8. /\ two \in Seq(Steps) /\ \A x : Has(two, x) <=> Has(create, x) \/ Has(unlock, x)
      /\ create # <<>> => two # <<>> /\ two[1] = create[1]
  BY <1>1, <1>2, ConcatHas
<1> HIDE DEF two
<1>9. /\ three \in Seq(Steps) /\ \A x : Has(three, x) <=> Has(two, x) \/ Has(primary, x)
      /\ two # <<>> => three # <<>> /\ three[1] = two[1]
  BY <1>3, <1>8, ConcatHas
<1> HIDE DEF three
<1>10. /\ four \in Seq(Steps) /\ \A x : Has(four, x) <=> Has(three, x) \/ Has(groups, x)
       /\ three # <<>> => four # <<>> /\ four[1] = three[1]
  BY <1>5, <1>9, ConcatHas
<1> HIDE DEF four
<1>11. /\ four \o record \in Seq(Steps)
       /\ \A x : Has(four \o record, x) <=> Has(four, x) \/ Has(record, x)
       /\ four # <<>> => four \o record # <<>> /\ (four \o record)[1] = four[1]
  BY <1>4, <1>10, ConcatHas
<1>12. PlanOf(u) = four \o record
  BY <1>7 DEF two, three, four
<1>13. ~Exists(u) => PlanOf(u) # <<>> /\ PlanOf(u)[1] = Step("create")
  BY <1>6, <1>8, <1>9, <1>10, <1>11, <1>12
<1>14. \A x : Has(PlanOf(u), x) <=> \/ Has(create, x) \/ Has(unlock, x) \/ Has(primary, x)
                                    \/ Has(groups, x) \/ Has(record, x)
  BY <1>8, <1>9, <1>10, <1>11, <1>12
<1>15. PlanOf(u) \in Seq(Steps)
  BY <1>11, <1>12
<1>16. QED BY <1>1, <1>2, <1>3, <1>4, <1>5, <1>13, <1>14, <1>15

LEMMA HeadStep ==
  ASSUME TypeOK, NEW u \in Users, NEW kind, At(u, kind)
  PROVE  /\ Todo(u)[1].kind = kind /\ Left(u, Todo(u)[1])
         /\ kind # "join" => Todo(u)[1] = Step(kind)
         /\ kind = "join" => /\ Todo(u)[1].group \in Projects
                             /\ Todo(u)[1] = JoinStep(Todo(u)[1].group)
<1>1. Todo(u) \in Seq(Steps) /\ 1 \in 1..Len(Todo(u)) /\ Todo(u)[1].kind = kind
  BY AtIsFirst DEF HeadIs
<1>2. Todo(u)[1] \in Steps
  BY <1>1
<1>3. QED BY <1>1, <1>2 DEF Left, Has, Steps, Step, JoinStep

LEMMA TailLeft ==
  ASSUME TypeInv, NEW u \in Users, NEW kind, At(u, kind), NEW mem,
         Moves(u, Tail(Todo(u)), mem)
  PROVE  /\ \A x : Left(u, x)' => Left(u, x)
         /\ \A x : Left(u, x) => x = Todo(u)[1] \/ Left(u, x)'
         /\ ~HeadIs(u, "create")'
<1>1. /\ proc # Idle /\ Todo(u) \in Seq(Steps) /\ Todo(u) # <<>> /\ Follows(Todo(u), Row(u))
  BY AtIsFirst DEF TypeInv, HeadIs, StepsFollowRows
<1>2. Todo(u)' = Tail(Todo(u))
  BY <1>1, SyncType DEF Moves, Todo, TypeInv
<1> DEFINE todo == Todo(u)
<1>3. /\ Len(todo) \in Nat /\ Len(Tail(todo)) = Len(todo) - 1
      /\ \A i \in 1..Len(Tail(todo)) : Tail(todo)[i] = todo[i + 1]
  BY <1>1
<1>4. Tail(todo) # <<>> => Tail(todo)[1].kind # "create"
  BY <1>1, TailFollows
<1> HIDE DEF todo
<1>5. ASSUME NEW x, NEW i \in 1..Len(Tail(todo)), Tail(todo)[i] = x PROVE Has(todo, x)
  <2>1. i + 1 \in 1..Len(todo) /\ todo[i + 1] = x
    BY <1>3, <1>5
  <2>2. QED BY <2>1 DEF Has
<1>6. ASSUME NEW x, NEW i \in 1..Len(todo), todo[i] = x, i # 1 PROVE Has(Tail(todo), x)
  <2> DEFINE j == i - 1
  <2>1. j \in 1..Len(Tail(todo)) /\ j + 1 = i
    BY <1>3, <1>6
  <2>2. Tail(todo)[j] = x
    BY <1>3, <1>6, <2>1
  <2> HIDE DEF j
  <2>3. QED BY <2>1, <2>2 DEF Has
<1>7. QED BY <1>2, <1>4, <1>5, <1>6 DEF Left, Has, HeadIs, todo

\* A step for v leaves the others as they are.
OthersKept(v) ==
    \A u \in Users \ {v} : /\ passwd'[u] = passwd[u] /\ group'[u] = group[u]
                           /\ \A p \in Projects : u \in members'[p] <=> u \in members[p]

LEMMA StaysOnCourse ==
  ASSUME NEW u, OnCourse(u), doc' = doc, proc'.mem[u] = proc.mem[u], Todo(u)' = Todo(u),
         passwd'[u] = passwd[u], group'[u] = group[u],
         \A p \in Projects : u \in members'[p] <=> u \in members[p]
  PROVE  OnCourse(u)'
<1>1. \A x : Left(u, x)' <=> Left(u, x)
  BY DEF Left
<1>2. AccountLeft(u)'
  BY <1>1 DEF OnCourse, AccountLeft, Exists, PrivateGroupMatches, HeadIs
<1>3. \A p \in Projects : GroupLeft(u, p)'
  BY <1>1 DEF OnCourse, GroupLeft, Row
<1>4. EntryLeft(u)'
  BY <1>1 DEF OnCourse, EntryLeft, EntryIsRight, Exists, Row
<1>5. QED BY <1>2, <1>3, <1>4 DEF OnCourse

LEMMA OwnCourse ==
  ASSUME TypeInv, ReconcileInv, proc # Idle, NEW v \in Users, NEW steps,
         NEW mem \in [Users -> Entries \cup {None}], Moves(v, steps, mem),
         doc' = doc, OthersKept(v), \A u \in Users \ {v} : mem[u] = proc.mem[u],
         ActiveAreHere(mem), ActiveAreHere(file)', proc.hurt => proc'.hurt,
         ~proc'.hurt /\ v \in ActiveTargets => OnCourse(v)'
  PROVE  ReconcileInv'
<1>1. proc'.mem = mem /\ ActiveTargets' = ActiveTargets
      /\ \A u \in Users \ {v} : Todo(u)' = Todo(u)
  BY SyncType DEF Moves, ActiveTargets, Todo, TypeInv
<1>2. ActiveTargets \subseteq Users
  BY SyncType DEF ActiveTargets, Syncs, TypeInv
<1>3. WorkLeft'
  <2> SUFFICES ASSUME ~proc'.hurt, NEW u \in ActiveTargets PROVE OnCourse(u)'
    BY <1>1 DEF WorkLeft
  <2>1. OnCourse(u) /\ u \in Users
    BY <1>2 DEF ReconcileInv, WorkLeft
  <2>2. CASE u # v
    BY <1>1, <2>1, <2>2, StaysOnCourse DEF OthersKept
  <2>3. QED BY <2>2
<1>4. QED BY <1>1, <1>3 DEF ReconcileInv, ActiveAreHere

LEMMA ActiveStep ==
  ASSUME Inv, ReconcileInv, NEW u \in Users, NEW kind, At(u, kind), ~proc.hurt,
         u \in ActiveTargets
  PROVE  /\ OnCourse(u) /\ kind \in ActiveKinds /\ Row(u).status = "active"
         /\ kind # "create" => Exists(u)
<1>1. OnCourse(u)
  BY AtIsFirst DEF ReconcileInv, WorkLeft, Inv, TypeInv
<1>2. Todo(u)[1].kind = kind /\ 1 \in 1..Len(Todo(u))
  BY AtIsFirst DEF HeadIs, Inv, TypeInv
<1>3. kind # "create" => Exists(u)
  BY <1>1, <1>2 DEF OnCourse, AccountLeft, HeadIs
<1>4. QED BY <1>1, <1>2, <1>3 DEF OnCourse, ActiveTargets, Row

LEMMA RecordedIsRight ==
  ASSUME TypeInv, NEW u \in Users, NEW kind, At(u, kind), NEW account \in Accounts
  PROVE  LET mem == Recorded(u, account) IN
         /\ mem \in [Users -> Entries \cup {None}]
         /\ \A v \in Users \ {u} : mem[v] = proc.mem[v]
         /\ mem[u] # None /\ mem[u].status = Row(u).status /\ mem[u].groups = Row(u).groups
         /\ mem[u].uid = account.uid /\ mem[u].gid = account.gid
         /\ Row(u).status = "active" => mem[u].gone = "none"
<1> DEFINE old == proc.mem[u]
           entry == [status |-> Row(u).status,
         gone |-> IF Row(u).status = "active" \/ old = None THEN "none" ELSE old.gone,
         uid |-> account.uid, gid |-> account.gid,
         ouid |-> IF old = None THEN account.uid ELSE old.ouid,
         ogid |-> IF old = None THEN account.gid ELSE old.ogid,
         groups |-> Row(u).groups]
<1>1. Recorded(u, account) = [proc.mem EXCEPT ![u] = entry]
  BY NoneAssumption DEF Recorded
<1>2. proc.mem \in [Users -> Entries \cup {None}] /\ old \in Entries \cup {None}
  BY AtIsFirst, SyncType DEF TypeInv
<1>3. entry \in Entries
  BY <1>2, RowOfStep DEF Entries, AllRows, Accounts
<1>4. entry # None
  BY <1>3, NoneAssumption
<1>5. QED BY <1>1, <1>2, <1>3, <1>4

\* What goes for every step that records.
LEMMA RecordedAreHere ==
  ASSUME TypeInv, NEW u \in Users, NEW kind, At(u, kind), ActiveAreHere(proc.mem),
         NEW account \in Accounts \cup {None}
  PROVE  /\ ActiveAreHere(Recorded(u, account))
         /\ Recorded(u, account) \in [Users -> Entries \cup {None}]
         /\ \A v \in Users \ {u} : Recorded(u, account)[v] = proc.mem[v]
<1>1. CASE account \in Accounts
  BY <1>1, RecordedIsRight DEF ActiveAreHere
<1>2. CASE account = None
  BY <1>2, NothingRecorded, AtIsFirst, SyncType DEF TypeInv
<1>3. QED BY <1>1, <1>2

LEMMA ContinueHurts ==
  ASSUME TypeOK, proc # Idle, NEW u \in Users, NEW mem
  PROVE  /\ Continue(u, mem) => (proc'.hurt <=> proc.hurt)
         /\ ContinueHurt(u, mem) => proc'.hurt
  BY SyncType DEF Continue, ContinueHurt, Syncs

\* The parts that a step for u itself leaves as they are.
LEMMA AccountStays ==
  ASSUME TypeInv, NEW u \in Users, NEW kind, kind \notin {"create", "unlock", "primary"},
         At(u, kind), NEW mem, Moves(u, Tail(Todo(u)), mem), AccountLeft(u),
         passwd'[u] = passwd[u], group'[u] = group[u]
  PROVE  AccountLeft(u)'
<1>1. \A x : Left(u, x) => x = Todo(u)[1] \/ Left(u, x)'
  BY TailLeft
<1>2. Todo(u)[1].kind = kind
  BY HeadStep DEF TypeInv
<1>3. Step("unlock").kind = "unlock" /\ Step("primary").kind = "primary"
  BY DEF Step
<1>4. Exists(u)
  BY <1>2 DEF AccountLeft, HeadIs
<1>5. QED BY <1>1, <1>2, <1>3, <1>4 DEF AccountLeft, Exists, PrivateGroupMatches

LEMMA GroupsStay ==
  ASSUME TypeInv, NEW u \in Users, NEW kind, kind \notin {"join", "leave"}, At(u, kind),
         NEW mem, Moves(u, Tail(Todo(u)), mem), UNCHANGED <<doc, members>>,
         \A p \in Projects : GroupLeft(u, p)
  PROVE  \A p \in Projects : GroupLeft(u, p)'
<1>1. \A x : (Left(u, x)' => Left(u, x)) /\ (Left(u, x) => x = Todo(u)[1] \/ Left(u, x)')
  BY TailLeft
<1>2. Todo(u)[1].kind = kind
  BY HeadStep DEF TypeInv
<1>3. Step("leave").kind = "leave" /\ \A p \in Projects : JoinStep(p).kind = "join"
  BY DEF Step, JoinStep
<1>4. QED BY <1>1, <1>2, <1>3 DEF GroupLeft, Row

LEMMA KindsStay ==
  ASSUME TypeInv, NEW u \in Users, NEW kind, At(u, kind), NEW mem,
         Moves(u, Tail(Todo(u)), mem), OnCourse(u)
  PROVE  \A i \in 1..Len(Todo(u)') : Todo(u)'[i].kind \in ActiveKinds
<1>1. \A x : Left(u, x)' => Left(u, x)
  BY TailLeft
<1>2. QED BY <1>1 DEF Left, Has, OnCourse

LEMMA CreateCourse ==
  ASSUME Inv, ReconcileInv, NEW u \in Users, Create(u)
  PROVE  ReconcileInv'
<1> DEFINE gid == CreateGid(u)
           account == [uid |-> CreateUid(u), gid |-> gid, locked |-> FALSE]
           mem == Recorded(u, account)
<1>1. At(u, "create") /\ UNCHANGED <<doc, members, file>>
  BY DEF Create
<1>2. TypeInv /\ TypeOK /\ proc # Idle /\ Todo(u) # <<>>
  BY <1>1, AtIsFirst DEF Inv, TypeInv, HeadIs
<1>3. CASE proc' = Idle
  BY <1>1, <1>3 DEF ReconcileInv, ActiveAreHere, WorkLeft
<1>4. CASE /\ gid # None /\ CreateUid(u) # None /\ ~Exists(u)
           /\ passwd' = [passwd EXCEPT ![u] = account] /\ Continue(u, mem)
  <2>1. account \in Accounts
    BY <1>1, <1>2, <1>4, CreateIds DEF Accounts
  <2>2. passwd'[u] = account /\ \A v \in Users \ {u} : passwd'[v] = passwd[v]
    BY <1>2, <1>4 DEF TypeOK
  <2>3. ~account.locked /\ account # None
    BY <2>1, NoneAssumption
  <2> HIDE DEF account
  <2>4. /\ mem \in [Users -> Entries \cup {None}] /\ ActiveAreHere(mem)
        /\ \A v \in Users \ {u} : mem[v] = proc.mem[v]
    BY <1>1, <1>2, <2>1, RecordedAreHere DEF ReconcileInv
  <2>5. /\ mem[u] # None /\ mem[u].status = Row(u).status /\ mem[u].groups = Row(u).groups
        /\ mem[u].uid = account.uid /\ mem[u].gid = account.gid
    BY <1>1, <1>2, <2>1, RecordedIsRight
  <2> HIDE DEF mem
  <2>6. Moves(u, Tail(Todo(u)), mem) /\ (proc'.hurt <=> proc.hurt)
    BY <1>1, <1>2, <1>4, <2>4, TailMoves, ContinueHurts
  <2>7. OthersKept(u)
    <3>1. group' = group \/ group' = [group EXCEPT ![u] = gid]
      BY <1>4 DEF Create
    <3>2. QED BY <1>1, <1>2, <2>2, <3>1 DEF OthersKept, TypeOK
  <2>8. ASSUME ~proc'.hurt, u \in ActiveTargets PROVE OnCourse(u)'
    <3>1. OnCourse(u) /\ Row(u).status = "active"
      BY <1>1, <2>6, <2>8, ActiveStep
    <3>2. \A x : Left(u, x) => x = Todo(u)[1] \/ Left(u, x)'
      BY <1>1, <1>2, <2>6, TailLeft
    <3>3. Todo(u)[1].kind = "create" /\ Step("primary").kind = "primary"
      BY <1>1, <1>2, HeadStep DEF Step
    <3>4. Left(u, Step("primary"))'
      BY <1>4, <3>1, <3>2, <3>3 DEF OnCourse, AccountLeft, PrivateGroupMatches
    <3>5. AccountLeft(u)'
      BY <2>2, <2>3, <3>4 DEF AccountLeft, Exists
    <3>6. \A p \in Projects : GroupLeft(u, p)'
      BY <1>1, <1>2, <2>6, <3>1, GroupsStay DEF OnCourse
    <3>7. EntryLeft(u)'
      BY <1>1, <2>2, <2>3, <2>5, <2>6, <3>1 DEF EntryLeft, EntryIsRight, Exists, Row, Moves
    <3>8. QED BY <1>1, <1>2, <2>6, <3>1, <3>5, <3>6, <3>7, KindsStay DEF OnCourse
  <2>9. ActiveAreHere(file)'
    BY <1>1 DEF ReconcileInv, ActiveAreHere
  <2>10. QED BY <1>1, <1>2, <2>4, <2>6, <2>7, <2>8, <2>9, OwnCourse
<1>5. QED BY <1>3, <1>4 DEF Create, Abort

LEMMA SetLockCourse ==
  ASSUME Inv, ReconcileInv, NEW u \in Users,
         SetLock(u, "unlock", FALSE) \/ SetLock(u, "lock", TRUE)
  PROVE  ReconcileInv'
<1>1. PICK kind \in {"unlock", "lock"}, locked \in BOOLEAN :
        SetLock(u, kind, locked) /\ (kind = "unlock" => ~locked)
  BY Zenon
<1>2. At(u, kind) /\ UNCHANGED <<doc, group, members, file>>
  BY <1>1 DEF SetLock
<1>3. TypeInv /\ TypeOK /\ proc # Idle
  BY <1>2, AtIsFirst DEF Inv, TypeInv
<1>4. /\ passwd' \in [Users -> Accounts \cup {None}]
      /\ passwd' = IF passwd' # passwd THEN [passwd EXCEPT ![u].locked = locked] ELSE passwd
  <2>1. CASE passwd' = passwd
    BY <1>3, <2>1 DEF TypeOK
  <2>2. CASE Exists(u) /\ passwd' = [passwd EXCEPT ![u].locked = locked]
    BY <1>3, <2>2, LockChanges
  <2>3. QED BY <1>1, <2>1, <2>2 DEF SetLock
<1>5. PICK account \in {passwd[u], passwd'[u]} :
        LET mem == Recorded(u, account) IN
        \/ /\ Continue(u, mem) /\ account = passwd'[u]
           /\ passwd' = IF Exists(u) THEN [passwd EXCEPT ![u].locked = locked] ELSE passwd
        \/ ContinueHurt(u, mem)
  BY <1>1 DEF SetLock
<1>6. account \in Accounts \cup {None}
  BY <1>3, <1>4 DEF TypeOK
<1> DEFINE mem == Recorded(u, account)
<1>7. /\ mem \in [Users -> Entries \cup {None}] /\ ActiveAreHere(mem)
      /\ \A v \in Users \ {u} : mem[v] = proc.mem[v]
  BY <1>2, <1>3, <1>6, RecordedAreHere DEF ReconcileInv
<1>8. account \in Accounts =>
        /\ mem[u] # None /\ mem[u].status = Row(u).status /\ mem[u].groups = Row(u).groups
        /\ mem[u].uid = account.uid /\ mem[u].gid = account.gid
  BY <1>2, <1>3, RecordedIsRight
<1>9. Continue(u, mem) \/ ContinueHurt(u, mem)
  BY <1>5
<1> HIDE DEF mem
<1>10. Moves(u, Tail(Todo(u)), mem) /\ (proc.hurt => proc'.hurt)
  BY <1>2, <1>3, <1>7, <1>9, TailMoves, ContinueHurts
<1>11. OthersKept(u)
  BY <1>2, <1>3, <1>4 DEF OthersKept, TypeOK
<1>12. ASSUME ~proc'.hurt, u \in ActiveTargets PROVE OnCourse(u)'
  <2>1. /\ OnCourse(u) /\ Row(u).status = "active" /\ kind = "unlock" /\ Exists(u)
    BY <1>2, <1>10, <1>12, ActiveStep DEF ActiveKinds
  <2>2. account = passwd'[u] /\ passwd' = [passwd EXCEPT ![u].locked = FALSE]
    BY <1>1, <1>3, <1>5, <1>12, <2>1, ContinueHurts DEF mem
  <2>3. passwd[u] \in Accounts
    BY <1>3, <2>1 DEF TypeOK, Exists
  <2>4. account = [passwd[u] EXCEPT !.locked = FALSE]
    BY <1>3, <2>2 DEF TypeOK
  <2>5. account \in Accounts /\ ~account.locked /\ account.gid = passwd[u].gid
    BY <2>3, <2>4 DEF Accounts
  <2>6. account # None
    BY <2>5, NoneAssumption
  <2>7. \A x : Left(u, x) => x = Todo(u)[1] \/ Left(u, x)'
    BY <1>2, <1>3, <1>10, TailLeft
  <2>8. Todo(u)[1].kind = "unlock" /\ Step("primary").kind = "primary"
    BY <1>2, <1>3, <2>1, HeadStep DEF Step
  <2>9. AccountLeft(u)'
    BY <1>2, <2>1, <2>2, <2>5, <2>6, <2>7, <2>8
       DEF OnCourse, AccountLeft, Exists, PrivateGroupMatches
  <2>10. \A p \in Projects : GroupLeft(u, p)'
    BY <1>2, <1>3, <1>10, <2>1, GroupsStay DEF OnCourse
  <2>11. EntryLeft(u)'
    BY <1>2, <1>8, <1>10, <2>1, <2>2, <2>5, <2>6 DEF EntryLeft, EntryIsRight, Exists, Row, Moves
  <2>12. QED BY <1>2, <1>3, <1>10, <2>1, <2>9, <2>10, <2>11, KindsStay DEF OnCourse
<1>13. ActiveAreHere(file)'
  BY <1>2 DEF ReconcileInv, ActiveAreHere
<1>14. QED BY <1>2, <1>3, <1>7, <1>10, <1>11, <1>12, <1>13, OwnCourse

LEMMA PrimaryCourse ==
  ASSUME Inv, ReconcileInv, NEW u \in Users, Primary(u)
  PROVE  ReconcileInv'
<1> DEFINE gid == IF group[u] = None THEN GroupaddGid ELSE group[u]
           account == passwd'[u]
           mem == Recorded(u, account)
<1>1. At(u, "primary") /\ UNCHANGED <<doc, members, file>>
  BY DEF Primary
<1>2. TypeInv /\ TypeOK /\ proc # Idle
  BY <1>1, AtIsFirst DEF Inv, TypeInv
<1>3. CASE proc' = Idle
  BY <1>1, <1>3 DEF ReconcileInv, ActiveAreHere, WorkLeft
<1>4. CASE /\ Exists(u) /\ gid # None /\ group' = [group EXCEPT ![u] = gid]
           /\ passwd' = [passwd EXCEPT ![u].gid = gid] /\ Continue(u, mem)
  <2>1. passwd[u] \in Accounts /\ gid \in Ids
    BY <1>2, <1>4, GroupaddPicksId DEF TypeOK, Exists
  <2> HIDE DEF gid
  <2>2. /\ account = [passwd[u] EXCEPT !.gid = gid] /\ group'[u] = gid
        /\ \A v \in Users \ {u} : passwd'[v] = passwd[v] /\ group'[v] = group[v]
    BY <1>2, <1>4 DEF TypeOK
  <2>3. account \in Accounts /\ account.gid = gid /\ account.locked = passwd[u].locked
    BY <2>1, <2>2 DEF Accounts
  <2>4. account # None
    BY <2>3, NoneAssumption
  <2> HIDE DEF account
  <2>5. /\ mem \in [Users -> Entries \cup {None}] /\ ActiveAreHere(mem)
        /\ \A v \in Users \ {u} : mem[v] = proc.mem[v]
    BY <1>1, <1>2, <2>3, RecordedAreHere DEF ReconcileInv
  <2>6. /\ mem[u] # None /\ mem[u].status = Row(u).status /\ mem[u].groups = Row(u).groups
        /\ mem[u].uid = account.uid /\ mem[u].gid = account.gid
    BY <1>1, <1>2, <2>3, RecordedIsRight
  <2> HIDE DEF mem
  <2>7. Moves(u, Tail(Todo(u)), mem) /\ (proc'.hurt <=> proc.hurt)
    BY <1>1, <1>2, <1>4, <2>5, TailMoves, ContinueHurts
  <2>8. OthersKept(u)
    BY <1>1, <2>2 DEF OthersKept
  <2>9. ASSUME ~proc'.hurt, u \in ActiveTargets PROVE OnCourse(u)'
    <3>1. OnCourse(u) /\ Row(u).status = "active"
      BY <1>1, <2>7, <2>9, ActiveStep
    <3>2. \A x : Left(u, x) => x = Todo(u)[1] \/ Left(u, x)'
      BY <1>1, <1>2, <2>7, TailLeft
    <3>3. Todo(u)[1].kind = "primary" /\ Step("unlock").kind = "unlock"
      BY <1>1, <1>2, HeadStep DEF Step
    <3>4. Exists(u)' /\ PrivateGroupMatches(u)'
      BY <2>2, <2>3, <2>4 DEF Exists, PrivateGroupMatches, account
    <3>5. AccountLeft(u)'
      BY <1>4, <2>3, <3>1, <3>2, <3>3, <3>4 DEF OnCourse, AccountLeft, account
    <3>6. \A p \in Projects : GroupLeft(u, p)'
      BY <1>1, <1>2, <2>7, <3>1, GroupsStay DEF OnCourse
    <3>7. EntryLeft(u)'
      BY <1>1, <2>6, <2>7, <3>1, <3>4 DEF EntryLeft, EntryIsRight, Row, Moves, account
    <3>8. QED BY <1>1, <1>2, <2>7, <3>1, <3>5, <3>6, <3>7, KindsStay DEF OnCourse
  <2>10. ActiveAreHere(file)'
    BY <1>1 DEF ReconcileInv, ActiveAreHere
  <2>11. QED BY <1>1, <1>2, <2>5, <2>7, <2>8, <2>9, <2>10, OwnCourse
<1>5. QED BY <1>3, <1>4 DEF Primary, Abort

LEMMA JoinCourse ==
  ASSUME Inv, ReconcileInv, NEW u \in Users, Join(u)
  PROVE  ReconcileInv'
<1> DEFINE p == Head(proc.todo[u]).group
           gid == IF group[p] = None THEN GroupaddGid ELSE group[p]
<1>1. At(u, "join") /\ UNCHANGED <<doc, passwd, file>>
  BY DEF Join
<1>2. /\ TypeInv /\ TypeOK /\ proc # Idle /\ proc.mem \in [Users -> Entries \cup {None}]
      /\ p = Todo(u)[1].group
  BY <1>1, AtIsFirst, SyncType DEF Inv, TypeInv, Todo
<1>3. p \in Projects /\ Todo(u)[1] = JoinStep(p)
  BY <1>1, <1>2, HeadStep
<1> HIDE DEF p
<1>4. CASE proc' = Idle
  BY <1>1, <1>4 DEF ReconcileInv, ActiveAreHere, WorkLeft
<1>5. CASE /\ group' = [group EXCEPT ![p] = gid] /\ members' = [members EXCEPT ![p] = @ \cup {u}]
           /\ Continue(u, proc.mem)
  <2>1. \A v \in Users : group'[v] = group[v]
    BY <1>2, <1>3, <1>5, NamesAssumption DEF TypeOK
  <2>2. /\ members'[p] = members[p] \cup {u}
        /\ \A q \in Projects \ {p} : members'[q] = members[q]
    BY <1>2, <1>3, <1>5 DEF TypeOK
  <2>3. Moves(u, Tail(Todo(u)), proc.mem) /\ (proc'.hurt <=> proc.hurt)
    BY <1>1, <1>2, <1>5, TailMoves, ContinueHurts
  <2>4. OthersKept(u)
    BY <1>1, <2>1, <2>2 DEF OthersKept
  <2>5. ASSUME ~proc'.hurt, u \in ActiveTargets PROVE OnCourse(u)'
    <3>1. OnCourse(u)
      BY <1>1, <2>3, <2>5, ActiveStep
    <3>2. \A x : (Left(u, x)' => Left(u, x)) /\ (Left(u, x) => x = JoinStep(p) \/ Left(u, x)')
      BY <1>1, <1>2, <1>3, <2>3, TailLeft
    <3>3. AccountLeft(u)'
      BY <1>1, <1>2, <2>1, <2>3, <3>1, AccountStays DEF OnCourse
    <3>4. p \in Row(u).groups
      BY <1>1, <1>2, <1>3, <3>1, HeadStep DEF OnCourse, GroupLeft
    <3>5. \A q \in Projects \ {p} : JoinStep(q) # JoinStep(p)
      BY DEF JoinStep
    <3>6. \A kind : JoinStep(p) = Step(kind) => kind = "join"
      BY DEF JoinStep, Step
    <3>7. ASSUME NEW q \in Projects PROVE GroupLeft(u, q)'
      <4>1. CASE q = p
        BY <1>1, <2>2, <3>4, <4>1 DEF GroupLeft, Row
      <4>2. CASE q # p
        BY <1>1, <2>2, <3>1, <3>2, <3>5, <3>6, <4>2 DEF GroupLeft, Row, OnCourse
      <4>3. QED BY <4>1, <4>2
    <3>8. EntryLeft(u)'
      <4>1. EntryIsRight(u) => EntryIsRight(u)'
        BY <1>1, <2>3 DEF EntryIsRight, Exists, Row, Moves
      <4>2. QED BY <3>1, <3>2, <3>6, <4>1 DEF OnCourse, EntryLeft, Recording
    <3>9. QED BY <1>1, <1>2, <2>3, <3>1, <3>3, <3>7, <3>8, KindsStay DEF OnCourse
  <2>6. ActiveAreHere(file)' /\ ActiveAreHere(proc.mem)
    BY <1>1, <1>2 DEF ReconcileInv, ActiveAreHere
  <2>7. QED BY <1>1, <1>2, <2>3, <2>4, <2>5, <2>6, OwnCourse
<1>6. QED BY <1>4, <1>5 DEF Join, Abort, p

LEMMA LeaveCourse ==
  ASSUME Inv, ReconcileInv, NEW u \in Users, Leave(u) \/ Record(u)
  PROVE  ReconcileInv'
<1> DEFINE mem == Recorded(u, passwd[u])
<1>1. PICK kind \in {"leave", "record"} :
        /\ At(u, kind)
        /\ kind = "record" => Record(u)
        /\ kind = "leave" => Leave(u)
  BY DEF Leave, Record
<1>2. UNCHANGED <<doc, passwd, group, file>>
  BY DEF Leave, Record, hostVars
<1>3. TypeInv /\ TypeOK /\ proc # Idle /\ passwd[u] \in Accounts \cup {None}
  BY <1>1, AtIsFirst DEF Inv, TypeInv, TypeOK
<1>4. /\ mem \in [Users -> Entries \cup {None}] /\ ActiveAreHere(mem)
      /\ \A v \in Users \ {u} : mem[v] = proc.mem[v]
  BY <1>1, <1>3, RecordedAreHere DEF ReconcileInv
<1>5. passwd[u] \in Accounts =>
        /\ mem[u] # None /\ mem[u].status = Row(u).status /\ mem[u].groups = Row(u).groups
        /\ mem[u].uid = passwd[u].uid /\ mem[u].gid = passwd[u].gid
  BY <1>1, <1>3, RecordedIsRight
<1>6. Continue(u, mem) \/ ContinueHurt(u, mem)
  BY DEF Leave, Record
<1>7. kind = "leave" /\ ~proc'.hurt =>
        members' = [p \in Projects |-> IF p \in ToLeave(u) THEN members[p] \ {u} ELSE members[p]]
  <2> SUFFICES ASSUME kind = "leave", ~proc'.hurt
               PROVE  members' = [p \in Projects |->
                                    IF p \in ToLeave(u) THEN members[p] \ {u} ELSE members[p]]
    OBVIOUS
  <2>1. ~ContinueHurt(u, mem)
    BY <1>3, ContinueHurts
  <2>2. PICK failing \in SUBSET ToLeave(u) :
          /\ members' = [p \in Projects |-> IF p \in ToLeave(u) \ failing THEN members[p] \ {u}
                                            ELSE members[p]]
          /\ failing = {} \/ ContinueHurt(u, mem)
    BY <1>1 DEF Leave
  <2>3. QED BY <2>1, <2>2
<1>8. \A p \in Projects : members'[p] \in {members[p], members[p] \ {u}}
  BY DEF Leave, Record, hostVars
<1> HIDE DEF mem
<1>9. Moves(u, Tail(Todo(u)), mem) /\ (proc.hurt => proc'.hurt)
  BY <1>1, <1>2, <1>3, <1>4, <1>6, TailMoves, ContinueHurts
<1>10. OthersKept(u)
  BY <1>2, <1>8 DEF OthersKept
<1>11. ASSUME ~proc'.hurt, u \in ActiveTargets PROVE OnCourse(u)'
  <2>1. OnCourse(u) /\ Row(u).status = "active" /\ Exists(u)
    BY <1>1, <1>9, <1>11, ActiveStep
  <2>2. passwd[u] \in Accounts
    BY <1>3, <2>1 DEF Exists
  <2>3. EntryLeft(u)'
    BY <1>2, <1>5, <1>9, <2>1, <2>2 DEF EntryLeft, EntryIsRight, Exists, Row, Moves
  <2>4. AccountLeft(u)'
    BY <1>1, <1>2, <1>3, <1>9, <2>1, AccountStays DEF OnCourse
  <2>5. \A p \in Projects : GroupLeft(u, p)'
    <3>1. CASE kind = "record"
      BY <1>1, <1>2, <1>3, <1>9, <2>1, <3>1, GroupsStay DEF OnCourse, Record, hostVars
    <3>2. CASE kind = "leave"
      <4> SUFFICES ASSUME NEW p \in Projects PROVE GroupLeft(u, p)'
        OBVIOUS
      <4>1. \A x : Left(u, x)' => Left(u, x)
        BY <1>1, <1>3, <1>9, TailLeft
      <4>2. Left(u, JoinStep(p)) => Left(u, JoinStep(p))'
        <5>1. Todo(u)[1].kind = "leave" /\ JoinStep(p).kind = "join"
          BY <1>1, <1>3, <3>2, HeadStep DEF JoinStep
        <5>2. QED BY <1>1, <1>3, <1>9, <5>1, TailLeft
      <4>3. members'[p] = IF p \in ToLeave(u) THEN members[p] \ {u} ELSE members[p]
        BY <1>7, <1>11, <3>2
      <4>4. p \in ToLeave(u) => p \notin Row(u).groups
        BY DEF ToLeave
      <4>5. u \in members[p] /\ doc.group[p] # "absent" /\ p \notin Row(u).groups
              => p \in ToLeave(u)
        BY DEF ToLeave, MemberOf, Universe
      <4>6. QED BY <1>2, <2>1, <4>1, <4>2, <4>3, <4>4, <4>5 DEF OnCourse, GroupLeft, Row
    <3>3. QED BY <3>1, <3>2
  <2>6. QED BY <1>1, <1>3, <1>9, <2>1, <2>3, <2>4, <2>5, KindsStay DEF OnCourse
<1>12. ActiveAreHere(file)'
  BY <1>2 DEF ReconcileInv, ActiveAreHere
<1>13. QED BY <1>2, <1>3, <1>4, <1>9, <1>10, <1>11, <1>12, OwnCourse

\* What is done for a user who is being retired changes no active user.
LEMMA RetiringCourse ==
  ASSUME Inv, TypeInv', ReconcileInv, NEW u \in Users, NEW kind \in Lifecycle, At(u, kind),
         doc' = doc, NEW steps, NEW mem \in [Users -> Entries \cup {None}], Moves(u, steps, mem),
         \A v \in Users \ {u} : mem[v] = proc.mem[v],
         mem[u] # None /\ mem[u].status = "active" => mem[u] = proc.mem[u],
         OthersKept(u), file' = file \/ file' = mem, proc'.hurt <=> proc.hurt
  PROVE  ReconcileInv'
<1>1. TypeInv /\ proc # Idle
  BY AtIsFirst DEF Inv, TypeInv
<1>2. u \notin ActiveTargets
  BY RowOfStep DEF Inv, ActiveTargets, Row
<1>3. ActiveAreHere(mem)
  BY <1>1 DEF ReconcileInv, ActiveAreHere
<1>4. ActiveAreHere(file)'
  BY <1>3 DEF ReconcileInv, ActiveAreHere
<1>5. QED BY <1>1, <1>2, <1>3, <1>4, OwnCourse

LEMMA RetireCourse ==
  ASSUME Inv, TypeInv', ReconcileInv, NEW u \in Users, Retire(u)
  PROVE  ReconcileInv'
<1> DEFINE old == proc.mem[u]
           new == [status |-> "inactive", gone |-> "leaving",
                   uid |-> passwd[u].uid, gid |-> passwd[u].gid,
                   ouid |-> IF old = None THEN passwd[u].uid ELSE old.ouid,
                   ogid |-> IF old = None THEN passwd[u].gid ELSE old.ogid,
                   groups |-> Row(u).groups]
           mem == [proc.mem EXCEPT ![u] = new]
<1>1. At(u, "inactive") /\ UNCHANGED <<doc, group, members>>
  BY DEF Retire
<1>2. /\ TypeInv /\ TypeOK /\ proc # Idle /\ Todo(u) # <<>> /\ proc \in Syncs
      /\ proc.mem \in [Users -> Entries \cup {None}]
  BY <1>1, AtIsFirst, SyncType DEF Inv, TypeInv, HeadIs
<1>3. CASE ~Exists(u)
  <2>1. UNCHANGED <<passwd, file>> /\ (Abort \/ Continue(u, proc.mem))
    BY <1>3 DEF Retire
  <2>2. CASE Abort
    BY <2>1, <2>2 DEF Abort, ReconcileInv, ActiveAreHere, WorkLeft
  <2>3. CASE Continue(u, proc.mem)
    <3>1. Moves(u, Tail(Todo(u)), proc.mem) /\ (proc'.hurt <=> proc.hurt)
      BY <1>1, <1>2, <2>3, TailMoves, ContinueHurts
    <3>2. OthersKept(u)
      BY <1>1, <2>1 DEF OthersKept
    <3>3. QED BY <1>1, <1>2, <2>1, <3>1, <3>2, RetiringCourse DEF Lifecycle
  <2>4. QED BY <2>1, <2>2, <2>3
<1>4. CASE Exists(u)
  <2>1. file' = mem /\ passwd' = [passwd EXCEPT ![u].locked = TRUE]
    BY <1>4 DEF Retire
  <2>2. \/ Abort \/ Continue(u, mem)
        \/ proc' = [proc EXCEPT !.mem = mem, !.todo[u] = <<Step("userdel")>> \o Tail(@)]
    BY <1>4 DEF Retire
  <2>3. mem \in [Users -> Entries \cup {None}]
    BY <2>1 DEF TypeInv, TypeOK
  <2>4. mem[u].status = "inactive" /\ \A v \in Users \ {u} : mem[v] = proc.mem[v]
    BY <1>2
  <2> HIDE DEF mem
  <2>5. OthersKept(u)
    BY <1>1, <1>2, <2>1 DEF OthersKept, TypeOK
  <2>6. CASE Abort
    BY <2>1, <2>4, <2>6, <1>2 DEF Abort, ReconcileInv, ActiveAreHere, WorkLeft
  <2>7. CASE Continue(u, mem)
    <3>1. Moves(u, Tail(Todo(u)), mem) /\ (proc'.hurt <=> proc.hurt)
      BY <1>1, <1>2, <2>3, <2>7, TailMoves, ContinueHurts
    <3>2. QED BY <1>1, <2>1, <2>3, <2>4, <2>5, <3>1, RetiringCourse DEF Lifecycle
  <2>8. CASE proc' = [proc EXCEPT !.mem = mem, !.todo[u] = <<Step("userdel")>> \o Tail(@)]
    <3>1. Moves(u, <<Step("userdel")>> \o Tail(Todo(u)), mem)
      BY <1>2, <2>3, <2>8, InsertMoves DEF Kinds
    <3>2. proc'.hurt <=> proc.hurt
      BY <1>2, <2>8 DEF Syncs
    <3>3. QED BY <1>1, <2>1, <2>3, <2>4, <2>5, <3>1, <3>2, RetiringCourse DEF Lifecycle
  <2>9. QED BY <2>2, <2>6, <2>7, <2>8
<1>5. QED BY <1>3, <1>4

LEMMA UserdelCourse ==
  ASSUME Inv, TypeInv', ReconcileInv, NEW u \in Users, Userdel(u)
  PROVE  ReconcileInv'
<1>1. At(u, "userdel") /\ UNCHANGED doc
  BY DEF Userdel
<1>2. /\ TypeInv /\ TypeOK /\ proc # Idle /\ Todo(u) # <<>> /\ proc \in Syncs
      /\ proc.mem \in [Users -> Entries \cup {None}]
  BY <1>1, AtIsFirst, SyncType DEF Inv, TypeInv, HeadIs
<1>3. CASE Abort /\ file' = proc.mem
  BY <1>2, <1>3 DEF Abort, ReconcileInv, ActiveAreHere, WorkLeft
<1>4. CASE /\ Deleted(u) /\ file' = file
           /\ proc' = [proc EXCEPT !.todo[u] = <<Step("tombstone")>> \o Tail(@)]
  <2>1. proc' = [proc EXCEPT !.mem = proc.mem, !.todo[u] = <<Step("tombstone")>> \o Tail(@)]
    BY <1>2, <1>4 DEF Syncs
  <2>2. Moves(u, <<Step("tombstone")>> \o Tail(Todo(u)), proc.mem)
    BY <1>2, <2>1, InsertMoves DEF Kinds
  <2>3. proc'.hurt <=> proc.hurt
    BY <1>2, <2>1 DEF Syncs
  <2>4. OthersKept(u)
    BY <1>2, <1>4 DEF Deleted, OthersKept, TypeOK
  <2>5. QED BY <1>1, <1>2, <1>4, <2>2, <2>3, <2>4, RetiringCourse DEF Lifecycle
<1>5. QED BY <1>3, <1>4 DEF Userdel

LEMMA TombstoneCourse ==
  ASSUME Inv, TypeInv', ReconcileInv, NEW u \in Users, Tombstone(u)
  PROVE  ReconcileInv'
<1> DEFINE mem == [proc.mem EXCEPT ![u].gone = "tombstoned"]
<1>1. At(u, "tombstone") /\ Continue(u, mem) /\ file' = mem /\ UNCHANGED <<doc, hostVars>>
  BY DEF Tombstone
<1>2. TypeInv /\ TypeOK /\ proc # Idle /\ Removing(u)
  BY <1>1, AtIsFirst DEF Removing, Inv, TypeInv
<1>3. proc.mem[u] # None /\ proc.mem[u].status = "inactive"
  BY <1>2 DEF Inv, IdentityInv, RemovalGoesOn
<1>4. proc.mem \in [Users -> Entries \cup {None}] /\ proc.mem[u] \in Entries
  BY <1>2, <1>3, SyncType
<1>5. mem \in [Users -> Entries \cup {None}]
  BY <1>1 DEF TypeInv, TypeOK
<1>6. mem[u] = [proc.mem[u] EXCEPT !.gone = "tombstoned"]
      /\ \A v \in Users \ {u} : mem[v] = proc.mem[v]
  BY <1>4
<1> HIDE DEF mem
<1>7. mem[u].status = "inactive"
  BY <1>3, <1>4, <1>6 DEF Entries
<1>8. Moves(u, Tail(Todo(u)), mem) /\ (proc'.hurt <=> proc.hurt)
  BY <1>1, <1>2, <1>5, TailMoves, ContinueHurts
<1>9. OthersKept(u)
  BY <1>1 DEF OthersKept, hostVars
<1>10. QED BY <1>1, <1>5, <1>6, <1>7, <1>8, <1>9, RetiringCourse DEF Lifecycle

LEMMA StartCourse ==
  ASSUME Inv, ReconcileInv, NEW targets \in SUBSET Users, StartSync(targets)
  PROVE  ReconcileInv'
<1>1. /\ proc'.todo = Plan(targets) /\ proc'.mem = file /\ proc'.targets = targets
      /\ UNCHANGED <<doc, passwd, group, members, file>>
  BY DEF StartSync, hostVars
<1>2. ASSUME NEW u \in ActiveTargets' PROVE OnCourse(u)'
  <2>1. u \in Users /\ doc.row[u] # None /\ doc.row[u].status = "active"
    BY <1>1, <1>2 DEF ActiveTargets
  <2>2. Todo(u)' = PlanOf(u)
    BY <1>1, <1>2, <2>1 DEF Todo, Plan, ActiveTargets
  <2>3. /\ PlanOf(u) \in Seq(Steps)
        /\ ~Exists(u) => PlanOf(u) # <<>> /\ PlanOf(u)[1] = Step("create")
        /\ \A x : Left(u, x)' <=>
              \/ ~Exists(u) /\ x = Step("create")
              \/ Exists(u) /\ passwd[u].locked /\ x = Step("unlock")
              \/ ~PrivateGroupMatches(u) /\ x = Step("primary")
              \/ /\ ~GroupsMatch(u)
                 /\ x = Step("leave") \/ \E p \in doc.row[u].groups : x = JoinStep(p)
              \/ Exists(u) /\ ~EntryMatches(u) /\ x = Step("record")
    BY <2>1, <2>2, ActivePlan DEF Inv, TypeInv, Left
  <2>4. \A kind : Step(kind).kind = kind
    BY DEF Step
  <2>5. \A p : JoinStep(p).kind = "join" /\ JoinStep(p).group = p
    BY DEF JoinStep
  <2>6. \A i \in 1..Len(Todo(u)') : Todo(u)'[i].kind \in ActiveKinds
    <3>1. \A x : Left(u, x)' => x.kind \in ActiveKinds
      BY <2>3, <2>4, <2>5 DEF ActiveKinds
    <3>2. QED BY <3>1 DEF Left, Has
  <2>7. AccountLeft(u)'
    BY <1>1, <2>2, <2>3, <2>4 DEF AccountLeft, HeadIs, Exists, PrivateGroupMatches
  <2>8. ASSUME NEW p \in Projects PROVE GroupLeft(u, p)'
    <3>1. Left(u, JoinStep(p))' <=> ~GroupsMatch(u) /\ p \in doc.row[u].groups
      BY <2>3, <2>4, <2>5
    <3>2. ~GroupsMatch(u) => Left(u, Step("leave"))'
      BY <2>3
    <3>3. CASE GroupsMatch(u)
      BY <1>1, <3>1, <3>3 DEF GroupLeft, GroupsMatch, MemberOf, Universe, Row
    <3>4. CASE ~GroupsMatch(u)
      BY <1>1, <3>1, <3>2, <3>4 DEF GroupLeft, Row
    <3>5. QED BY <3>3, <3>4
  <2>9. EntryLeft(u)'
    <3>1. CASE ~Exists(u)
      BY <2>3, <3>1 DEF EntryLeft, Recording, ActiveKinds
    <3>2. CASE Exists(u) /\ ~EntryMatches(u)
      BY <2>3, <3>2 DEF EntryLeft, Recording, ActiveKinds
    <3>3. CASE EntryMatches(u)
      BY <1>1, <2>1, <3>3 DEF EntryMatches, EntryLeft, EntryIsRight, Exists, Row
    <3>4. QED BY <3>1, <3>2, <3>3
  <2>10. QED BY <2>6, <2>7, <2>8, <2>9 DEF OnCourse
<1>3. ActiveAreHere(file)' /\ (ActiveAreHere(proc.mem))'
  BY <1>1 DEF ReconcileInv, ActiveAreHere
<1>4. QED BY <1>2, <1>3 DEF ReconcileInv, WorkLeft

LEMMA ByHandCourse ==
  ASSUME Inv, ReconcileInv, ByHand
  PROVE  ReconcileInv'
<1>1. /\ proc' # Idle => proc # Idle /\ proc'.mem = proc.mem
      /\ file' = file
  BY ByHandType DEF ByHand, Inv
<1>2. proc' # Idle => proc'.hurt
  BY SyncType DEF ByHand, Syncs, Inv, TypeInv
<1>3. QED BY <1>1, <1>2 DEF ReconcileInv, ActiveAreHere, WorkLeft

LEMMA InitCourse == Init => ReconcileInv
  BY DEF Init, ReconcileInv, ActiveAreHere, WorkLeft

LEMMA NextCourse ==
  ASSUME Inv, Inv', ReconcileInv, [Next]_vars
  PROVE  ReconcileInv'
<1>1. ASSUME NEW targets \in SUBSET Users, StartSync(targets) PROVE ReconcileInv'
  BY <1>1, StartCourse
<1>2. ASSUME NEW u \in Users, SyncStep(u) PROVE ReconcileInv'
  BY <1>2, CreateCourse, SetLockCourse, PrimaryCourse, JoinCourse, LeaveCourse, RetireCourse,
     UserdelCourse, TombstoneCourse DEF SyncStep, Unlock, Lock, Inv
<1>3. CASE Finish \/ Crash
  <2>1. proc # Idle /\ proc' = Idle /\ (file' = file \/ file' = proc.mem)
    BY <1>3 DEF Finish, Crash, Abort, NothingLeft
  <2>2. QED BY <2>1 DEF ReconcileInv, ActiveAreHere, WorkLeft
<1>4. CASE \/ \E u \in Users, row \in Rows : EditRow(u, row)
           \/ \E p \in Projects, how \in {"absent", "defined", "adopted"} : EditGroup(p, how)
  <2>1. proc = Idle /\ UNCHANGED <<file, proc>>
    BY <1>4 DEF EditRow, EditGroup, Edit
  <2>2. QED BY <2>1 DEF ReconcileInv, ActiveAreHere, WorkLeft
<1>5. CASE \/ \E u \in Users, i \in Ids : UseraddByHand(u, i)
           \/ \E u \in Users : UserdelByHand(u)
           \/ \E u \in Users, p \in Projects : GpasswdByHand(u, p)
  BY <1>5, ByHandCourse DEF UseraddByHand, UserdelByHand, GpasswdByHand
<1>6. CASE UNCHANGED vars
  <2>1. UNCHANGED <<doc, passwd, group, members, file, proc>>
    BY <1>6 DEF vars, hostVars
  <2>2. \A u \in ActiveTargets : OnCourse(u) => OnCourse(u)'
    <3>1. ActiveTargets' = ActiveTargets /\ \A u : Todo(u)' = Todo(u)
      BY <2>1 DEF ActiveTargets, Todo
    <3>2. QED BY <2>1, <3>1, StaysOnCourse
  <2>3. QED BY <2>1, <2>2 DEF ReconcileInv, ActiveAreHere, WorkLeft, ActiveTargets
<1>7. \A targets \in {Users} \cup {{u} : u \in Users} : targets \in SUBSET Users
  OBVIOUS
<1>8. QED BY <1>1, <1>2, <1>3, <1>4, <1>5, <1>6, <1>7 DEF Next

LEMMA CourseInvariant == Spec => [](Inv /\ ReconcileInv)
<1>1. Init => Inv /\ ReconcileInv
  BY InitType, InitIdentity, InitCourse DEF Inv
<1>2. Inv /\ ReconcileInv /\ [Next]_vars => (Inv /\ ReconcileInv)'
  BY NextIdentity, NextCourse
<1>3. QED BY <1>1, <1>2, PTL DEF Spec

\* A sync that ends, and in which no command failed and nobody changed the
\* host, has made every active user it was for what users.yml says, on the
\* host and in users-state.yml (plan_user_sync, the actions of apply, _update_state_for_user),
\* whatever it did for other users in between and whatever state it found.
THEOREM SyncsReconcile == Spec => SyncReconciles
<1> DEFINE Made(u) ==
      /\ Exists(u) /\ ~passwd[u].locked /\ PrivateGroupMatches(u)
      /\ \A p \in Projects : doc.group[p] # "absent" =>
           (u \in members[p] <=> p \in doc.row[u].groups)
      /\ file'[u].status = "active" /\ file'[u].gone = "none"
      /\ file'[u].uid = passwd[u].uid /\ file'[u].gid = passwd[u].gid
      /\ file'[u].groups = doc.row[u].groups
    Ends == NothingLeft /\ ~proc.hurt /\ file' = proc.mem /\ proc' = Idle
              => \A u \in ActiveTargets : Made(u)
<1>1. Inv /\ ReconcileInv => Ends
  <2> SUFFICES ASSUME Inv, ReconcileInv, NothingLeft, ~proc.hurt, file' = proc.mem,
                      NEW u \in ActiveTargets
               PROVE  Made(u)
    OBVIOUS
  <2>1. proc # Idle /\ u \in Users
    BY SyncType DEF NothingLeft, ActiveTargets, Syncs, Inv, TypeInv
  <2>2. OnCourse(u)
    BY <2>1 DEF ReconcileInv, WorkLeft
  <2>3. Todo(u) = <<>> /\ \A x : ~Left(u, x)
    BY <2>1 DEF NothingLeft, Todo, Left, Has
  <2>4. Exists(u) /\ ~passwd[u].locked /\ PrivateGroupMatches(u)
    BY <2>2, <2>3 DEF OnCourse, AccountLeft, HeadIs
  <2>5. \A p \in Projects : doc.group[p] # "absent" =>
          (u \in members[p] <=> p \in doc.row[u].groups)
    BY <2>2, <2>3 DEF OnCourse, GroupLeft, Row
  <2>6. EntryIsRight(u)
    BY <2>2, <2>3 DEF OnCourse, EntryLeft
  <2>7. proc.mem[u].gone = "none"
    BY <2>1, <2>6 DEF ReconcileInv, ActiveAreHere, EntryIsRight
  <2>8. QED BY <2>4, <2>5, <2>6, <2>7 DEF EntryIsRight, Row
<1>2. [][Ends]_vars <=> SyncReconciles
  BY DEF SyncReconciles
<1> HIDE DEF Ends
<1>3. Inv /\ ReconcileInv /\ [Next]_vars => [Ends]_vars
  BY <1>1
<1>4. QED BY <1>2, <1>3, CourseInvariant, PTL DEF Spec
=============================================================================
