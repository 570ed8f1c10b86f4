------------------------ MODULE GuardedCleanup_proofs ------------------------
(***************************************************************************)
(* Theorems about GuardedCleanup for every set of entries, wherever they   *)
(* are, users, tokens, commands and profiles.                              *)
(***************************************************************************)
EXTENDS GuardedCleanup, PlanTokens_proofs

USE DEF tokenVars, fileVars, hostVars, countVars

LEMMA ScratchBodyType == ASSUME NEW us \in SUBSET Users PROVE ScratchBody(us) \in Bodies
<1> DEFINE found == {e \in Entries : /\ age[e] = "old" /\ link[e] = None
                                     /\ IF us = {} THEN Place[e] = "scratch"
                                        ELSE Place[e] = "user" /\ Owner[e] \in us}
<1>1. found \in SUBSET Entries
  OBVIOUS
<1>2. ScratchBody(us) = [root |-> "scratch", users |-> us, candidates |-> found]
  BY DEF ScratchBody
<1> HIDE DEF found
<1>3. QED BY <1>1, <1>2, CleanupAssumption DEF Roots

LEMMA RetentionBodyType == ASSUME NEW r \in {"prod", "test"} PROVE RetentionBody(r) \in Bodies
<1> DEFINE found == {e \in Entries : /\ Place[e] = r
                                     /\ age[e] # "gone" /\ age[Resolve(e)] = "old"}
<1>1. found \in SUBSET Entries
  OBVIOUS
<1>2. RetentionBody(r) = [root |-> r, users |-> {}, candidates |-> found]
  BY DEF RetentionBody
<1> HIDE DEF found
<1>3. QED BY <1>1, <1>2, CleanupAssumption DEF Roots

\* The hash covers the candidates.
LEMMA DigestType ==
  ASSUME NEW b \in Bodies
  PROVE  Digest(b) \in Bodies /\ Digest(b).candidates = b.candidates
  BY CleanupAssumption DEF Digest

\* A report as a plan or an edit leaves it: what it hashes is among what it
\* proposes, and a retention report is about a retention root.
Planned(k, rep) ==
    /\ rep \in Reports
    /\ rep.hash.candidates \subseteq rep.body.candidates
    /\ k = "retention" => rep.body.root \in {"prod", "test"}

LEMMA PlanWrites ==
  ASSUME TokenTypeOK, NEW k \in Kinds, NEW cfg \in Configs \cup {None}, Plan(k, cfg)
  PROVE  /\ report'[k] \in Reports /\ WriteReport(k, report'[k])
         /\ Planned(k, report'[k])
<1>1. PICK b \in Bodies : /\ WriteReport(k, [config |-> cfg, hash |-> Digest(b), body |-> b])
                          /\ k = "retention" => b.root \in {"prod", "test"}
  <2>1. CASE k = "scratch"
    BY <2>1, ScratchBodyType DEF Plan, PlanReport
  <2>2. CASE k # "scratch"
    <3>1. PICK r \in {"prod", "test"} :
            WriteReport(k, [config |-> cfg, hash |-> Digest(RetentionBody(r)),
                            body |-> RetentionBody(r)])
      BY <2>2 DEF Plan, PlanReport
    <3>2. RetentionBody(r).root = r
      BY DEF RetentionBody
    <3>3. QED BY <3>1, <3>2, RetentionBodyType
  <2>3. QED BY <2>1, <2>2
<1> DEFINE rep == [config |-> cfg, hash |-> Digest(b), body |-> b]
<1>2. rep \in Reports /\ rep.hash = Digest(b) /\ rep.body = b
  BY DigestType DEF Reports
<1>3. WriteReport(k, rep)
  BY <1>1
<1> HIDE DEF rep
<1>4. report'[k] = rep
  BY <1>3 DEF WriteReport, TokenTypeOK
<1>5. QED BY <1>1, <1>2, <1>3, <1>4, DigestType DEF Planned

LEMMA EditWrites ==
  ASSUME TokenTypeOK, NEW k \in Kinds, EditReport(k), Planned(k, report[k])
  PROVE  /\ report'[k] \in Reports /\ WriteReport(k, report'[k])
         /\ Planned(k, report'[k])
<1>1. /\ report[k] \in Reports
      /\ report[k].hash \in Bodies /\ report[k].body \in Bodies
  BY DEF Planned, Reports
<1>2. ASSUME NEW rep \in Reports, WriteReport(k, rep), rep.hash = report[k].hash,
             report[k].body.candidates \subseteq rep.body.candidates,
             rep.body.root = report[k].body.root
      PROVE  /\ report'[k] \in Reports /\ WriteReport(k, report'[k])
             /\ Planned(k, report'[k])
  <2>1. report'[k] = rep
    BY <1>2 DEF WriteReport, TokenTypeOK
  <2>2. QED BY <1>2, <2>1 DEF Planned
<1>3. ASSUME NEW e \in Entries,
             WriteReport(k, [report[k] EXCEPT !.body.candidates = @ \cup {e}])
      PROVE  /\ report'[k] \in Reports /\ WriteReport(k, report'[k])
             /\ Planned(k, report'[k])
  <2> DEFINE rep == [report[k] EXCEPT !.body.candidates = @ \cup {e}]
  <2>1. /\ rep \in Reports
        /\ rep.hash = report[k].hash
        /\ rep.body.candidates = report[k].body.candidates \cup {e}
        /\ rep.body.root = report[k].body.root
    BY <1>1, CleanupAssumption DEF Reports
  <2> HIDE DEF rep
  <2>2. QED BY <1>2, <1>3, <2>1 DEF rep
<1>4. ASSUME NEW us \in SUBSET Users,
             WriteReport(k, [report[k] EXCEPT !.body.users = us])
      PROVE  /\ report'[k] \in Reports /\ WriteReport(k, report'[k])
             /\ Planned(k, report'[k])
  <2> DEFINE rep == [report[k] EXCEPT !.body.users = us]
  <2>1. /\ rep \in Reports
        /\ rep.hash = report[k].hash
        /\ rep.body.candidates = report[k].body.candidates
        /\ rep.body.root = report[k].body.root
    BY <1>1, CleanupAssumption DEF Reports
  <2> HIDE DEF rep
  <2>2. QED BY <1>2, <1>4, <2>1 DEF rep
<1>5. QED BY <1>3, <1>4 DEF EditReport

LEMMA RiskType == ASSUME NEW k, NEW allow PROVE RiskOf(k, allow) \in Risks
  BY CleanupAssumption DEF RiskOf
-----------------------------------------------------------------------------
(***************************************************************************)
(* The invariant: every report is a planned one; a command has the risk    *)
(* that its options give; one at work takes its candidates from a report   *)
(* that is what its hash says, and the path it has in hand is one that it  *)
(* may delete, and a candidate or what a link in its place has led to.     *)
(***************************************************************************)
ReportsPlanned == \A k \in Kinds : report[k] # None => Planned(k, report[k])

ReviewsPlanned ==
    \A t \in Tokens : reviewed[t] # None => Planned(reviewed[t].kind, reviewed[t].report)

CommandsPlanned ==
    \A c \in Commands : cmd[c].pc # "idle" =>
        /\ Planned(cmd[c].kind, cmd[c].report)
        /\ cmd[c].risk = RiskOf(cmd[c].kind, sweep[c].allow)

Leads(c, e, p) ==
    /\ Deletable(c, e, p)
    /\ p = e \/ (cmd[c].kind = "scratch" /\ <<e, p>> \in linked)

WorkIsHashed ==
    \A c \in Commands : cmd[c].pc = "working" =>
        /\ cmd[c].report.hash = Digest(cmd[c].report.body)
        /\ sweep[c].todo \subseteq cmd[c].report.body.candidates
        /\ sweep[c].asked # None =>
              \E e \in cmd[c].report.body.candidates : Leads(c, e, sweep[c].asked)

QuietUntilWork == \A c \in Commands : cmd[c].pc # "working" => sweep[c].asked = None

CleanupInv ==
    /\ ReportsPlanned
    /\ ReviewsPlanned
    /\ CommandsPlanned
    /\ WorkIsHashed
    /\ QuietUntilWork

\* The history knows every link.
LinksKnown ==
    /\ link \in [Entries -> Entries \cup {None}]
    /\ linked \subseteq Entries \X Entries
    /\ \A e \in Entries : link[e] # None => <<e, link[e]>> \in linked

\* What a sweep is, apart from the other conjuncts of TypeOK.
Sweeps == [allow : Allowances, todo : SUBSET Entries, asked : Entries \cup {None}, blind : BOOLEAN]
SweepsTyped == sweep \in [Commands -> Sweeps]

LEMMA InitCleanup == Init => TokenInv /\ SweepsTyped /\ CleanupInv
<1> SUFFICES ASSUME Init PROVE TokenInv /\ SweepsTyped /\ CleanupInv
  OBVIOUS
<1>1. TokenInv
  BY TokenInitInv DEF Init
<1>2. NoSweep \in Sweeps
  BY DEF NoSweep, Sweeps, Allowances
<1>3. SweepsTyped
  BY <1>2 DEF Init, SweepsTyped
<1>4. CleanupInv
  BY DEF Init, TokenInit, NoCommand, NoSweep, CleanupInv, ReportsPlanned, ReviewsPlanned,
         CommandsPlanned, WorkIsHashed, QuietUntilWork
<1>5. QED BY <1>1, <1>3, <1>4
-----------------------------------------------------------------------------
\* Every step of the cleanup is a step of the tokens, or none.
LEMMA TokenStep ==
  ASSUME TokenTypeOK, ReportsPlanned, [Next]_vars
  PROVE  [TokenNext]_tokenVars
<1>1. CASE UNCHANGED vars
  BY <1>1 DEF vars
<1>2. ASSUME NEW k \in Kinds, NEW cfg \in Configs \cup {None}, Plan(k, cfg)
      PROVE  [TokenNext]_tokenVars
  BY <1>2, PlanWrites DEF TokenNext
<1>3. ASSUME NEW k \in Kinds, EditReport(k)
      PROVE  [TokenNext]_tokenVars
  <2>1. Planned(k, report[k])
    BY <1>3 DEF EditReport, ReportsPlanned
  <2>2. QED BY <1>3, <2>1, EditWrites DEF TokenNext
<1>4. ASSUME NEW t \in Tokens, Token(t)
      PROVE  [TokenNext]_tokenVars
  BY <1>4 DEF Token, TokenNext
<1>5. ASSUME NEW c \in Commands, NEW t \in Tokens, NEW k \in Kinds, NEW allow \in Allowed(k),
             Apply(c, t, k, allow)
      PROVE  [TokenNext]_tokenVars
  BY <1>5, RiskType DEF Apply, TokenNext
<1>6. ASSUME NEW c \in Commands,
             Validate(c) \/ Begin(c) \/ Refuse(c) \/ PassOver(c) \/ Done(c) \/ Die(c)
      PROVE  [TokenNext]_tokenVars
  BY <1>6 DEF Validate, Begin, Refuse, PassOver, Done, Die, TokenNext
<1>7. ASSUME NEW c \in Commands, NEW e \in Entries,
             Skip(c, e) \/ Take(c, e) \/ Remove(c, e) \/ RemoveFails(c, e)
      PROVE  [TokenNext]_tokenVars
  BY <1>7 DEF Skip, Take, Remove, RemoveFails, TokenNext
<1>8. ASSUME NEW u \in Users, StartJob(u) \/ EndJob(u)
      PROVE  [TokenNext]_tokenVars
  BY <1>8 DEF StartJob, EndJob
<1>9. ASSUME NEW e \in Entries, Touch(e) \/ \E t \in Entries : Relink(e, t)
      PROVE  [TokenNext]_tokenVars
  BY <1>9 DEF Touch, Relink
<1>10. CASE GrowOld
  BY <1>10 DEF GrowOld
<1>11. QED
  BY <1>1, <1>2, <1>3, <1>4, <1>5, <1>6, <1>7, <1>8, <1>9, <1>10 DEF Next
-----------------------------------------------------------------------------
(***************************************************************************)
(* Preservation.                                                           *)
(***************************************************************************)
\* What a command may delete follows from its report and its options, and
\* the history of links only grows.
LEMMA LeadsKept ==
  ASSUME NEW c \in Commands, NEW e, NEW p, Leads(c, e, p),
         cmd'[c].kind = cmd[c].kind, cmd'[c].report = cmd[c].report,
         sweep'[c].allow = sweep[c].allow, linked \subseteq linked'
  PROVE  Leads(c, e, p)'
  BY DEF Leads, Deletable, UserMode

\* Steps that leave commands and sweeps alone.
LEMMA ReportStep ==
  ASSUME CleanupInv, SweepsTyped, UNCHANGED <<cmd, sweep>>, linked \subseteq linked',
         ReportsPlanned', ReviewsPlanned'
  PROVE  SweepsTyped' /\ CleanupInv'
<1>1. \A c \in Commands : \A e, p : Leads(c, e, p) => Leads(c, e, p)'
  BY LeadsKept
<1>2. CommandsPlanned'
  BY DEF CleanupInv, CommandsPlanned
<1>3. WorkIsHashed' /\ QuietUntilWork'
  BY <1>1 DEF CleanupInv, WorkIsHashed, QuietUntilWork
<1>4. QED BY <1>2, <1>3 DEF CleanupInv, SweepsTyped

\* A command that is over leaves nothing behind.
LEMMA FinishStep ==
  ASSUME TokenTypeOK, CleanupInv, SweepsTyped, NEW c \in Commands,
         cmd' = [cmd EXCEPT ![c] = NoCommand], Finish(c), UNCHANGED reviewed, ReportsPlanned'
  PROVE  SweepsTyped' /\ CleanupInv'
<1>1. NoSweep \in Sweeps /\ NoSweep.asked = None /\ NoCommand.pc = "idle"
  BY DEF NoSweep, Sweeps, Allowances, NoCommand
<1>2. sweep' = [sweep EXCEPT ![c] = NoSweep] /\ linked' = linked
  BY DEF Finish
<1>3. SweepsTyped'
  BY <1>1, <1>2 DEF SweepsTyped
<1>4. \A d \in Commands \ {c} : cmd'[d] = cmd[d] /\ sweep'[d] = sweep[d]
  BY <1>2 DEF TokenTypeOK, SweepsTyped
<1>5. cmd'[c] = NoCommand /\ sweep'[c] = NoSweep
  BY <1>2 DEF TokenTypeOK, SweepsTyped
<1>6. \A d \in Commands \ {c} : \A e, p : Leads(d, e, p) => Leads(d, e, p)'
  BY <1>2, <1>4, LeadsKept
<1>7. ReviewsPlanned' /\ CommandsPlanned' /\ QuietUntilWork'
  BY <1>1, <1>4, <1>5 DEF CleanupInv, ReviewsPlanned, CommandsPlanned, QuietUntilWork
<1>8. WorkIsHashed'
  BY <1>1, <1>4, <1>5, <1>6 DEF CleanupInv, WorkIsHashed
<1>9. QED BY <1>3, <1>7, <1>8 DEF CleanupInv

LEMMA PlanPreserves ==
  ASSUME TokenTypeOK, CleanupInv, SweepsTyped, NEW k \in Kinds,
         EditReport(k) \/ \E cfg \in Configs \cup {None} : Plan(k, cfg)
  PROVE  SweepsTyped' /\ CleanupInv'
<1>1. /\ WriteReport(k, report'[k]) /\ Planned(k, report'[k])
      /\ UNCHANGED <<sweep, linked>>
  <2>1. CASE \E cfg \in Configs \cup {None} : Plan(k, cfg)
    BY <2>1, PlanWrites DEF Plan
  <2>2. CASE EditReport(k)
    <3>1. Planned(k, report[k])
      BY <2>2 DEF EditReport, CleanupInv, ReportsPlanned
    <3>2. QED BY <2>2, <3>1, EditWrites DEF EditReport
  <2>3. QED BY <2>1, <2>2
<1>2. \A j \in Kinds \ {k} : report'[j] = report[j]
  BY <1>1 DEF WriteReport, TokenTypeOK
<1>3. ReportsPlanned'
  BY <1>1, <1>2 DEF CleanupInv, ReportsPlanned
<1>4. UNCHANGED <<cmd, sweep, linked, reviewed>>
  BY <1>1 DEF WriteReport
<1>5. ReviewsPlanned'
  BY <1>4 DEF CleanupInv, ReviewsPlanned
<1>6. QED BY <1>3, <1>4, <1>5, ReportStep

LEMMA TokenPreserves ==
  ASSUME TokenTypeOK, CleanupInv, SweepsTyped, NEW t \in Tokens, Token(t)
  PROVE  SweepsTyped' /\ CleanupInv'
<1>1. UNCHANGED <<report, cmd, sweep, linked>>
  BY DEF Token, Expire, CreateToken
<1>2. ReportsPlanned'
  BY <1>1 DEF CleanupInv, ReportsPlanned
<1>3. CASE Expire(t)
  BY <1>1, <1>2, <1>3, ReportStep DEF Expire, CleanupInv, ReviewsPlanned
<1>4. ASSUME NEW k \in Kinds, NEW r \in Risks, CreateToken(t, k, r)
      PROVE  SweepsTyped' /\ CleanupInv'
  <2>1. /\ report[k] # None
        /\ reviewed' = [reviewed EXCEPT ![t] = [kind |-> k, risk |-> r, report |-> report[k]]]
    BY <1>4 DEF CreateToken
  <2>2. ReviewsPlanned'
    BY <2>1 DEF CleanupInv, ReportsPlanned, ReviewsPlanned, TokenTypeOK
  <2>3. QED BY <1>1, <1>2, <2>2, ReportStep
<1>5. QED BY <1>3, <1>4 DEF Token

LEMMA ApplyPreserves ==
  ASSUME TokenTypeOK, CleanupInv, SweepsTyped, NEW c \in Commands, NEW t \in Tokens,
         NEW k \in Kinds, NEW allow \in Allowed(k), Apply(c, t, k, allow)
  PROVE  SweepsTyped' /\ CleanupInv'
<1> DEFINE new == [pc |-> "read", token |-> t, kind |-> k, risk |-> RiskOf(k, allow),
                   report |-> report[k]]
           swept == [NoSweep EXCEPT !.allow = allow]
<1>1. /\ cmd' = [cmd EXCEPT ![c] = new] /\ sweep' = [sweep EXCEPT ![c] = swept]
      /\ UNCHANGED <<report, reviewed, linked>> /\ Planned(k, report[k])
  BY DEF Apply, StartApply, CleanupInv, ReportsPlanned
<1>2. allow \in Allowances
  <2>1. {} \in SUBSET Users
    OBVIOUS
  <2>2. allow \in SUBSET Users \/ allow = {"prod"}
    BY <2>1 DEF Allowed
  <2>3. QED BY <2>2 DEF Allowances
<1>3. swept \in Sweeps /\ swept.asked = None /\ swept.allow = allow
  BY <1>2 DEF Sweeps, NoSweep
<1>4. /\ new.pc = "read" /\ new.kind = k /\ new.report = report[k]
      /\ new.risk = RiskOf(k, allow)
  OBVIOUS
<1> HIDE DEF new, swept
<1>5. SweepsTyped'
  BY <1>1, <1>3 DEF SweepsTyped
<1>6. \A d \in Commands \ {c} : cmd'[d] = cmd[d] /\ sweep'[d] = sweep[d]
  BY <1>1 DEF TokenTypeOK, SweepsTyped
<1>7. cmd'[c] = new /\ sweep'[c] = swept
  BY <1>1 DEF TokenTypeOK, SweepsTyped
<1>8. \A d \in Commands \ {c} : \A e, p : Leads(d, e, p) => Leads(d, e, p)'
  BY <1>1, <1>6, LeadsKept
<1>9. ReportsPlanned' /\ ReviewsPlanned'
  BY <1>1 DEF CleanupInv, ReportsPlanned, ReviewsPlanned
<1>10. CommandsPlanned' /\ QuietUntilWork'
  BY <1>1, <1>3, <1>4, <1>6, <1>7 DEF CleanupInv, CommandsPlanned, QuietUntilWork
<1>11. WorkIsHashed'
  BY <1>4, <1>6, <1>7, <1>8 DEF CleanupInv, WorkIsHashed
<1>12. QED BY <1>5, <1>9, <1>10, <1>11 DEF CleanupInv

\* A command that goes on with the same sweep, and is not at work yet.
LEMMA AdvanceStep ==
  ASSUME TokenTypeOK, CleanupInv, SweepsTyped, NEW c \in Commands,
         cmd[c].pc \notin {"idle", "working"}, NEW pc, pc # "working", Step(c, pc),
         UNCHANGED <<report, reviewed, sweep, linked>>
  PROVE  SweepsTyped' /\ CleanupInv'
<1>1. /\ \A d \in Commands \ {c} : cmd'[d] = cmd[d]
      /\ cmd'[c].pc = pc
      /\ cmd'[c].kind = cmd[c].kind
      /\ cmd'[c].risk = cmd[c].risk /\ cmd'[c].report = cmd[c].report
  BY StepFields
<1>2. \A d \in Commands \ {c} : \A e, p : Leads(d, e, p) => Leads(d, e, p)'
  BY <1>1, LeadsKept
<1>3. ReportsPlanned' /\ ReviewsPlanned' /\ SweepsTyped'
  BY DEF CleanupInv, ReportsPlanned, ReviewsPlanned, SweepsTyped
<1>4. CommandsPlanned' /\ QuietUntilWork'
  BY <1>1 DEF CleanupInv, CommandsPlanned, QuietUntilWork
<1>5. WorkIsHashed'
  BY <1>1, <1>2 DEF CleanupInv, WorkIsHashed
<1>6. QED BY <1>3, <1>4, <1>5 DEF CleanupInv

LEMMA ValidatePreserves ==
  ASSUME TokenTypeOK, CleanupInv, SweepsTyped, NEW c \in Commands, Validate(c)
  PROVE  SweepsTyped' /\ CleanupInv'
<1>1. UNCHANGED <<report, reviewed, linked>>
  BY DEF Validate, CheckRecord, MarkUsed, Finish
<1>2. CASE CheckRecord(c) /\ ~RecordHolds(c)
  <2>1. cmd' = [cmd EXCEPT ![c] = NoCommand] /\ cmd'[c] = NoCommand
    BY <1>2 DEF CheckRecord, TokenTypeOK
  <2>2. Finish(c)
    BY <2>1 DEF Validate
  <2>3. ReportsPlanned'
    BY <1>1 DEF CleanupInv, ReportsPlanned
  <2>4. QED BY <1>1, <2>1, <2>2, <2>3, FinishStep
<1>3. CASE (CheckRecord(c) /\ RecordHolds(c)) \/ MarkUsed(c)
  <2>1. PICK pc \in {"checked", "admitted"} : Step(c, pc)
    BY <1>3 DEF CheckRecord, MarkUsed, Step, TokenTypeOK
  <2>2. cmd[c].pc \notin {"idle", "working"}
    BY <1>3 DEF CheckRecord, MarkUsed
  <2>3. cmd'[c].pc = pc
    BY <2>1, <2>2, StepFields
  <2>4. sweep' = sweep
    BY <2>1, <2>3 DEF Validate, NoCommand
  <2>5. QED BY <1>1, <2>1, <2>2, <2>4, AdvanceStep
<1>4. QED BY <1>2, <1>3 DEF Validate

LEMMA BeginPreserves ==
  ASSUME TokenTypeOK, CleanupInv, SweepsTyped, NEW c \in Commands, Begin(c)
  PROVE  SweepsTyped' /\ CleanupInv'
<1> DEFINE left == cmd[c].report.body.candidates
           swept == [sweep[c] EXCEPT !.todo = left]
<1>1. /\ cmd[c].pc = "admitted" /\ Step(c, "working") /\ UNCHANGED <<report, reviewed, linked>>
      /\ cmd[c].report.hash = Digest(cmd[c].report.body)
  BY DEF Begin, Work, Refuses
<1>2. cmd[c].report \in Reports
  BY <1>1, StartedType DEF Started
<1>3. left \in SUBSET Entries
  BY <1>2, CleanupAssumption DEF Reports
<1>4. sweep' = [sweep EXCEPT ![c] = swept]
  BY DEF Begin, SweepsTyped
<1> HIDE DEF left
<1>5. sweep[c] \in Sweeps
  BY DEF SweepsTyped
<1>6. /\ swept \in Sweeps /\ swept.todo = left /\ swept.allow = sweep[c].allow
      /\ swept.asked = sweep[c].asked
  BY <1>3, <1>5 DEF Sweeps
<1> HIDE DEF swept
<1>7. SweepsTyped'
  BY <1>4, <1>6 DEF SweepsTyped
<1>8. /\ \A d \in Commands \ {c} : cmd'[d] = cmd[d]
      /\ cmd'[c].pc = "working"
      /\ cmd'[c].kind = cmd[c].kind
      /\ cmd'[c].risk = cmd[c].risk /\ cmd'[c].report = cmd[c].report
  BY <1>1, StepFields
<1>9. (\A d \in Commands \ {c} : sweep'[d] = sweep[d]) /\ sweep'[c] = swept
  BY <1>4 DEF SweepsTyped
<1>10. \A d \in Commands \ {c} : \A e, p : Leads(d, e, p) => Leads(d, e, p)'
  BY <1>1, <1>8, <1>9, LeadsKept
<1>11. ReportsPlanned' /\ ReviewsPlanned'
  BY <1>1 DEF CleanupInv, ReportsPlanned, ReviewsPlanned
<1>12. CommandsPlanned'
  BY <1>1, <1>6, <1>8, <1>9 DEF CleanupInv, CommandsPlanned
<1>13. QuietUntilWork'
  BY <1>8, <1>9 DEF CleanupInv, QuietUntilWork
<1>14. swept.asked = None
  BY <1>1, <1>6 DEF CleanupInv, QuietUntilWork
<1>15. WorkIsHashed'
  BY <1>1, <1>6, <1>8, <1>9, <1>10, <1>14 DEF CleanupInv, WorkIsHashed, left
<1>16. QED BY <1>7, <1>11, <1>12, <1>13, <1>15 DEF CleanupInv

\* Within the work only the sweep changes: its list shrinks, and the path it
\* has in hand is where a candidate leads.
LEMMA SweepStep ==
  ASSUME TokenTypeOK, CleanupInv, SweepsTyped, NEW c \in Commands, NEW swept \in Sweeps,
         sweep' = [sweep EXCEPT ![c] = swept], UNCHANGED <<report, cmd, reviewed, linked>>,
         cmd[c].pc = "working",
         swept.allow = sweep[c].allow, swept.todo \subseteq sweep[c].todo,
         swept.asked # None =>
            \E e \in cmd[c].report.body.candidates : Leads(c, e, swept.asked)
  PROVE  SweepsTyped' /\ CleanupInv'
<1>1. SweepsTyped'
  BY DEF SweepsTyped
<1>2. (\A d \in Commands \ {c} : sweep'[d] = sweep[d]) /\ sweep'[c] = swept
  BY DEF SweepsTyped
<1>3. \A d \in Commands : \A e, p : Leads(d, e, p) => Leads(d, e, p)'
  <2> TAKE d \in Commands
  <2>1. sweep'[d].allow = sweep[d].allow
    BY <1>2
  <2>2. QED BY <2>1, LeadsKept
<1>4. ReportsPlanned' /\ ReviewsPlanned'
  BY DEF CleanupInv, ReportsPlanned, ReviewsPlanned
<1>5. CommandsPlanned' /\ QuietUntilWork'
  BY <1>2 DEF CleanupInv, CommandsPlanned, QuietUntilWork
<1>6. WorkIsHashed'
  BY <1>2, <1>3 DEF CleanupInv, WorkIsHashed
<1>7. QED BY <1>1, <1>4, <1>5, <1>6 DEF CleanupInv

LEMMA CandidatePreserves ==
  ASSUME TokenTypeOK, CleanupInv, SweepsTyped, LinksKnown, NEW c \in Commands,
         PassOver(c) \/ \E e \in Entries : Skip(c, e) \/ Take(c, e) \/ Remove(c, e)
  PROVE  SweepsTyped' /\ CleanupInv'
<1>1. /\ sweep[c] \in Sweeps /\ cmd[c].pc = "working"
      /\ UNCHANGED <<report, cmd, reviewed, linked>>
  BY DEF SweepsTyped, Skip, Take, NextCandidate, Remove, Removes, PassOver
<1>2. ASSUME NEW e \in Entries, Skip(c, e)
      PROVE  SweepsTyped' /\ CleanupInv'
  <2> DEFINE swept == [sweep[c] EXCEPT !.todo = @ \ {e}]
  <2>1. /\ swept \in Sweeps /\ swept.allow = sweep[c].allow /\ swept.asked = sweep[c].asked
        /\ swept.todo = sweep[c].todo \ {e}
    BY <1>1 DEF Sweeps
  <2>2. sweep' = [sweep EXCEPT ![c] = swept] /\ sweep[c].asked = None
    BY <1>2 DEF SweepsTyped, Skip, NextCandidate
  <2> HIDE DEF swept
  <2>3. QED BY <1>1, <2>1, <2>2, SweepStep
<1>3. ASSUME NEW e \in Entries, Take(c, e)
      PROVE  SweepsTyped' /\ CleanupInv'
  <2> DEFINE swept == [sweep[c] EXCEPT !.todo = @ \ {e}, !.asked = Path(c, e)]
             blind == [sweep[c] EXCEPT !.todo = @ \ {e}, !.asked = Path(c, e), !.blind = TRUE]
  <2>1. Path(c, e) \in Entries
    BY DEF Path, Resolve, LinksKnown
  <2>2. /\ swept \in Sweeps /\ swept.allow = sweep[c].allow /\ swept.asked = Path(c, e)
        /\ swept.todo = sweep[c].todo \ {e}
        /\ blind \in Sweeps /\ blind.allow = sweep[c].allow /\ blind.asked = Path(c, e)
        /\ blind.todo = sweep[c].todo \ {e}
    BY <1>1, <2>1 DEF Sweeps
  <2>3. \/ sweep' = [sweep EXCEPT ![c] = swept]
        \/ sweep' = [sweep EXCEPT ![c] = blind]
    BY <1>3 DEF SweepsTyped, Take, Chosen
  <2>4. e \in cmd[c].report.body.candidates
    BY <1>1, <1>3 DEF Take, NextCandidate, CleanupInv, WorkIsHashed
  <2>5. Leads(c, e, Path(c, e))
    BY <1>3 DEF Leads, Take, Path, Resolve, LinksKnown
  <2> HIDE DEF swept, blind
  <2>6. QED BY <1>1, <2>2, <2>3, <2>4, <2>5, SweepStep
<1>4. CASE PassOver(c) \/ \E e \in Entries : Remove(c, e)
  <2> DEFINE swept == [sweep[c] EXCEPT !.asked = None, !.blind = FALSE]
  <2>1. /\ swept \in Sweeps /\ swept.allow = sweep[c].allow /\ swept.asked = None
        /\ swept.todo = sweep[c].todo
    BY <1>1 DEF Sweeps
  <2>2. sweep' = [sweep EXCEPT ![c] = swept]
    BY <1>4 DEF SweepsTyped, PassOver, Remove, Turns
  <2> HIDE DEF swept
  <2>3. QED BY <1>1, <2>1, <2>2, SweepStep
<1>5. QED BY <1>2, <1>3, <1>4

LEMMA EndPreserves ==
  ASSUME TokenTypeOK, CleanupInv, SweepsTyped, NEW c \in Commands,
         \/ Refuse(c) \/ Done(c) \/ Die(c)
         \/ \E e \in Entries : RemoveFails(c, e)
  PROVE  SweepsTyped' /\ CleanupInv'
<1>1. /\ cmd' = [cmd EXCEPT ![c] = NoCommand] /\ cmd[c].pc # "idle"
      /\ Finish(c) /\ UNCHANGED reviewed
      /\ report' \in {report, [report EXCEPT ![cmd[c].kind] = cmd[c].report]}
  BY DEF Refuse, Done, Die, RemoveFails, EndApply, Crash
<1>2. Planned(cmd[c].kind, cmd[c].report)
  BY <1>1 DEF CleanupInv, CommandsPlanned
<1>3. ReportsPlanned'
  BY <1>1, <1>2 DEF CleanupInv, ReportsPlanned, TokenTypeOK
<1>4. QED BY <1>1, <1>3, FinishStep

LEMMA NextLinks == ASSUME LinksKnown, [Next]_vars PROVE LinksKnown' /\ linked \subseteq linked'
<1>1. CASE UNCHANGED <<link, linked>>
  BY <1>1 DEF LinksKnown
<1>2. ASSUME NEW e \in Entries, Touch(e)
      PROVE  LinksKnown' /\ linked \subseteq linked'
  BY <1>2 DEF LinksKnown, Touch
<1>3. ASSUME NEW e \in Entries, NEW t \in Entries, Relink(e, t)
      PROVE  LinksKnown' /\ linked \subseteq linked'
  BY <1>3 DEF LinksKnown, Relink
<1>4. ASSUME \/ \E k \in Kinds : EditReport(k) \/ \E cfg \in Configs \cup {None} : Plan(k, cfg)
             \/ \E t \in Tokens : Token(t)
             \/ \E c \in Commands :
                 \/ \E t \in Tokens, k \in Kinds : \E allow \in Allowed(k) : Apply(c, t, k, allow)
                 \/ Validate(c) \/ Begin(c) \/ Refuse(c) \/ PassOver(c) \/ Done(c) \/ Die(c)
                 \/ \E e \in Entries : Skip(c, e) \/ Take(c, e) \/ Remove(c, e) \/ RemoveFails(c, e)
             \/ \E u \in Users : StartJob(u) \/ EndJob(u)
             \/ GrowOld \/ UNCHANGED vars
      PROVE  UNCHANGED <<link, linked>>
  BY <1>4 DEF Plan, EditReport, Token, Apply, Validate, Begin, Refuse, PassOver, Done, Die, Skip,
              Take, Remove, RemoveFails, StartJob, EndJob, GrowOld, Finish, vars
<1>5. QED BY <1>1, <1>2, <1>3, <1>4 DEF Next

LEMMA NextCleanup ==
  ASSUME TokenTypeOK, CleanupInv, SweepsTyped, LinksKnown, [Next]_vars
  PROVE  SweepsTyped' /\ CleanupInv'
<1>1. CASE UNCHANGED <<report, cmd, reviewed, sweep>>
  BY <1>1, NextLinks, ReportStep DEF CleanupInv, ReportsPlanned, ReviewsPlanned
<1>2. ASSUME \/ \E u \in Users : StartJob(u) \/ EndJob(u)
             \/ \E e \in Entries : Touch(e) \/ \E t \in Entries : Relink(e, t)
             \/ GrowOld
             \/ UNCHANGED vars
      PROVE  UNCHANGED <<report, cmd, reviewed, sweep>>
  BY <1>2 DEF StartJob, EndJob, Touch, Relink, GrowOld, vars
<1>3. QED
  BY <1>1, <1>2, PlanPreserves, TokenPreserves, ApplyPreserves, ValidatePreserves,
     BeginPreserves, CandidatePreserves, EndPreserves DEF Next

LEMMA Invariant == Spec => [](TokenInv /\ SweepsTyped /\ CleanupInv /\ LinksKnown)
<1>1. TokenInv /\ SweepsTyped /\ CleanupInv /\ LinksKnown /\ [Next]_vars
        => (TokenInv /\ SweepsTyped /\ CleanupInv /\ LinksKnown)'
  <2> SUFFICES ASSUME TokenInv, SweepsTyped, CleanupInv, LinksKnown, [Next]_vars
               PROVE  TokenInv' /\ SweepsTyped' /\ CleanupInv' /\ LinksKnown'
    OBVIOUS
  <2>1. TokenTypeOK /\ ReportsPlanned
    BY DEF TokenInv, CleanupInv
  <2>2. QED BY <2>1, TokenStep, TokenNextInv, NextCleanup, NextLinks
<1>2. Init => LinksKnown
  BY DEF Init, LinksKnown
<1>3. QED BY <1>1, <1>2, InitCleanup, PTL DEF Spec
-----------------------------------------------------------------------------
(***************************************************************************)
(* Theorems.                                                               *)
(***************************************************************************)

\* ssn-scratch-cleanup and ssn-retention-cleanup use their tokens as PlanTokens
\* says (validate_plan_token before the apply, report file after it), so that
\* all that is proved of PlanTokens holds of them.
THEOREM CleanupKeepsProtocol == Spec => KeepsTokenProtocol
<1>1. Init => TokenInit
  BY DEF Init
<1>2. (TokenInv /\ SweepsTyped /\ CleanupInv) /\ [Next]_vars => [TokenNext]_tokenVars
  BY TokenStep DEF TokenInv, CleanupInv
<1>3. QED BY <1>1, <1>2, Invariant, PTL DEF Spec, KeepsTokenProtocol, TokenSpec

\* One review lets one cleanup run, unless the checks of two commands crossed.
THEOREM CleanupTokensAreSingleUse == Spec => []SingleUse
  BY CleanupKeepsProtocol, TokensAreSingleUse, PTL DEF KeepsTokenProtocol

\* A cleanup that is let run is the one that was reviewed.
THEOREM CleanupsAreReviewed == Spec => []AdmittedAsReviewed
  BY CleanupKeepsProtocol, OperationsAreReviewed, PTL DEF KeepsTokenProtocol

\* The right-hand side of DeletedWasReviewed, for one path and command.
ReviewedDeletion(c, p) ==
    LET rev == reviewed[cmd[c].token] IN
    /\ cmd[c].pc = "working"
    /\ \E e \in rev.report.body.candidates :
        CASE rev.risk = "scratch_cleanup" ->
                /\ p = e \/ <<e, p>> \in linked
                /\ Place[p] = "user" /\ Owner[p] = Owner[e]
          [] rev.risk = "fixture_scratch_cleanup" ->
                (p = e \/ <<e, p>> \in linked) /\ p \in Fixtures
          [] OTHER -> p = e /\ Place[p] \in {"prod", "test"}

LEMMA RemoveIsReviewed ==
  ASSUME TokenInv, CleanupInv, NEW c \in Commands, NEW p \in Entries, Remove(c, p)
  PROVE  ReviewedDeletion(c, p)
<1> DEFINE rev == reviewed[cmd[c].token]
           rep == cmd[c].report
<1>1. cmd[c].pc = "working" /\ sweep[c].asked = p /\ p # None
  BY EntriesAssumption DEF Remove, Removes
<1>2. cmd[c].token \in Tokens /\ cmd[c].kind \in Kinds /\ rep \in Reports
  BY <1>1, StartedType DEF TokenInv, Started
<1>3. rev # None /\ rev.kind = cmd[c].kind /\ rev.risk = cmd[c].risk /\ rev.report.hash = rep.hash
  BY <1>1, InvReviewed DEF AdmittedAsReviewed
<1>4. PICK e \in rep.body.candidates : Leads(c, e, p)
  BY <1>1 DEF CleanupInv, WorkIsHashed
<1>5. rep.hash.candidates = rep.body.candidates
  BY <1>1, <1>2, DigestType DEF CleanupInv, WorkIsHashed, Reports
<1>6. rev.report.hash.candidates \subseteq rev.report.body.candidates
  BY <1>2, <1>3 DEF CleanupInv, ReviewsPlanned, Planned
<1>7. e \in rev.report.body.candidates
  BY <1>3, <1>4, <1>5, <1>6
<1>8. cmd[c].risk = RiskOf(cmd[c].kind, sweep[c].allow)
      /\ (cmd[c].kind = "retention" => rep.body.root \in {"prod", "test"})
  BY <1>1 DEF CleanupInv, CommandsPlanned, Planned
<1>9. cmd[c].kind \in {"scratch", "retention"}
  BY <1>2, CleanupAssumption
<1>10. /\ cmd[c].risk = "scratch_cleanup" =>
            /\ p = e \/ <<e, p>> \in linked
            /\ Place[p] = "user" /\ Owner[p] = Owner[e]
       /\ cmd[c].risk = "fixture_scratch_cleanup" =>
            (p = e \/ <<e, p>> \in linked) /\ p \in Fixtures
       /\ cmd[c].risk \notin {"scratch_cleanup", "fixture_scratch_cleanup"} =>
            p = e /\ Place[p] \in {"prod", "test"}
  BY <1>4, <1>8, <1>9 DEF Leads, Deletable, UserMode, RiskOf
<1>11. QED BY <1>1, <1>3, <1>7, <1>10 DEF ReviewedDeletion

LEMMA OnlyRemoveDeletes ==
  ASSUME [Next]_vars, NEW e \in Entries, age[e] # "gone", age'[e] = "gone",
         age \in [Entries -> {"gone", "fresh", "old"}]
  PROVE  \E c \in Commands : Remove(c, e)
<1>1. CASE UNCHANGED age
  BY <1>1
<1>2. CASE \E x \in Entries : Touch(x) \/ \E t \in Entries : Relink(x, t)
  BY <1>2 DEF Touch, Relink
<1>3. CASE GrowOld
  BY <1>3 DEF GrowOld
<1>4. CASE \E c \in Commands, x \in Entries : Remove(c, x)
  BY <1>4 DEF Remove
<1>5. ASSUME \/ \E k \in Kinds : EditReport(k) \/ \E cfg \in Configs \cup {None} : Plan(k, cfg)
             \/ \E t \in Tokens : Token(t)
             \/ \E c \in Commands :
                 \/ \E t \in Tokens, k \in Kinds : \E allow \in Allowed(k) : Apply(c, t, k, allow)
                 \/ Validate(c) \/ Begin(c) \/ Refuse(c) \/ PassOver(c) \/ Done(c) \/ Die(c)
                 \/ \E x \in Entries : Skip(c, x) \/ Take(c, x) \/ RemoveFails(c, x)
             \/ \E u \in Users : StartJob(u) \/ EndJob(u)
             \/ UNCHANGED vars
      PROVE  UNCHANGED age
  BY <1>5 DEF Plan, EditReport, Token, Apply, Validate, Begin, Refuse, PassOver, Done, Die, Skip,
              Take, RemoveFails, StartJob, EndJob, Finish, vars
<1>6. QED BY <1>1, <1>2, <1>3, <1>4, <1>5 DEF Next

AgeTyped == age \in [Entries -> {"gone", "fresh", "old"}]

LEMMA NextAge == ASSUME AgeTyped, [Next]_vars PROVE AgeTyped'
<1>1. CASE UNCHANGED age
  BY <1>1 DEF AgeTyped
<1>2. CASE \/ \E e \in Entries : \/ Touch(e) \/ \E t \in Entries : Relink(e, t)
                                 \/ \E c \in Commands : Remove(c, e)
           \/ GrowOld
  BY <1>2 DEF AgeTyped, Touch, Relink, GrowOld, Remove
<1>3. ASSUME \/ \E k \in Kinds : EditReport(k) \/ \E cfg \in Configs \cup {None} : Plan(k, cfg)
             \/ \E t \in Tokens : Token(t)
             \/ \E c \in Commands :
                 \/ \E t \in Tokens, k \in Kinds : \E allow \in Allowed(k) : Apply(c, t, k, allow)
                 \/ Validate(c) \/ Begin(c) \/ Refuse(c) \/ PassOver(c) \/ Done(c) \/ Die(c)
                 \/ \E x \in Entries : Skip(c, x) \/ Take(c, x) \/ RemoveFails(c, x)
             \/ \E u \in Users : StartJob(u) \/ EndJob(u)
             \/ UNCHANGED vars
      PROVE  UNCHANGED age
  BY <1>3 DEF Plan, EditReport, Token, Apply, Validate, Begin, Refuse, PassOver, Done, Die, Skip,
              Take, RemoveFails, StartJob, EndJob, Finish, vars
<1>4. QED BY <1>1, <1>2, <1>3 DEF Next

\* The jobs that the history remembers are running, and a queue that answered
\* "no active job" has answered for none of them.
SteadyIsBusy ==
    /\ steady \in [Commands -> SUBSET Users] /\ busy \subseteq Users
    /\ \A c \in Commands : steady[c] \subseteq busy

AnsweredIsIdle ==
    \A c \in Commands :
        LET p == sweep[c].asked IN
        p # None /\ ~sweep[c].blind /\ Place[p] = "user" => Owner[p] \notin steady[c]

LEMMA NextSteady == ASSUME SteadyIsBusy, SweepsTyped, [Next]_vars PROVE SteadyIsBusy'
<1> USE DEF SteadyIsBusy
<1>1. CASE UNCHANGED <<busy, steady>>
  BY <1>1
<1>2. ASSUME NEW c \in Commands, Finish(c)
      PROVE  SteadyIsBusy'
  BY <1>2 DEF Finish
<1>3. ASSUME NEW c \in Commands, NEW t, NEW k, NEW allow, Apply(c, t, k, allow)
      PROVE  SteadyIsBusy'
  BY <1>3 DEF Apply
<1>4. ASSUME NEW u \in Users, StartJob(u)
      PROVE  SteadyIsBusy'
  BY <1>4 DEF StartJob
<1>5. ASSUME NEW u \in Users, EndJob(u)
      PROVE  SteadyIsBusy'
  BY <1>5 DEF EndJob
<1>6. ASSUME \/ \E k \in Kinds : EditReport(k) \/ \E cfg \in Configs \cup {None} : Plan(k, cfg)
             \/ \E t \in Tokens : Token(t)
             \/ \E c \in Commands :
                 \/ Begin(c) \/ PassOver(c)
                 \/ \E e \in Entries : Skip(c, e) \/ Take(c, e) \/ Remove(c, e)
             \/ \E e \in Entries : Touch(e) \/ \E t \in Entries : Relink(e, t)
             \/ GrowOld \/ UNCHANGED vars
      PROVE  UNCHANGED <<busy, steady>>
  BY <1>6 DEF Plan, EditReport, Token, Begin, PassOver, Skip, Take, Remove, Touch, Relink,
              GrowOld, vars
<1>7. ASSUME NEW c \in Commands,
             \/ Validate(c) \/ Refuse(c) \/ Done(c) \/ Die(c)
             \/ \E e \in Entries : RemoveFails(c, e)
      PROVE  Finish(c) \/ UNCHANGED <<busy, steady>>
  BY <1>7 DEF Validate, Refuse, Done, Die, RemoveFails
<1>8. QED
  BY <1>1, <1>2, <1>3, <1>4, <1>5, <1>6, <1>7 DEF Next

\* The modes that ask nobody delete nothing in a user's cache and tmp.
LEMMA UnaskedElsewhere ==
  ASSUME TokenTypeOK, CleanupInv, NEW c \in Commands, cmd[c].pc = "working", ~UserMode(c),
         NEW e \in Entries, NEW p, Deletable(c, e, p)
  PROVE  Place[p] # "user"
<1>1. cmd[c].kind = "retention" => cmd[c].report.body.root \in {"prod", "test"}
  BY DEF CleanupInv, CommandsPlanned, Planned
<1>2. QED BY <1>1 DEF Deletable

LEMMA NextAnswered ==
  ASSUME TokenTypeOK, CleanupInv, LinksKnown, SteadyIsBusy, AnsweredIsIdle, SweepsTyped,
         [Next]_vars
  PROVE  AnsweredIsIdle'
<1> USE DEF AnsweredIsIdle, SteadyIsBusy, SweepsTyped
<1>1. CASE UNCHANGED <<sweep, steady>>
  BY <1>1
<1>2. ASSUME NEW c \in Commands, Finish(c)
      PROVE  AnsweredIsIdle'
  BY <1>2 DEF Finish, NoSweep
<1>3. ASSUME NEW c \in Commands, NEW t, NEW k, NEW allow, Apply(c, t, k, allow)
      PROVE  AnsweredIsIdle'
  BY <1>3 DEF Apply, NoSweep
<1>4. ASSUME NEW u \in Users, EndJob(u)
      PROVE  AnsweredIsIdle'
  BY <1>4 DEF EndJob
<1>5. ASSUME NEW c \in Commands, Begin(c)
      PROVE  AnsweredIsIdle'
  BY <1>5 DEF Begin, Sweeps
<1>6. ASSUME NEW c \in Commands, NEW e \in Entries, Skip(c, e)
      PROVE  AnsweredIsIdle'
  BY <1>6 DEF Skip, NextCandidate, Sweeps
<1>7. ASSUME NEW c \in Commands, NEW e \in Entries, Take(c, e)
      PROVE  AnsweredIsIdle'
  <2> DEFINE p == Path(c, e)
  <2>1. /\ sweep[c] \in Sweeps /\ steady' = steady /\ cmd[c].pc = "working"
        /\ Deletable(c, e, p)
    BY <1>7 DEF Take, NextCandidate
  <2>2. CASE /\ sweep' = [sweep EXCEPT ![c].todo = @ \ {e}, ![c].asked = p]
             /\ UserMode(c) => Owner[e] \notin busy
    <3> HIDE DEF p
    <3>1. Place[p] = "user" => Owner[p] \notin steady[c]
      <4>1. CASE UserMode(c)
        BY <2>1, <2>2, <4>1 DEF Deletable, UserMode
      <4>2. CASE ~UserMode(c)
        BY <2>1, <4>2, UnaskedElsewhere
      <4>3. QED BY <4>1, <4>2
    <3>2. QED BY <2>1, <2>2, <3>1 DEF Sweeps
  <2>3. CASE sweep' = [sweep EXCEPT ![c].todo = @ \ {e}, ![c].asked = p, ![c].blind = TRUE]
    <3> HIDE DEF p
    <3>1. QED BY <2>1, <2>3 DEF Sweeps
  <2>4. QED BY <1>7, <2>2, <2>3 DEF Take, Chosen
<1>8. ASSUME NEW c \in Commands, PassOver(c) \/ \E e \in Entries : Remove(c, e)
      PROVE  AnsweredIsIdle'
  BY <1>8 DEF PassOver, Remove, Turns, Sweeps
<1>9. ASSUME \/ \E k \in Kinds : EditReport(k) \/ \E cfg \in Configs \cup {None} : Plan(k, cfg)
             \/ \E t \in Tokens : Token(t)
             \/ \E u \in Users : StartJob(u)
             \/ \E e \in Entries : Touch(e) \/ \E t \in Entries : Relink(e, t)
             \/ GrowOld \/ UNCHANGED vars
      PROVE  UNCHANGED <<sweep, steady>>
  BY <1>9 DEF Plan, EditReport, Token, StartJob, Touch, Relink, GrowOld, vars
<1>10. ASSUME NEW c \in Commands,
             \/ Validate(c) \/ Refuse(c) \/ Done(c) \/ Die(c)
             \/ \E e \in Entries : RemoveFails(c, e)
      PROVE  Finish(c) \/ UNCHANGED <<sweep, steady>>
  BY <1>10 DEF Validate, Refuse, Done, Die, RemoveFails
<1>11. QED
  BY <1>1, <1>2, <1>3, <1>4, <1>5, <1>6, <1>7, <1>8, <1>9, <1>10 DEF Next

\* The only deletion is that of the path in hand, which the sweep then drops.
LEMMA RemoveTurns ==
  ASSUME TokenTypeOK, SweepsTyped, NEW c \in Commands, NEW p \in Entries, Remove(c, p),
         NEW d \in Commands, sweep'[d] # sweep[d]
  PROVE  d = c
  BY DEF Remove, Turns, SweepsTyped

\* The per-candidate squeue of apply_user_scratch_cleanup protects the cache and
\* tmp of every user whose job was active when the cleanup began, unless squeue
\* failed, and the modes that do not call it delete nothing there.
THEOREM JobsKeepFiles == Spec => SteadyJobsKeepFiles
<1>1. Init => SteadyIsBusy /\ AnsweredIsIdle /\ AgeTyped
  BY DEF Init, SteadyIsBusy, AnsweredIsIdle, NoSweep, AgeTyped
<1>2. (SteadyIsBusy /\ AnsweredIsIdle /\ AgeTyped)
        /\ (TokenInv /\ SweepsTyped /\ CleanupInv /\ LinksKnown) /\ [Next]_vars
        => (SteadyIsBusy /\ AnsweredIsIdle /\ AgeTyped)'
  BY NextSteady, NextAnswered, NextAge DEF TokenInv
<1>3. (SteadyIsBusy /\ AnsweredIsIdle /\ AgeTyped)
        /\ (TokenInv /\ SweepsTyped /\ CleanupInv /\ LinksKnown) /\ [Next]_vars =>
        [\A c \in Commands, p \in Entries :
            /\ Place[p] = "user" /\ age[p] # "gone" /\ age'[p] = "gone"
            /\ sweep'[c] # sweep[c] /\ ~sweep[c].blind
            => Owner[p] \notin steady[c]]_vars
  <2> SUFFICES ASSUME AnsweredIsIdle, AgeTyped, TokenInv, SweepsTyped, [Next]_vars,
                      NEW c \in Commands, NEW p \in Entries, Place[p] = "user",
                      age[p] # "gone", age'[p] = "gone",
                      sweep'[c] # sweep[c], ~sweep[c].blind
               PROVE  Owner[p] \notin steady[c]
    OBVIOUS
  <2>1. PICK d \in Commands : Remove(d, p)
    BY OnlyRemoveDeletes DEF AgeTyped
  <2>2. d = c
    BY <2>1, RemoveTurns DEF TokenInv
  <2>3. sweep[c].asked = p /\ p # None
    BY <2>1, <2>2, EntriesAssumption DEF Remove, Removes
  <2>4. QED BY <2>3 DEF AnsweredIsIdle
<1>4. Spec => [](SteadyIsBusy /\ AnsweredIsIdle /\ AgeTyped)
  BY <1>1, <1>2, Invariant, PTL DEF Spec
<1>5. QED BY <1>3, <1>4, Invariant, PTL DEF Spec, SteadyJobsKeepFiles

\* Whatever the apply functions delete was in the report somebody made the token
\* for, or, in the scratch modes, is what a symbolic link in the place of such a
\* candidate has led to, and lies where the token's risk allows, in the latter
\* case beside the candidate: for every number of commands, plans, edits, links
\* and crashes.
THEOREM DeletionsAreReviewed == Spec => DeletedWasReviewed
<1>1. AgeTyped /\ TokenInv /\ SweepsTyped /\ CleanupInv /\ [Next]_vars =>
        [\A p \in Entries : age[p] # "gone" /\ age'[p] = "gone" =>
           \E c \in Commands : ReviewedDeletion(c, p)]_vars
  <2> SUFFICES ASSUME AgeTyped, TokenInv, CleanupInv, [Next]_vars,
                      NEW p \in Entries, age[p] # "gone", age'[p] = "gone"
               PROVE  \E c \in Commands : ReviewedDeletion(c, p)
    OBVIOUS
  <2>1. PICK c \in Commands : Remove(c, p)
    BY OnlyRemoveDeletes DEF AgeTyped
  <2>2. QED BY <2>1, RemoveIsReviewed
<1>2. Init => AgeTyped
  BY DEF Init, AgeTyped
<1>3. Spec => []AgeTyped
  BY <1>2, NextAge, PTL DEF Spec
<1>4. QED BY <1>1, <1>3, Invariant, PTL DEF Spec, DeletedWasReviewed, ReviewedDeletion

\* The bounds are only ever counted up to.
LEMMA NextCounts ==
  ASSUME [Next]_vars
  PROVE  (events' = events \/ Event) /\ (faults' = faults \/ Fault)
<1>1. ASSUME \/ \E k \in Kinds : EditReport(k) \/ \E cfg \in Configs \cup {None} : Plan(k, cfg)
             \/ \E t \in Tokens : Token(t)
             \/ \E u \in Users : StartJob(u) \/ EndJob(u)
             \/ \E e \in Entries : Touch(e) \/ \E t \in Entries : Relink(e, t)
             \/ GrowOld \/ UNCHANGED vars
      PROVE  (events' = events \/ Event) /\ faults' = faults
  BY <1>1 DEF Plan, EditReport, Token, StartJob, EndJob, Touch, Relink, GrowOld, vars
<1>2. ASSUME NEW c \in Commands,
             \/ \E t \in Tokens, k \in Kinds : \E allow \in Allowed(k) : Apply(c, t, k, allow)
             \/ Validate(c) \/ Begin(c) \/ Refuse(c) \/ PassOver(c) \/ Done(c) \/ Die(c)
             \/ \E e \in Entries : Skip(c, e) \/ Take(c, e) \/ Remove(c, e) \/ RemoveFails(c, e)
      PROVE  events' = events /\ (faults' = faults \/ Fault)
  BY <1>2 DEF Apply, Validate, Begin, Refuse, PassOver, Done, Die, Skip, Take, Remove, RemoveFails,
              Finish
<1>3. QED BY <1>1, <1>2 DEF Next

CountsTyped == events \in 0..MaxEvents /\ faults \in 0..MaxFaults

LEMMA NextCountsTyped == ASSUME CountsTyped, [Next]_vars PROVE CountsTyped'
  BY NextCounts, EntriesAssumption DEF CountsTyped, Event, Fault

\* Every variable keeps to its type: no command can leave a report, a record or
\* a sweep that the others cannot read.
THEOREM CleanupTypeCorrect == Spec => []TypeOK
<1>1. Init => AgeTyped /\ SteadyIsBusy /\ CountsTyped
  BY EntriesAssumption DEF Init, AgeTyped, SteadyIsBusy, CountsTyped
<1>2. (AgeTyped /\ SteadyIsBusy /\ CountsTyped) /\ SweepsTyped /\ [Next]_vars
        => (AgeTyped /\ SteadyIsBusy /\ CountsTyped)'
  BY NextAge, NextSteady, NextCountsTyped
<1>3. TokenInv /\ SweepsTyped /\ LinksKnown /\ AgeTyped /\ SteadyIsBusy /\ CountsTyped => TypeOK
  BY DEF TokenInv, SweepsTyped, Sweeps, LinksKnown, AgeTyped, SteadyIsBusy, CountsTyped, TypeOK
<1>4. QED BY <1>1, <1>2, <1>3, Invariant, PTL DEF Spec
=============================================================================
