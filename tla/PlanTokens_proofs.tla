-------------------------- MODULE PlanTokens_proofs --------------------------
(***************************************************************************)
(* Theorems about PlanTokens for every set of tokens, commands, reports,   *)
(* risks and profiles, and every number of crashes.                        *)
(***************************************************************************)
EXTENDS PlanTokens, TLAPS

\* Once a command is on its way it has a token, an operation and a report.
Started == [pc : Applying \cup {"working"}, token : Tokens, kind : Kinds, risk : Risks,
            report : Reports]

LEMMA StartedType ==
  ASSUME TokenTypeOK, NEW c \in Commands, cmd[c].pc # "idle"
  PROVE  cmd[c] \in Started
  BY DEF TokenTypeOK, CommandStates, NoCommand, Started

LEMMA InputType ==
  ASSUME NEW k \in Kinds, NEW rep \in Reports, NEW r \in Risks
  PROVE  InputOf(k, rep, r) \in Inputs
  BY DEF InputOf, Inputs, Reports

\* A command that moves on, or ends, is in one of its states.
LEMMA StepType ==
  ASSUME TokenTypeOK, NEW c \in Commands, cmd[c].pc # "idle",
         NEW pc \in Applying \cup {"working"}, Step(c, pc)
  PROVE  cmd' \in [Commands -> CommandStates]
<1>1. cmd[c] \in Started
  BY StartedType
<1> DEFINE next == [cmd[c] EXCEPT !.pc = pc]
<1>2. next \in CommandStates
  BY <1>1 DEF Started, CommandStates
<1>3. cmd' = [cmd EXCEPT ![c] = next]
  BY DEF Step, TokenTypeOK
<1> HIDE DEF next
<1>4. QED BY <1>2, <1>3 DEF TokenTypeOK

LEMMA EndType ==
  ASSUME TokenTypeOK, NEW c \in Commands, cmd' = [cmd EXCEPT ![c] = NoCommand]
  PROVE  cmd' \in [Commands -> CommandStates]
<1>1. NoCommand \in CommandStates
  BY DEF CommandStates
<1>2. QED BY <1>1 DEF TokenTypeOK

\* Setting one field of a record that is there.
LEMMA RecordStateType ==
  ASSUME TokenTypeOK, NEW t \in Tokens, store[t] # None,
         NEW state \in {"unused", "used", "torn"},
         store' = [store EXCEPT ![t].state = state]
  PROVE  store' \in [Tokens -> Records \cup {None}]
<1>1. store[t] \in Records
  BY DEF TokenTypeOK
<1> DEFINE rec == [store[t] EXCEPT !.state = state]
<1>2. rec \in Records
  BY <1>1 DEF Records
<1>3. store' = [store EXCEPT ![t] = rec]
  BY DEF TokenTypeOK
<1> HIDE DEF rec
<1>4. QED BY <1>2, <1>3 DEF TokenTypeOK
-----------------------------------------------------------------------------
(***************************************************************************)
(* A token whose checks have not crossed is spent once: it is with one     *)
(* command between check and mark, and then its record is one that nobody  *)
(* has used.                                                               *)
(***************************************************************************)
SpentIsRecorded ==
    \A t \in Tokens \ crossed :
        \/ uses[t] = 0
        \/ uses[t] = 1 /\ store[t] # None /\ store[t].state # "unused"

HasToken == \A c \in Commands : cmd[c].pc # "idle" => store[cmd[c].token] # None

CrossedIsKnown ==
    \A c, d \in Commands :
        c # d /\ cmd[c].pc = "checked" /\ cmd[d].pc = "checked" /\ cmd[c].token = cmd[d].token
        => cmd[c].token \in crossed

CheckedIsUnused ==
    \A c \in Commands : cmd[c].pc = "checked" =>
        store[cmd[c].token].state = "unused" \/ cmd[c].token \in crossed

\* What a record is about, and what the command that has checked it is about.
RecordsReviewed ==
    \A t \in Tokens : store[t] # None =>
        /\ reviewed[t] # None
        /\ store[t].input = InputOf(reviewed[t].kind, reviewed[t].report, reviewed[t].risk)

CheckedAgrees ==
    \A c \in Commands : cmd[c].pc \in {"checked", "admitted", "working"} =>
        store[cmd[c].token].input = InputOf(cmd[c].kind, cmd[c].report, cmd[c].risk)

TokenInv ==
    /\ TokenTypeOK
    /\ SpentIsRecorded
    /\ HasToken
    /\ CrossedIsKnown
    /\ CheckedIsUnused
    /\ RecordsReviewed
    /\ CheckedAgrees

LEMMA TokenInitInv == TokenInit => TokenInv
<1> SUFFICES ASSUME TokenInit PROVE TokenInv
  OBVIOUS
<1>1. TokenTypeOK
  BY CrashesAssumption DEF TokenInit, TokenTypeOK, CommandStates
<1>2. QED
  BY <1>1 DEF TokenInit, TokenInv, SpentIsRecorded, HasToken, CrossedIsKnown, CheckedIsUnused,
              RecordsReviewed, CheckedAgrees, NoCommand
-----------------------------------------------------------------------------
LEMMA WriteReportInv ==
  ASSUME TokenInv, NEW k \in Kinds, report'[k] \in Reports, WriteReport(k, report'[k])
  PROVE  TokenInv'
<1>1. TokenTypeOK'
  BY DEF TokenInv, TokenTypeOK, WriteReport
<1>2. QED
  BY <1>1 DEF TokenInv, WriteReport, SpentIsRecorded, HasToken, CrossedIsKnown, CheckedIsUnused,
              RecordsReviewed, CheckedAgrees

LEMMA CreateTokenInv ==
  ASSUME TokenInv, NEW t \in Tokens, NEW k \in Kinds, NEW r \in Risks, CreateToken(t, k, r)
  PROVE  TokenInv'
<1> DEFINE input == InputOf(k, report[k], r)
           rev == [kind |-> k, risk |-> r, report |-> report[k]]
<1> USE DEF TokenInv
<1>1. store[t] = None /\ report[k] \in Reports
  BY DEF CreateToken, TokenTypeOK
<1>2. PICK state \in {"unused", "torn"} :
        store' = [store EXCEPT ![t] = [input |-> input, state |-> state, expired |-> FALSE]]
  BY DEF CreateToken
<1>3. reviewed' = [reviewed EXCEPT ![t] = rev]
  BY DEF CreateToken
<1>4. UNCHANGED <<report, cmd, uses, crossed>>
  BY DEF CreateToken
<1>5. crashes' \in 0..MaxCrashes
  BY CrashesAssumption DEF CreateToken, TokenTypeOK
<1> DEFINE rec == [input |-> input, state |-> state, expired |-> FALSE]
<1>6. rec \in Records /\ rec.input = input
  <2>1. input \in Inputs
    BY <1>1, InputType
  <2> HIDE DEF input
  <2>2. QED BY <2>1 DEF Records
<1>7. rev \in Reviews /\ input = InputOf(rev.kind, rev.report, rev.risk)
  BY <1>1 DEF Reviews
<1>8. store' = [store EXCEPT ![t] = rec]
  BY <1>2
<1> HIDE DEF input, rec, rev
<1>9. rec # None /\ rev # None
  BY <1>6, <1>7, NoneAssumption
<1>10. TokenTypeOK'
  BY <1>3, <1>4, <1>5, <1>6, <1>7, <1>8 DEF TokenTypeOK
<1>11. SpentIsRecorded' /\ HasToken' /\ CrossedIsKnown' /\ CheckedIsUnused'
  BY <1>1, <1>4, <1>8, <1>9, StartedType
     DEF TokenTypeOK, SpentIsRecorded, HasToken, CrossedIsKnown, CheckedIsUnused, Started
<1>12. RecordsReviewed'
  BY <1>3, <1>6, <1>7, <1>8, <1>9 DEF TokenTypeOK, RecordsReviewed
<1>13. CheckedAgrees'
  BY <1>1, <1>4, <1>8, StartedType DEF TokenTypeOK, CheckedAgrees, HasToken, Started
<1>14. QED BY <1>10, <1>11, <1>12, <1>13

LEMMA ExpireInv ==
  ASSUME TokenInv, NEW t \in Tokens, Expire(t)
  PROVE  TokenInv'
<1> USE DEF TokenInv
<1>1. store[t] \in Records
  BY DEF Expire, TokenTypeOK
<1> DEFINE rec == [store[t] EXCEPT !.expired = TRUE]
<1>2. rec \in Records /\ rec.state = store[t].state /\ rec.input = store[t].input
  BY <1>1 DEF Records
<1>3. store' = [store EXCEPT ![t] = rec] /\ UNCHANGED <<report, cmd, reviewed, uses, crossed, crashes>>
  BY DEF Expire, TokenTypeOK
<1> HIDE DEF rec
<1>4. rec # None /\ store[t] # None
  BY <1>1, <1>2, NoneAssumption
<1>5. TokenTypeOK'
  BY <1>2, <1>3 DEF TokenTypeOK
<1>6. SpentIsRecorded' /\ HasToken' /\ CrossedIsKnown' /\ CheckedIsUnused'
  BY <1>2, <1>3, <1>4, StartedType
     DEF TokenTypeOK, SpentIsRecorded, HasToken, CrossedIsKnown, CheckedIsUnused, Started
<1>7. RecordsReviewed' /\ CheckedAgrees'
  BY <1>2, <1>3, <1>4, StartedType DEF TokenTypeOK, RecordsReviewed, CheckedAgrees, Started
<1>8. QED BY <1>5, <1>6, <1>7

LEMMA StartApplyInv ==
  ASSUME TokenInv, NEW c \in Commands, NEW t \in Tokens, NEW k \in Kinds, NEW r \in Risks,
         StartApply(c, t, k, r)
  PROVE  TokenInv'
<1> DEFINE new == [pc |-> "read", token |-> t, kind |-> k, risk |-> r, report |-> report[k]]
<1> USE DEF TokenInv
<1>1. /\ cmd' = [cmd EXCEPT ![c] = new]
      /\ UNCHANGED <<report, store, reviewed, uses, crossed, crashes>>
      /\ store[t] # None
  BY DEF StartApply
<1>2. report[k] \in Reports
  BY DEF StartApply, TokenTypeOK
<1>3. new \in CommandStates /\ new.pc = "read" /\ new.token = t
  BY <1>2 DEF CommandStates, Applying
<1> HIDE DEF new
<1>4. TokenTypeOK'
  BY <1>1, <1>3 DEF TokenTypeOK
<1>5. SpentIsRecorded' /\ HasToken' /\ CrossedIsKnown' /\ CheckedIsUnused'
  BY <1>1, <1>3
     DEF TokenTypeOK, SpentIsRecorded, HasToken, CrossedIsKnown, CheckedIsUnused
<1>6. RecordsReviewed' /\ CheckedAgrees'
  BY <1>1, <1>3 DEF TokenTypeOK, RecordsReviewed, CheckedAgrees
<1>7. QED BY <1>4, <1>5, <1>6

\* A command that ends takes nothing with it.
LEMMA EndedInv ==
  ASSUME TokenInv, NEW c \in Commands, cmd' = [cmd EXCEPT ![c] = NoCommand],
         UNCHANGED <<store, reviewed, uses, crossed>>
  PROVE  /\ SpentIsRecorded' /\ HasToken' /\ CrossedIsKnown' /\ CheckedIsUnused'
         /\ RecordsReviewed' /\ CheckedAgrees'
<1>1. NoCommand.pc = "idle"
  BY DEF NoCommand
<1>2. QED
  BY <1>1 DEF TokenInv, TokenTypeOK, SpentIsRecorded, HasToken, CrossedIsKnown, CheckedIsUnused,
              RecordsReviewed, CheckedAgrees

\* A command that moves on keeps its token, operation and report.
LEMMA StepFields ==
  ASSUME TokenTypeOK, NEW c \in Commands, cmd[c].pc # "idle", NEW pc, Step(c, pc)
  PROVE  /\ \A d \in Commands \ {c} : cmd'[d] = cmd[d]
         /\ cmd'[c].pc = pc
         /\ cmd'[c].token = cmd[c].token /\ cmd'[c].kind = cmd[c].kind
         /\ cmd'[c].risk = cmd[c].risk /\ cmd'[c].report = cmd[c].report
<1>1. cmd[c] \in Started
  BY StartedType
<1>2. cmd' = [cmd EXCEPT ![c] = [cmd[c] EXCEPT !.pc = pc]]
  BY DEF Step, TokenTypeOK
<1>3. QED BY <1>1, <1>2 DEF TokenTypeOK, Started

LEMMA CheckRecordInv ==
  ASSUME TokenInv, NEW c \in Commands, CheckRecord(c)
  PROVE  TokenInv'
<1> USE DEF TokenInv
<1>1. UNCHANGED <<report, store, reviewed, uses, crashes>> /\ cmd[c].pc = "read"
  BY DEF CheckRecord
<1>2. CASE RecordHolds(c)
  <2>1. Step(c, "checked")
    BY <1>2 DEF CheckRecord, Step, TokenTypeOK
  <2>2. cmd' \in [Commands -> CommandStates]
    BY <1>1, <2>1, StepType DEF Applying
  <2>3. /\ crossed \subseteq crossed' /\ crossed' \subseteq Tokens
        /\ Crosses(c) => cmd[c].token \in crossed'
    BY <1>1, <1>2, StartedType DEF CheckRecord, Started, TokenTypeOK
  <2>4. TokenTypeOK'
    BY <1>1, <2>2, <2>3 DEF TokenTypeOK
  <2>5. /\ \A d \in Commands \ {c} : cmd'[d] = cmd[d]
        /\ cmd'[c].pc = "checked"
        /\ cmd'[c].token = cmd[c].token /\ cmd'[c].kind = cmd[c].kind
        /\ cmd'[c].risk = cmd[c].risk /\ cmd'[c].report = cmd[c].report
    BY <1>1, <2>1, StepFields
  <2>6. /\ store[cmd[c].token].state = "unused"
        /\ store[cmd[c].token].input = InputOf(cmd[c].kind, cmd[c].report, cmd[c].risk)
    BY <1>2 DEF RecordHolds
  <2>7. SpentIsRecorded' /\ RecordsReviewed'
    BY <1>1, <2>3 DEF SpentIsRecorded, RecordsReviewed
  <2>8. HasToken' /\ CheckedIsUnused'
    BY <1>1, <2>3, <2>5, <2>6 DEF HasToken, CheckedIsUnused
  <2>9. CrossedIsKnown'
    BY <1>1, <2>3, <2>5 DEF CrossedIsKnown, Crosses
  <2>10. CheckedAgrees'
    BY <1>1, <2>5, <2>6 DEF CheckedAgrees, InputOf
  <2>11. QED BY <2>4, <2>7, <2>8, <2>9, <2>10
<1>3. CASE ~RecordHolds(c)
  <2>1. cmd' = [cmd EXCEPT ![c] = NoCommand] /\ UNCHANGED crossed
    BY <1>3 DEF CheckRecord
  <2>2. TokenTypeOK'
    BY <1>1, <2>1, EndType DEF TokenTypeOK
  <2>3. QED BY <1>1, <2>1, <2>2, EndedInv
<1>4. QED BY <1>2, <1>3

LEMMA MarkUsedInv ==
  ASSUME TokenInv, NEW c \in Commands, MarkUsed(c)
  PROVE  TokenInv'
<1> DEFINE t == cmd[c].token
<1> USE DEF TokenInv
<1>1. cmd[c].pc = "checked" /\ Step(c, "admitted") /\ UNCHANGED <<report, reviewed, crossed, crashes>>
  BY DEF MarkUsed
<1>2. t \in Tokens /\ store[t] # None /\ store[t] \in Records
  BY <1>1, StartedType DEF Started, HasToken, TokenTypeOK
<1>3. store' = [store EXCEPT ![t].state = "used"] /\ uses' = [uses EXCEPT ![t] = @ + 1]
  BY DEF MarkUsed
<1> HIDE DEF t
<1> DEFINE rec == [store[t] EXCEPT !.state = "used"]
<1>4. rec \in Records /\ rec.state = "used" /\ rec.input = store[t].input
  BY <1>2 DEF Records
<1>5. store' = [store EXCEPT ![t] = rec]
  BY <1>2, <1>3 DEF TokenTypeOK
<1> HIDE DEF rec
<1>6. rec # None
  BY <1>4, NoneAssumption
<1>7. cmd' \in [Commands -> CommandStates]
  BY <1>1, StepType DEF Applying
<1>8. TokenTypeOK'
  BY <1>1, <1>2, <1>3, <1>4, <1>5, <1>7 DEF TokenTypeOK
<1>9. /\ \A d \in Commands \ {c} : cmd'[d] = cmd[d]
      /\ cmd'[c].pc = "admitted" /\ cmd'[c].token = t
      /\ cmd'[c].kind = cmd[c].kind
      /\ cmd'[c].risk = cmd[c].risk /\ cmd'[c].report = cmd[c].report
  BY <1>1, StepFields DEF t
<1>10. uses[t] = 0 \/ t \in crossed
  BY <1>1, <1>2 DEF SpentIsRecorded, CheckedIsUnused, t
<1>11. SpentIsRecorded'
  BY <1>1, <1>2, <1>3, <1>4, <1>5, <1>6, <1>10 DEF SpentIsRecorded, TokenTypeOK
<1>12. HasToken' /\ CrossedIsKnown'
  <2>1. HasToken'
    BY <1>1, <1>2, <1>5, <1>6, <1>9, StartedType DEF HasToken, TokenTypeOK, Started, t
  <2>2. CrossedIsKnown'
    BY <1>1, <1>9 DEF CrossedIsKnown
  <2>3. QED BY <2>1, <2>2
<1>13. CheckedIsUnused'
  <2> SUFFICES ASSUME NEW d \in Commands, cmd'[d].pc = "checked"
               PROVE  store'[cmd'[d].token].state = "unused" \/ cmd'[d].token \in crossed'
    BY DEF CheckedIsUnused
  <2>1. d # c /\ cmd'[d] = cmd[d]
    BY <1>9
  <2>2. cmd[d].token \in Tokens
    BY <2>1, StartedType DEF Started
  <2>3. CASE cmd[d].token = t
    BY <1>1, <2>1, <2>3 DEF CrossedIsKnown, t
  <2>4. CASE cmd[d].token # t
    BY <1>1, <1>5, <2>1, <2>2, <2>4 DEF CheckedIsUnused, TokenTypeOK
  <2>5. QED BY <2>3, <2>4
<1>14. RecordsReviewed'
  BY <1>1, <1>2, <1>4, <1>5 DEF RecordsReviewed, TokenTypeOK
<1>15. CheckedAgrees'
  BY <1>1, <1>2, <1>4, <1>5, <1>9, StartedType DEF CheckedAgrees, TokenTypeOK, Started, t
<1>16. QED BY <1>8, <1>11, <1>12, <1>13, <1>14, <1>15

LEMMA WorkInv ==
  ASSUME TokenInv, NEW c \in Commands, Work(c)
  PROVE  TokenInv'
<1> USE DEF TokenInv
<1>1. /\ cmd[c].pc = "admitted" /\ Step(c, "working")
      /\ UNCHANGED <<report, store, reviewed, uses, crossed, crashes>>
  BY DEF Work
<1>2. cmd' \in [Commands -> CommandStates]
  BY <1>1, StepType
<1>3. /\ \A d \in Commands \ {c} : cmd'[d] = cmd[d]
      /\ cmd'[c].pc = "working"
      /\ cmd'[c].token = cmd[c].token /\ cmd'[c].kind = cmd[c].kind
      /\ cmd'[c].risk = cmd[c].risk /\ cmd'[c].report = cmd[c].report
  BY <1>1, StepFields
<1>4. TokenTypeOK'
  BY <1>1, <1>2 DEF TokenTypeOK
<1>5. SpentIsRecorded' /\ HasToken' /\ CrossedIsKnown' /\ CheckedIsUnused' /\ RecordsReviewed'
  BY <1>1, <1>3 DEF SpentIsRecorded, HasToken, CrossedIsKnown, CheckedIsUnused, RecordsReviewed
<1>6. CheckedAgrees'
  BY <1>1, <1>3 DEF CheckedAgrees, InputOf
<1>7. QED BY <1>4, <1>5, <1>6

LEMMA EndApplyInv ==
  ASSUME TokenInv, NEW c \in Commands, EndApply(c)
  PROVE  TokenInv'
<1> USE DEF TokenInv
<1>1. /\ cmd[c].pc # "idle" /\ cmd' = [cmd EXCEPT ![c] = NoCommand]
      /\ UNCHANGED <<store, reviewed, uses, crossed, crashes>>
  BY DEF EndApply
<1>2. report' \in [Kinds -> Reports \cup {None}]
  BY <1>1, StartedType DEF EndApply, TokenTypeOK, Started
<1>3. TokenTypeOK'
  BY <1>1, <1>2, EndType DEF TokenTypeOK
<1>4. QED BY <1>1, <1>3, EndedInv

LEMMA CrashInv ==
  ASSUME TokenInv, NEW c \in Commands, Crash(c)
  PROVE  TokenInv'
<1> DEFINE t == cmd[c].token
<1> USE DEF TokenInv
<1>1. /\ cmd[c].pc # "idle" /\ cmd' = [cmd EXCEPT ![c] = NoCommand]
      /\ UNCHANGED <<report, reviewed, uses, crossed>> /\ crashes' \in 0..MaxCrashes
  BY CrashesAssumption DEF Crash, TokenTypeOK
<1>2. cmd' \in [Commands -> CommandStates]
  BY <1>1, EndType
<1>3. CASE UNCHANGED store
  BY <1>1, <1>2, <1>3, EndedInv DEF TokenTypeOK
<1>4. CASE cmd[c].pc = "checked" /\ store' = [store EXCEPT ![t].state = "torn"]
  <2>1. t \in Tokens /\ store[t] # None /\ store[t] \in Records
    BY <1>1, StartedType DEF Started, HasToken, TokenTypeOK
  <2> HIDE DEF t
  <2> DEFINE rec == [store[t] EXCEPT !.state = "torn"]
  <2>2. rec \in Records /\ rec.state = "torn" /\ rec.input = store[t].input
    BY <2>1 DEF Records
  <2>3. store' = [store EXCEPT ![t] = rec]
    BY <1>4, <2>1 DEF TokenTypeOK
  <2> HIDE DEF rec
  <2>4. rec # None
    BY <2>2, NoneAssumption
  <2>5. TokenTypeOK'
    BY <1>1, <1>2, <2>2, <2>3 DEF TokenTypeOK
  <2>6. \A d \in Commands : cmd'[d] = IF d = c THEN NoCommand ELSE cmd[d]
    BY <1>1 DEF TokenTypeOK
  <2>7. SpentIsRecorded'
    BY <1>1, <2>1, <2>2, <2>3, <2>4 DEF SpentIsRecorded, TokenTypeOK
  <2>8. HasToken' /\ CrossedIsKnown'
    BY <1>1, <2>3, <2>4, <2>6, StartedType DEF HasToken, CrossedIsKnown, TokenTypeOK, Started, NoCommand
  <2>9. CheckedIsUnused'
    <3> SUFFICES ASSUME NEW d \in Commands, cmd'[d].pc = "checked"
                 PROVE  store'[cmd'[d].token].state = "unused" \/ cmd'[d].token \in crossed'
      BY DEF CheckedIsUnused
    <3>1. d # c /\ cmd'[d] = cmd[d]
      BY <2>6 DEF NoCommand
    <3>2. cmd[d].token \in Tokens
      BY <3>1, StartedType DEF Started
    <3>3. CASE cmd[d].token = t
      BY <1>1, <1>4, <3>1, <3>3 DEF CrossedIsKnown, t
    <3>4. CASE cmd[d].token # t
      BY <1>1, <2>3, <3>1, <3>2, <3>4 DEF CheckedIsUnused, TokenTypeOK
    <3>5. QED BY <3>3, <3>4
  <2>10. RecordsReviewed'
    BY <1>1, <2>1, <2>2, <2>3 DEF RecordsReviewed, TokenTypeOK
  <2>11. CheckedAgrees'
    BY <1>1, <2>1, <2>2, <2>3, <2>6, StartedType
       DEF CheckedAgrees, TokenTypeOK, Started, NoCommand
  <2>12. QED BY <2>5, <2>7, <2>8, <2>9, <2>10, <2>11
<1>5. QED BY <1>3, <1>4 DEF Crash

LEMMA TokenNextInv ==
  ASSUME TokenInv, [TokenNext]_tokenVars
  PROVE  TokenInv'
<1>1. CASE TokenNext
  BY <1>1, WriteReportInv, CreateTokenInv, ExpireInv, StartApplyInv, CheckRecordInv,
     MarkUsedInv, WorkInv, EndApplyInv, CrashInv DEF TokenNext
<1>2. CASE UNCHANGED tokenVars
  BY <1>2 DEF tokenVars, TokenInv, TokenTypeOK, SpentIsRecorded, HasToken, CrossedIsKnown,
              CheckedIsUnused, RecordsReviewed, CheckedAgrees
<1>3. QED BY <1>1, <1>2

\* The inductive invariant holds.
THEOREM TokenInvariant == TokenSpec => []TokenInv
  BY TokenInitInv, TokenNextInv, PTL DEF TokenSpec

LEMMA InvSingleUse == TokenInv => SingleUse
  BY DEF TokenInv, SpentIsRecorded, SingleUse

LEMMA InvReviewed == TokenInv => AdmittedAsReviewed
<1> SUFFICES ASSUME TokenInv, NEW c \in Commands, cmd[c].pc \in {"admitted", "working"}
             PROVE  LET rev == reviewed[cmd[c].token] IN
                    /\ rev # None
                    /\ rev.kind = cmd[c].kind /\ rev.risk = cmd[c].risk
                    /\ rev.report.config = cmd[c].report.config
                    /\ rev.report.hash = cmd[c].report.hash
  BY DEF AdmittedAsReviewed
<1> DEFINE t == cmd[c].token
           rev == reviewed[t]
<1>1. t \in Tokens /\ store[t] # None
  BY StartedType DEF TokenInv, Started, HasToken
<1>2. rev # None /\ store[t].input = InputOf(rev.kind, rev.report, rev.risk)
  BY <1>1 DEF TokenInv, RecordsReviewed
<1>3. store[t].input = InputOf(cmd[c].kind, cmd[c].report, cmd[c].risk)
  BY DEF TokenInv, CheckedAgrees
<1>4. QED BY <1>2, <1>3 DEF InputOf

\* A token lets one operation run (validate_plan_token), whatever commands
\* crash and however the report files change, unless two commands had both
\* found it unused before either marked it.
THEOREM TokensAreSingleUse == TokenSpec => []SingleUse
  BY TokenInvariant, InvSingleUse, PTL

\* An admitted command is about what its token was made for
\* (token_input_hash in create_plan_token and validate_plan_token).
THEOREM OperationsAreReviewed == TokenSpec => []AdmittedAsReviewed
  BY TokenInvariant, InvReviewed, PTL
=============================================================================
