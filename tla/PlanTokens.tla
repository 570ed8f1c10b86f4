----------------------------- MODULE PlanTokens -----------------------------
(***************************************************************************)
(* Plan tokens: ssn-plan-token create binds a token to the report in a     *)
(* file, and a command that applies the report spends the token before it  *)
(* does anything.  The file can be written again at any time between the   *)
(* review and the apply, by a new plan, by a timer or by hand, and a       *)
(* command can die anywhere.  The record is read and rewritten without a   *)
(* lock, so that two commands with the same token can both find it unused. *)
(***************************************************************************)
EXTENDS Naturals, FiniteSets

CONSTANTS None,
          Tokens, Commands,
          Kinds,          \* the reports, one file each
          Bodies,         \* what a report can propose
          Risks,          \* the risk names of ssn-plan-token --risk
          Configs,        \* hashes of the resolved profile
          MaxCrashes      \* bound on crashes

ASSUME CrashesAssumption == MaxCrashes \in Nat

\* hash is the operation_hash field: the hash of the body it was made with.
\* A plan made without --profile has no config hash.
Reports == [config : Configs \cup {None}, hash : Bodies, body : Bodies]
Inputs == [kind : Kinds, config : Configs \cup {None}, hash : Bodies, risk : Risks]
Records == [input : Inputs, state : {"unused", "used", "torn"}, expired : BOOLEAN]
Reviews == [kind : Kinds, risk : Risks, report : Reports]
Applying == {"read", "checked", "admitted"}

ASSUME NoneAssumption == None \notin Configs \cup Reports \cup Records \cup Reviews

VARIABLES
    report,     \* per kind: the report in its file
    store,      \* per token: its record under plan-tokens
    cmd,        \* per command: where it is, and the report it has read
    reviewed,   \* history, per token: the report it was made for, and the risk
    uses,       \* history, per token: the commands admitted with it
    crossed,    \* history: tokens that two commands have both found unused
    crashes

tokenVars == <<report, store, cmd, reviewed, uses, crossed, crashes>>

NoCommand == [pc |-> "idle", token |-> None, kind |-> None, risk |-> None, report |-> None]
CommandStates ==
    {NoCommand} \cup
    [pc : Applying \cup {"working"}, token : Tokens, kind : Kinds, risk : Risks, report : Reports]

TokenTypeOK ==
    /\ report \in [Kinds -> Reports \cup {None}]
    /\ store \in [Tokens -> Records \cup {None}]
    /\ cmd \in [Commands -> CommandStates]
    /\ reviewed \in [Tokens -> Reviews \cup {None}]
    /\ uses \in [Tokens -> Nat]
    /\ crossed \subseteq Tokens
    /\ crashes \in 0..MaxCrashes

TokenInit ==
    /\ report = [k \in Kinds |-> None]
    /\ store = [t \in Tokens |-> None]
    /\ cmd = [c \in Commands |-> NoCommand]
    /\ reviewed = [t \in Tokens |-> None]
    /\ uses = [t \in Tokens |-> 0]
    /\ crossed = {}
    /\ crashes = 0

\* Mutant: the operation is not part of what a token is bound to.
InputWithoutOperation(k, rep, r) ==
    [kind |-> k, config |-> rep.config, hash |-> CHOOSE b \in Bodies : TRUE, risk |-> r]

\* token_input_hash
InputOf(k, rep, r) == [kind |-> k, config |-> rep.config, hash |-> rep.hash, risk |-> r]

Step(c, pc) == cmd' = [cmd EXCEPT ![c].pc = pc]
-----------------------------------------------------------------------------
\* Any writer of the report file: a plan, a timer, an editor.
WriteReport(k, rep) ==
    /\ report' = [report EXCEPT ![k] = rep]
    /\ UNCHANGED <<store, cmd, reviewed, uses, crossed, crashes>>

\* create_plan_token refuses a report without a config hash.  A crash in the
\* write leaves a record that is not JSON.
CreateToken(t, k, r) ==
    /\ store[t] = None
    /\ report[k] # None
    /\ report[k].config # None
    /\ LET input == InputOf(k, report[k], r) IN
       /\ reviewed' = [reviewed EXCEPT ![t] = [kind |-> k, risk |-> r, report |-> report[k]]]
       /\ \/ /\ store' = [store EXCEPT ![t] = [input |-> input, state |-> "unused", expired |-> FALSE]]
             /\ UNCHANGED crashes
          \/ /\ crashes < MaxCrashes /\ crashes' = crashes + 1
             /\ store' = [store EXCEPT ![t] = [input |-> input, state |-> "torn", expired |-> FALSE]]
    /\ UNCHANGED <<report, cmd, uses, crossed>>

Expire(t) ==
    /\ store[t] # None /\ ~store[t].expired
    /\ store' = [store EXCEPT ![t].expired = TRUE]
    /\ UNCHANGED <<report, cmd, reviewed, uses, crossed, crashes>>

\* A command with --apply and a token reads the report file.
StartApply(c, t, k, r) ==
    /\ cmd[c].pc = "idle"
    /\ store[t] # None
    /\ report[k] # None
    /\ cmd' = [cmd EXCEPT ![c] = [pc |-> "read", token |-> t, kind |-> k, risk |-> r,
                                  report |-> report[k]]]
    /\ UNCHANGED <<report, store, reviewed, uses, crossed, crashes>>

RecordHolds(c) ==
    LET rec == store[cmd[c].token] IN
    /\ rec.state = "unused"
    /\ ~rec.expired
    /\ rec.input = InputOf(cmd[c].kind, cmd[c].report, cmd[c].risk)

\* Another command has found the token unused and not marked it yet.
Crosses(c) ==
    \E d \in Commands \ {c} : cmd[d].pc = "checked" /\ cmd[d].token = cmd[c].token

\* validate_plan_token reads the record: a refused command ends.
CheckRecord(c) ==
    /\ cmd[c].pc = "read"
    /\ cmd' = [cmd EXCEPT ![c] = IF RecordHolds(c) THEN [@ EXCEPT !.pc = "checked"] ELSE NoCommand]
    /\ crossed' = IF RecordHolds(c) /\ Crosses(c) THEN crossed \cup {cmd[c].token} ELSE crossed
    /\ UNCHANGED <<report, store, reviewed, uses, crashes>>

\* Mutant: the token is looked at and left as it is.
AdmitOnly(c) ==
    /\ cmd[c].pc = "checked"
    /\ uses' = [uses EXCEPT ![cmd[c].token] = @ + 1]
    /\ Step(c, "admitted")
    /\ UNCHANGED <<report, store, reviewed, crossed, crashes>>

\* ... and writes it back with used_at, before the operation begins.
MarkUsed(c) ==
    /\ cmd[c].pc = "checked"
    /\ store' = [store EXCEPT ![cmd[c].token].state = "used"]
    /\ uses' = [uses EXCEPT ![cmd[c].token] = @ + 1]
    /\ Step(c, "admitted")
    /\ UNCHANGED <<report, reviewed, crossed, crashes>>

\* The operation runs from the report that was checked, and ends.
Work(c) ==
    /\ cmd[c].pc = "admitted"
    /\ Step(c, "working")
    /\ UNCHANGED <<report, store, reviewed, uses, crossed, crashes>>

\* A command that ends well may write what it read back over its report file.
EndApply(c) ==
    /\ cmd[c].pc \in {"admitted", "working"}
    /\ cmd' = [cmd EXCEPT ![c] = NoCommand]
    /\ report' \in {report, [report EXCEPT ![cmd[c].kind] = cmd[c].report]}
    /\ UNCHANGED <<store, reviewed, uses, crossed, crashes>>

\* The process dies; between read and rewrite the record may be torn.
Crash(c) ==
    /\ cmd[c].pc # "idle"
    /\ crashes < MaxCrashes /\ crashes' = crashes + 1
    /\ cmd' = [cmd EXCEPT ![c] = NoCommand]
    /\ \/ UNCHANGED store
       \/ /\ cmd[c].pc = "checked"
          /\ store' = [store EXCEPT ![cmd[c].token].state = "torn"]
    /\ UNCHANGED <<report, reviewed, uses, crossed>>
-----------------------------------------------------------------------------
TokenNext ==
    \/ \E k \in Kinds : report'[k] \in Reports /\ WriteReport(k, report'[k])
    \/ \E t \in Tokens, k \in Kinds, r \in Risks : CreateToken(t, k, r)
    \/ \E t \in Tokens : Expire(t)
    \/ \E c \in Commands, t \in Tokens, k \in Kinds, r \in Risks : StartApply(c, t, k, r)
    \/ \E c \in Commands : CheckRecord(c) \/ MarkUsed(c) \/ Work(c) \/ EndApply(c) \/ Crash(c)

TokenSpec == TokenInit /\ [][TokenNext]_tokenVars
-----------------------------------------------------------------------------
(* Properties *)

\* docs/production-safety-bridge.md: a single-use token.  However commands
\* fail, die, run beside each other and are started again, one review lets one
\* operation run, but for a token whose checks crossed: found unused by a
\* command before another that had found it unused has marked it.
SingleUse == \A t \in Tokens \ crossed : uses[t] <= 1

\* What an admitted command is about to do is what was proposed when its token
\* was made: same command, profile, operation and risk, although the file may
\* have been planned anew, or edited, before it was read.
AdmittedAsReviewed ==
    \A c \in Commands : cmd[c].pc \in {"admitted", "working"} =>
        LET rev == reviewed[cmd[c].token] IN
        /\ rev # None
        /\ rev.kind = cmd[c].kind /\ rev.risk = cmd[c].risk
        /\ rev.report.config = cmd[c].report.config
        /\ rev.report.hash = cmd[c].report.hash
=============================================================================
