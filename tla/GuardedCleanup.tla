--------------------------- MODULE GuardedCleanup ---------------------------
(***************************************************************************)
(* ssn-scratch-cleanup and ssn-retention-cleanup: a report of aged files,  *)
(* a token for it, and an apply that deletes the candidates one by one,    *)
(* while users start and end jobs and go on using their files.             *)
(* Entries are directory entries; where they are and what they are called  *)
(* is given.  Their age changes, and an entry can become a symbolic link   *)
(* to another one.                                                         *)
(***************************************************************************)
EXTENDS PlanTokens

CONSTANTS Users,
          Entries, Place, Owner,    \* where each entry is, and whose it is
          Fixtures,                 \* entries named ssn-test-*
          Artifacts,                \* entries named as a production root allows
          MaxEvents,                \* bound on plans, edits, expiries, jobs, ageing, links
          MaxFaults                 \* bound on failing squeue and rmtree calls

\* user: below /scratch/<owner>/cache or tmp.  scratch: directly below
\* /scratch.  prod, test: in a production retention root and in another one.
Places == {"user", "scratch", "prod", "test"}
Roots == {"scratch", "prod", "test"}

ASSUME EntriesAssumption ==
    /\ Place \in [Entries -> Places] /\ Owner \in [Entries -> Users]
    /\ Fixtures \subseteq Entries /\ Artifacts \subseteq Entries
    /\ None \notin Entries
    /\ MaxEvents \in Nat /\ MaxFaults \in Nat

\* The two cleanups, what their reports propose, and their risks.
ASSUME CleanupAssumption ==
    /\ Kinds \subseteq {"scratch", "retention"}
    /\ Bodies = [root : Roots, users : SUBSET Users, candidates : SUBSET Entries]
    /\ {"scratch_cleanup", "fixture_scratch_cleanup", "retention_delete"} \subseteq Risks

VARIABLES
    age,        \* per entry: gone, fresh or old
    link,       \* per entry: the entry that a symbolic link in its place leads to
    linked,     \* history: the pairs <<e, t>> such that e has been a link to t
    busy,       \* the users with a job in an active state
    sweep,      \* per command: what it was allowed, and what is left to do
    steady,     \* history, per command: users busy ever since it began
    events, faults

fileVars == <<age, link, linked>>
hostVars == <<fileVars, busy>>
countVars == <<events, faults>>
vars == <<tokenVars, hostVars, sweep, steady, countVars>>

\* --allow-cleanup-user, or --allow-production-roots as {"prod"}.
Allowances == (SUBSET Users) \cup {{"prod"}}
NoSweep == [allow |-> {}, todo |-> {}, asked |-> None, blind |-> FALSE]

TypeOK ==
    /\ TokenTypeOK
    /\ age \in [Entries -> {"gone", "fresh", "old"}]
    /\ link \in [Entries -> Entries \cup {None}]
    /\ linked \subseteq Entries \X Entries
    /\ busy \subseteq Users
    /\ sweep \in [Commands -> [allow : Allowances, todo : SUBSET Entries,
                               asked : Entries \cup {None}, blind : BOOLEAN]]
    /\ steady \in [Commands -> SUBSET Users]
    /\ events \in 0..MaxEvents /\ faults \in 0..MaxFaults

Init ==
    /\ TokenInit
    /\ age \in [Entries -> {"fresh", "old"}]
    /\ \A e \in Entries : age[e] = "fresh" => Place[e] = "user"
    /\ link = [e \in Entries |-> None]
    /\ linked = {}
    /\ busy \in SUBSET Users
    /\ sweep = [c \in Commands |-> NoSweep]
    /\ steady = [c \in Commands |-> {}]
    /\ events = 0 /\ faults = 0

Event == events < MaxEvents /\ events' = events + 1
Fault == faults < MaxFaults /\ faults' = faults + 1
-----------------------------------------------------------------------------
(* What a plan proposes *)

\* Path.resolve: what a path is once its link is followed.
Resolve(e) == IF link[e] = None THEN e ELSE link[e]

\* scratch_cleanup_report: with users their cache and tmp, else the top level.
\* Links are not candidates.
ScratchBody(us) ==
    [root |-> "scratch", users |-> us,
     candidates |-> {e \in Entries : /\ age[e] = "old" /\ link[e] = None
                                     /\ IF us = {} THEN Place[e] = "scratch"
                                        ELSE Place[e] = "user" /\ Owner[e] \in us}]

\* retention_cleanup_report: a link is a candidate when what it leads to is old.
RetentionBody(root) ==
    [root |-> root, users |-> {},
     candidates |-> {e \in Entries : /\ Place[e] = root
                                     /\ age[e] # "gone" /\ age[Resolve(e)] = "old"}]

\* cleanup_operation_hash, retention_operation_hash: all but the users.
Digest(b) == [b EXCEPT !.users = {}]

PlanReport(k, cfg) ==
    \E b \in IF k = "scratch" THEN {ScratchBody(us) : us \in SUBSET Users}
             ELSE {RetentionBody(r) : r \in {"prod", "test"}} :
        WriteReport(k, [config |-> cfg, hash |-> Digest(b), body |-> b])

Plan(k, cfg) ==
    /\ Event
    /\ PlanReport(k, cfg)
    /\ UNCHANGED <<hostVars, sweep, steady, faults>>

\* Somebody adds a candidate to the file, or names other users in that of a
\* scratch cleanup, and leaves the hash as it was.
EditReport(k) ==
    /\ report[k] # None
    /\ Event
    /\ \/ \E e \in Entries \ report[k].body.candidates :
            WriteReport(k, [report[k] EXCEPT !.body.candidates = @ \cup {e}])
       \/ \E us \in SUBSET Users \ {report[k].body.users} :
            k = "scratch" /\ WriteReport(k, [report[k] EXCEPT !.body.users = us])
    /\ UNCHANGED <<hostVars, sweep, steady, faults>>
-----------------------------------------------------------------------------
(* The apply *)

UserMode(c) == cmd[c].kind = "scratch" /\ sweep[c].allow # {}

\* The risk follows from the options of the apply, not from the report.
RiskOf(k, allow) ==
    IF k = "retention" THEN "retention_delete"
    ELSE IF allow = {} THEN "fixture_scratch_cleanup" ELSE "scratch_cleanup"

Allowed(k) == IF k = "scratch" THEN SUBSET Users ELSE {{}, {"prod"}}

Apply(c, t, k, allow) ==
    /\ StartApply(c, t, k, RiskOf(k, allow))
    /\ sweep' = [sweep EXCEPT ![c] = [NoSweep EXCEPT !.allow = allow]]
    /\ steady' = [steady EXCEPT ![c] = busy]
    /\ UNCHANGED <<hostVars, countVars>>

\* The command is over.
Finish(c) ==
    /\ sweep' = [sweep EXCEPT ![c] = NoSweep]
    /\ steady' = [steady EXCEPT ![c] = {}]
    /\ UNCHANGED <<hostVars, events>>

\* The token steps of validate_plan_token.
Validate(c) ==
    /\ CheckRecord(c) \/ MarkUsed(c)
    /\ IF cmd'[c] = NoCommand THEN Finish(c) ELSE UNCHANGED <<hostVars, sweep, steady, events>>
    /\ UNCHANGED faults

\* What the three apply functions check before they look at a candidate.
Refuses(c) ==
    LET rep == cmd[c].report IN
    \/ rep.hash # Digest(rep.body)
    \/ UserMode(c) /\ ~(rep.body.users \subseteq sweep[c].allow)
    \/ cmd[c].kind = "retention" /\ (rep.body.root = "prod") # (sweep[c].allow = {"prod"})

\* Mutant: the operation does not wait for the token to be marked.
BeginUnspent(c) ==
    /\ cmd[c].pc = "checked" /\ ~Refuses(c)
    /\ Step(c, "working")
    /\ sweep' = [sweep EXCEPT ![c].todo = cmd[c].report.body.candidates]
    /\ UNCHANGED <<report, store, reviewed, uses, crossed, crashes, hostVars, steady, countVars>>

Begin(c) ==
    /\ Work(c)
    /\ ~Refuses(c)
    /\ sweep' = [sweep EXCEPT ![c].todo = cmd[c].report.body.candidates]
    /\ UNCHANGED <<hostVars, steady, countVars>>

Refuse(c) ==
    /\ cmd[c].pc = "admitted" /\ Refuses(c)
    /\ UNCHANGED report /\ EndApply(c)
    /\ Finish(c) /\ UNCHANGED faults

\* The path an apply works on: the scratch modes resolve the candidate before
\* they look at it.
Path(c, e) == IF cmd[c].kind = "scratch" THEN Resolve(e) ELSE e

\* Mutant: where a path leads is not looked at again.
DeletableAsNamed(c, e, p) ==
    \/ UserMode(c) /\ Place[e] = "user" /\ Owner[e] \in sweep[c].allow
    \/ cmd[c].kind = "scratch" /\ ~UserMode(c) /\ Place[p] = "scratch" /\ p \in Fixtures
    \/ /\ cmd[c].kind = "retention" /\ Place[p] = cmd[c].report.body.root
       /\ p \in Fixtures \/ (Place[p] = "prod" /\ p \in Artifacts)

\* The paths each mode may delete for a candidate: _safe_user_cleanup_path with
\* the candidate's user, _safe_fixture_cleanup_path, _safe_retention_path.
Deletable(c, e, p) ==
    \/ /\ UserMode(c) /\ Place[e] = "user" /\ Owner[e] \in sweep[c].allow
       /\ Place[p] = "user" /\ Owner[p] = Owner[e]
    \/ cmd[c].kind = "scratch" /\ ~UserMode(c) /\ Place[p] = "scratch" /\ p \in Fixtures
    \/ /\ cmd[c].kind = "retention" /\ Place[p] = cmd[c].report.body.root
       /\ p \in Fixtures \/ (Place[p] = "prod" /\ p \in Artifacts)

\* The command turns to a candidate.
NextCandidate(c, e) ==
    /\ cmd[c].pc = "working" /\ sweep[c].asked = None
    /\ e \in sweep[c].todo

\* A candidate is passed over: its path is not one to delete, or its user has a
\* job.
Skip(c, e) ==
    /\ NextCandidate(c, e)
    /\ ~Deletable(c, e, Path(c, e)) \/ (UserMode(c) /\ Owner[e] \in busy)
    /\ sweep' = [sweep EXCEPT ![c].todo = @ \ {e}]
    /\ UNCHANGED <<tokenVars, hostVars, steady, countVars>>

Chosen(c, e) ==
    sweep' = [sweep EXCEPT ![c].todo = @ \ {e}, ![c].asked = Path(c, e)]

\* Mutant: the queue is not asked.
TakeUnasked(c, e) ==
    /\ NextCandidate(c, e) /\ Deletable(c, e, Path(c, e))
    /\ Chosen(c, e)
    /\ UNCHANGED <<tokenVars, hostVars, steady, countVars>>

\* A candidate's path may be deleted.  With users _user_has_active_slurm_job is
\* called for each candidate: a squeue that fails prints nothing, which is no
\* active job.  The other modes ask nobody.
Take(c, e) ==
    /\ NextCandidate(c, e) /\ Deletable(c, e, Path(c, e))
    /\ \/ /\ UserMode(c) => Owner[e] \notin busy
          /\ Chosen(c, e) /\ UNCHANGED faults
       \/ /\ UserMode(c) /\ Fault
          /\ sweep' = [sweep EXCEPT ![c].todo = @ \ {e}, ![c].asked = Path(c, e),
                                    ![c].blind = TRUE]
    /\ UNCHANGED <<tokenVars, hostVars, steady, events>>

\* is_symlink and exists, of the path taken.
Removes(c, p) ==
    /\ cmd[c].pc = "working" /\ sweep[c].asked = p
    /\ link[p] = None /\ age[p] # "gone"

Turns(c) == sweep' = [sweep EXCEPT ![c].asked = None, ![c].blind = FALSE]

\* The path is deleted if it is there, whatever its age is by now.
Remove(c, p) ==
    /\ Removes(c, p)
    /\ age' = [age EXCEPT ![p] = "gone"]
    /\ Turns(c)
    /\ UNCHANGED <<tokenVars, link, linked, busy, steady, countVars>>

\* It has become a link, or is absent.
PassOver(c) ==
    /\ cmd[c].pc = "working" /\ sweep[c].asked # None /\ ~Removes(c, sweep[c].asked)
    /\ Turns(c)
    /\ UNCHANGED <<tokenVars, hostVars, steady, countVars>>

\* rmtree raises: the command ends with what it has deleted so far, and the
\* report stays as it was.
RemoveFails(c, p) ==
    /\ Removes(c, p)
    /\ UNCHANGED report /\ EndApply(c) /\ Fault
    /\ Finish(c)

\* Mutant: the report file is replaced by the results.
DoneWithResults(c) ==
    /\ cmd[c].pc = "working" /\ sweep[c].todo = {} /\ sweep[c].asked = None
    /\ report' = [report EXCEPT ![cmd[c].kind] = [body |-> sweep[c].todo]]
    /\ cmd' = [cmd EXCEPT ![c] = NoCommand]
    /\ UNCHANGED <<store, reviewed, uses, crossed, crashes>>
    /\ Finish(c) /\ UNCHANGED faults

\* The applied report goes over the file, and over a plan that was written
\* there meanwhile; what a token binds is the same as in the reviewed one.
Done(c) ==
    /\ cmd[c].pc = "working" /\ sweep[c].todo = {} /\ sweep[c].asked = None
    /\ report' = [report EXCEPT ![cmd[c].kind] = cmd[c].report]
    /\ EndApply(c)
    /\ Finish(c) /\ UNCHANGED faults

Die(c) ==
    /\ Crash(c)
    /\ Finish(c) /\ UNCHANGED faults
-----------------------------------------------------------------------------
(* Users and time *)

StartJob(u) ==
    /\ u \notin busy /\ Event
    /\ busy' = busy \cup {u}
    /\ UNCHANGED <<tokenVars, fileVars, sweep, steady, faults>>

EndJob(u) ==
    /\ u \in busy
    /\ busy' = busy \ {u}
    /\ steady' = [c \in Commands |-> steady[c] \ {u}]
    /\ UNCHANGED <<tokenVars, fileVars, sweep, countVars>>

\* A file or directory of its own is there again, or used.
Touch(e) ==
    /\ age[e] # "fresh" \/ link[e] # None
    /\ Event
    /\ age' = [age EXCEPT ![e] = "fresh"]
    /\ link' = [link EXCEPT ![e] = None]
    /\ UNCHANGED <<tokenVars, linked, busy, sweep, steady, faults>>

\* An entry is moved elsewhere and a link put in its place.  (Links that lead to
\* links are left out.)
Relink(e, t) ==
    /\ e # t /\ link[e] # t
    /\ link[t] = None /\ \A x \in Entries : link[x] # e
    /\ Event
    /\ age' = [age EXCEPT ![e] = "fresh"]
    /\ link' = [link EXCEPT ![e] = t]
    /\ linked' = linked \cup {<<e, t>>}
    /\ UNCHANGED <<tokenVars, busy, sweep, steady, faults>>

GrowOld ==
    /\ \E e \in Entries : age[e] = "fresh"
    /\ Event
    /\ age' = [e \in Entries |-> IF age[e] = "fresh" THEN "old" ELSE age[e]]
    /\ UNCHANGED <<tokenVars, link, linked, busy, sweep, steady, faults>>

\* ssn-plan-token, and the time that passes.
Token(t) ==
    /\ \/ Expire(t) /\ Event
       \/ UNCHANGED events /\ \E k \in Kinds, r \in Risks : CreateToken(t, k, r)
    /\ UNCHANGED <<hostVars, sweep, steady, faults>>
-----------------------------------------------------------------------------
Next ==
    \/ \E k \in Kinds : EditReport(k) \/ \E cfg \in Configs \cup {None} : Plan(k, cfg)
    \/ \E t \in Tokens : Token(t)
    \/ \E c \in Commands :
        \/ \E t \in Tokens, k \in Kinds : \E allow \in Allowed(k) : Apply(c, t, k, allow)
        \/ Validate(c) \/ Begin(c) \/ Refuse(c) \/ PassOver(c) \/ Done(c) \/ Die(c)
        \/ \E e \in Entries : Skip(c, e) \/ Take(c, e) \/ Remove(c, e) \/ RemoveFails(c, e)
    \/ \E u \in Users : StartJob(u) \/ EndJob(u)
    \/ \E e \in Entries : Touch(e) \/ \E t \in Entries : Relink(e, t)
    \/ GrowOld

Spec == Init /\ [][Next]_vars
-----------------------------------------------------------------------------
(* Properties *)

\* The file may have been planned anew or edited, other commands may run, and
\* entries be replaced by links.  Whatever is deleted was a candidate when
\* somebody made the token for it, or, in the two scratch modes, is where a
\* symbolic link in the place of such a candidate has led (docs/storage-quotas.md
\* says that links are skipped; the code resolves them first).  Either way it
\* lies where the token's risk allows: beside the candidate, in the cache and
\* tmp of the same user; a fixture; for a retention root the candidate itself.
DeletedWasReviewed ==
    [][\A p \in Entries : age[p] # "gone" /\ age'[p] = "gone" =>
        \E c \in Commands : LET rev == reviewed[cmd[c].token] IN
            /\ cmd[c].pc = "working"
            /\ \E e \in rev.report.body.candidates :
                CASE rev.risk = "scratch_cleanup" ->
                        /\ p = e \/ <<e, p>> \in linked
                        /\ Place[p] = "user" /\ Owner[p] = Owner[e]
                  [] rev.risk = "fixture_scratch_cleanup" ->
                        (p = e \/ <<e, p>> \in linked) /\ p \in Fixtures
                  [] OTHER -> p = e /\ Place[p] \in {"prod", "test"}]_vars

\* Nothing in a user's cache and tmp is deleted under a job of his that was
\* already active when the cleanup began, unless squeue failed: the users asked
\* about are those whose files go, through links too, and the modes that ask
\* nobody stay out of those directories.  (Entries directly below /scratch that
\* are named like fixtures are deleted without a look at anybody's jobs, and a
\* job that starts between the answer of squeue and the deletion is not seen.)
SteadyJobsKeepFiles ==
    [][\A c \in Commands, p \in Entries :
        /\ Place[p] = "user" /\ age[p] # "gone" /\ age'[p] = "gone"
        /\ sweep'[c] # sweep[c] /\ ~sweep[c].blind
        => Owner[p] \notin steady[c]]_vars

\* The cleanup uses its tokens as PlanTokens says.
KeepsTokenProtocol == TokenSpec
=============================================================================
