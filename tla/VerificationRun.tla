--------------------------- MODULE VerificationRun ---------------------------
(***************************************************************************)
(* Change-aware verification (tools/testing/verification.py): the checks   *)
(* of one call, one after the other or several at a time, their permits,   *)
(* the mark that tests were dispatched and the journal entry it decides;   *)
(* and the same call as a background job (tools/testing/background.py,     *)
(* scripts/verification_worker.py), which pins a fingerprint of the        *)
(* sources, verifies, takes the fingerprint again and reports.  Somebody   *)
(* edits the sources meanwhile and never restores an earlier content.      *)
(***************************************************************************)
EXTENDS Integers, Sequences, FiniteSets

CONSTANTS Source,        \* source files
          Package,       \* packages with tests, for the auto backend
          EditMax,       \* bound on the contents a file goes through
          PermitMax      \* greatest max_running_analyzers

Order == <<"syntax", "mypy", "pytest">>
Check == {Order[i] : i \in DOMAIN Order}
Fine == {"passed", "skipped"}
Unknown == {"timed_out", "unavailable"}
Ends == Fine \union Unknown \union {"failed", "raised"}

VARIABLES edits,       \* the content each source file has now
          plan,        \* the auto backend: packages selected, runners bound, full suite, missing inputs
          req,         \* the request: background, parallel, failFast and the backend
          who,         \* where the call is
          print,       \* fingerprints: pinned at submission, before, after; and the one being taken
          stage,       \* each check: where it is, what it read of the sources, its dispatch mark
          marked,      \* the dispatch mark of the enclosing operation's scope
          entry,       \* the journal entry of the call
          permits,     \* the permits: the checks that hold one, and those quarantined
          seen,        \* the worker's execution_possible, result_received and uncertainty
          answer       \* what the caller or the reader of the job gets

verificationVars == <<edits, plan, req, who, print, stage, marked, entry, permits, seen, answer>>

Unread == [f \in Source |-> 0]
NoPlan == [selected |-> {}, bound |-> {}, full |-> FALSE, missing |-> "nothing"]
NoReport == [over |-> FALSE, ok |-> FALSE, unc |-> FALSE]
IdleStage == [at |-> "waiting", saw |-> Unread, marked |-> FALSE, unc |-> FALSE, skip |-> "no", res |-> "none"]

VerificationInit ==
    /\ edits = [f \in Source |-> 1]
    /\ \E background, parallel, failFast, auto \in BOOLEAN, limit \in 1..PermitMax :
          /\ parallel => ~failFast          \* parallel verification requires fail_fast=false
          /\ background => ~auto
          /\ req = [background |-> background, parallel |-> parallel, failFast |-> failFast,
                    auto |-> auto, limit |-> limit]
    /\ who = IF req.background THEN "pin" ELSE "admit"
    /\ print = [pinned |-> Unread, before |-> Unread, after |-> Unread, partial |-> Unread]
    /\ plan = NoPlan
    /\ stage = [c \in Check |-> IdleStage]
    /\ marked = FALSE
    /\ entry = "none"
    /\ permits = [by |-> {}, lost |-> {}]
    /\ seen = [possible |-> FALSE, received |-> FALSE, unc |-> FALSE]
    /\ answer = NoReport

Here(place) == who = place /\ ~answer.over

\* --------------------------------------------------------------- fingerprints
\* source_fingerprint hashes one file after the other; a file that changes
\* under it is an error.
HashFile(f) ==
    /\ Here("pin") \/ Here("before") \/ Here("after")
    /\ print.partial[f] = 0
    /\ print' = [print EXCEPT !.partial[f] = edits[f]]
    /\ UNCHANGED <<edits, plan, req, who, stage, marked, entry, permits, seen, answer>>

Hashed == \A f \in Source : print.partial[f] # 0

\* submit_verification stores the fingerprint in the request.
Pin ==
    /\ Here("pin") /\ Hashed
    /\ print' = [print EXCEPT !.pinned = print.partial, !.partial = Unread]
    /\ who' = "before"
    /\ UNCHANGED <<edits, plan, req, stage, marked, entry, permits, seen, answer>>

\* run_request: stale before it begins, or the sources that were pinned.
CompareFirst ==
    /\ Here("before") /\ Hashed
    /\ print' = [print EXCEPT !.before = print.partial, !.partial = Unread]
    /\ IF print.partial = print.pinned
       THEN who' = "admit" /\ UNCHANGED answer
       ELSE answer' = [NoReport EXCEPT !.over = TRUE] /\ UNCHANGED who
    /\ UNCHANGED <<edits, plan, req, stage, marked, entry, permits, seen>>

\* ------------------------------------------------------- the enclosing operation
\* run_native_operation begins the journal entry; the claims of the call are
\* admitted and the plan is built.  An auto plan takes a fingerprint at once.
IdleChecks(idle) ==
    stage' = [c \in Check |-> [stage[c] EXCEPT !.skip = IF c \in idle THEN "idle" ELSE "no"]]

\* build_verification_plan selects packages, all of them unless affected_only;
\* bind_verification_runners binds the runners that are known and intact.
AutoPlan ==
    \E selected \in SUBSET Package, full \in BOOLEAN, missing \in {"nothing", "coverage", "runner"} :
        \E bound \in {selected, {}} :
            /\ plan' = [selected |-> selected, bound |-> bound, full |-> full, missing |-> missing]
            /\ IdleChecks(IF selected = {} THEN Check ELSE {"syntax", "mypy"})

Admit ==
    /\ Here("admit") /\ entry = "none"
    /\ entry' = "open"
    /\ who' = "stages"
    /\ IF req.auto THEN AutoPlan
       ELSE /\ UNCHANGED plan                       \* no tests, no Python targets
            /\ \E idle \in {{}, {"pytest"}, {"syntax", "mypy"}, Check} : IdleChecks(idle)
    /\ print' = IF req.auto THEN [print EXCEPT !.before = edits] ELSE print
    /\ UNCHANGED <<edits, req, marked, permits, seen, answer>>

AdmissionFails ==
    /\ Here("admit") /\ entry = "none"
    /\ entry' = "raised"
    /\ who' = "failed"
    /\ UNCHANGED <<edits, plan, req, print, stage, marked, permits, seen, answer>>

\* ------------------------------------------------------------------ one stage
StageOver(c) == stage[c].at \in Ends
Before(c) == {Order[i] : i \in {j \in DOMAIN Order : \E k \in DOMAIN Order : Order[k] = c /\ j < k}}
AnyRaised == \E c \in Check : stage[c].at = "raised"

Halted(c) ==
    \/ req.failFast /\ \E b \in Before(c) : StageOver(b) /\ stage[b].at \notin Fine
    \/ req.parallel /\ c # "syntax" /\ StageOver("syntax") /\ stage["syntax"].at \notin Fine

\* A sequential check follows all before it; a parallel one the syntax check.
Turn(c) ==
    /\ Here("stages") /\ stage[c].at = "waiting"
    /\ IF req.parallel THEN c = "syntax" \/ StageOver("syntax") ELSE \A b \in Before(c) : StageOver(b)
    /\ AnyRaised => req.parallel /\ c # "syntax" /\ stage["syntax"].at # "raised"

Becomes(c, place) == stage' = [stage EXCEPT ![c].at = place]

SkipStage(c) ==
    /\ Turn(c) /\ (Halted(c) \/ stage[c].skip = "idle")
    /\ stage' = [stage EXCEPT ![c].at = "skipped", ![c].skip = IF Halted(c) THEN "halted" ELSE @]
    /\ UNCHANGED <<edits, plan, req, who, print, marked, entry, permits, seen, answer>>

\* run: the total deadline, or the wait for a permit, which syntax does not need.
EnterStage(c) ==
    /\ Turn(c) /\ ~Halted(c) /\ stage[c].skip = "no"
    /\ \E place \in {IF c = "syntax" THEN "notify" ELSE "permit", "timed_out"} : Becomes(c, place)
    /\ UNCHANGED <<edits, plan, req, who, print, marked, entry, permits, seen, answer>>

\* acquire_runtime_capacity.
TakePermit(c) ==
    /\ stage[c].at = "permit"
    /\ \/ /\ Cardinality(permits.by \union permits.lost) < req.limit
          /\ permits' = [permits EXCEPT !.by = @ \union {c}]
          /\ Becomes(c, "notify")
       \/ Becomes(c, "timed_out") /\ UNCHANGED permits
    /\ UNCHANGED <<edits, plan, req, who, print, marked, entry, seen, answer>>

Notice(c, sent) ==
    seen' = [seen EXCEPT !.possible = @ \/ (req.background /\ stage[c].marked)]

\* notify("stage_started"): a quota error is an error of the stage.
NotifyStarted(c) ==
    /\ stage[c].at = "notify"
    /\ \E sent \in {TRUE, ~req.background} :
          Notice(c, sent) /\ stage' = [stage EXCEPT ![c].at = IF sent THEN "running" ELSE "result",
                                                   ![c].res = IF sent THEN "none" ELSE "unavailable"]
    /\ UNCHANGED <<edits, plan, req, who, print, marked, entry, permits, answer>>

MarkScopes(c) == marked' = TRUE

Dispatch(c) ==
    /\ stage[c].at = "running" /\ c = "pytest" /\ ~stage[c].marked
    /\ stage' = [stage EXCEPT ![c].marked = TRUE]
    /\ MarkScopes(c)
    /\ UNCHANGED <<edits, plan, req, who, print, entry, permits, seen, answer>>

\* The analyzer reads the sources.
ReadSource(c, f) ==
    /\ stage[c].at = "running" /\ (c = "pytest" => stage[c].marked)
    /\ stage[c].saw[f] = 0
    /\ stage' = [stage EXCEPT ![c].saw[f] = edits[f]]
    /\ UNCHANGED <<edits, plan, req, who, print, marked, entry, permits, seen, answer>>

\* package_test and python_packages: one package without its runner is enough
\* for the stage to be unavailable.
PackagesRun == req.auto => plan.selected \subseteq plan.bound

\* The analyzer ends: a result, a timeout, or an exception that makes the
\* stage unavailable.
StageResult(c) ==
    /\ stage[c].at = "running" /\ (c = "pytest" => stage[c].marked)
    /\ \E r \in {"passed", "failed", "timed_out", "unavailable"} :
          /\ r = "passed" => (\A f \in Source : stage[c].saw[f] # 0) /\ PackagesRun
          /\ stage' = [stage EXCEPT ![c].at = "result", ![c].res = r,
                                    ![c].saw = IF r = "passed" THEN @ ELSE Unread]
    /\ UNCHANGED <<edits, plan, req, who, print, marked, entry, permits, seen, answer>>

ExitPermit(c, dirty) ==
    permits' = IF dirty THEN [by |-> permits.by \ {c}, lost |-> permits.lost \union ({c} \intersect permits.by)]
            ELSE [permits EXCEPT !.by = @ \ {c}]

\* An exception that leaves the stage: run_native_operation of the stage, in
\* the scope of the stage, settles the entry it shares as uncertain after dispatch.
LeaveRaising(c) ==
    /\ stage' = [stage EXCEPT ![c].at = "raised", ![c].res = "none", ![c].saw = Unread]
    /\ entry' = IF stage[c].marked THEN "uncertain" ELSE entry

\* process_cleanup_incomplete passes through every handler.
CleanupIncomplete(c) ==
    /\ stage[c].at = "running" /\ c # "syntax" /\ (c = "pytest" => stage[c].marked)
    /\ ExitPermit(c, TRUE)
    /\ LeaveRaising(c)
    /\ UNCHANGED <<edits, plan, req, who, print, marked, seen, answer>>

\* execution_uncertain: tests were dispatched and the result does not say how they ended.
UncertainStage(c) == stage[c].marked /\ stage[c].res \in Unknown

\* execute_stage ends; the event about it may fail and is not caught.
FinishStage(c) ==
    /\ stage[c].at = "result"
    /\ ExitPermit(c, FALSE)
    /\ \E sent \in {TRUE, ~req.background} :
          /\ Notice(c, sent)
          /\ IF sent THEN /\ stage' = [stage EXCEPT ![c].at = stage[c].res, ![c].res = "none",
                                                    ![c].unc = UncertainStage(c)]
                          /\ UNCHANGED entry
             ELSE LeaveRaising(c)
    /\ UNCHANGED <<edits, plan, req, who, print, marked, answer>>

\* ------------------------------------------------------------- the end of it
AllOver == \A c \in Check : StageOver(c)
Uncertain == \E c \in Check : stage[c].unc

\* The auto plan is made again: the same fingerprint, or nothing is certain.
FreshPlan == ~req.auto \/ edits = print.before

FullCoverage ==
    /\ plan.selected # {} /\ plan.selected = Package /\ plan.full
    /\ stage["pytest"].at = "passed"

\* What the plan could not know leaves the outcome unknown, unless all was run.
RequiredKnown ==
    req.auto => /\ plan.missing # "runner"
                /\ plan.missing = "coverage" => FullCoverage

\* orchestrate returns and finish_returned settles the entry.
Orchestrated(ok) ==
    /\ entry' = IF Uncertain THEN "uncertain" ELSE "returned"
    /\ IF req.background
       THEN /\ who' = "after"
            /\ seen' = [seen EXCEPT !.received = TRUE, !.unc = Uncertain]
            /\ UNCHANGED answer
       ELSE /\ answer' = [over |-> TRUE, ok |-> ok, unc |-> Uncertain]
            /\ UNCHANGED <<who, seen>>

PassedAll == \A c \in Check : stage[c].at \in Fine

Return ==
    /\ Here("stages") /\ AllOver /\ ~AnyRaised
    /\ Orchestrated(PassedAll /\ RequiredKnown /\ FreshPlan)
    /\ UNCHANGED <<edits, plan, req, print, stage, marked, permits>>

RaiseOut ==
    /\ Here("stages") /\ AnyRaised
    /\ \A c \in Check : stage[c].at = "waiting" \/ StageOver(c)
    /\ req.parallel /\ stage["syntax"].at # "raised" => AllOver
    /\ entry' = IF marked \/ entry = "uncertain" THEN "uncertain" ELSE "raised"
    /\ who' = "failed"
    /\ UNCHANGED <<edits, plan, req, print, stage, marked, permits, seen, answer>>

StillFresh == print.partial = print.before

ReportResult ==
    /\ Here("after") /\ Hashed
    /\ answer' = [over |-> TRUE, ok |-> PassedAll /\ StillFresh, unc |-> seen.unc]
    /\ UNCHANGED <<edits, plan, req, who, print, stage, marked, entry, permits, seen>>

\* A snapshot that fails or an event that cannot be sent.
WorkerFails ==
    /\ req.background /\ (Here("before") \/ Here("after"))
    /\ who' = "failed"
    /\ UNCHANGED <<edits, plan, req, print, stage, marked, entry, permits, seen, answer>>

\* run_request's handler: what may have been executed is told.  In the
\* foreground the exception itself reaches the caller.
ReportFailure ==
    /\ Here("failed")
    /\ answer' = [over |-> TRUE, ok |-> FALSE,
                  unc |-> IF req.background THEN seen.unc \/ (seen.possible /\ ~seen.received)
                          ELSE entry = "uncertain"]
    /\ UNCHANGED <<edits, plan, req, who, print, stage, marked, entry, permits, seen>>

EditSource(f) ==
    /\ edits[f] < EditMax /\ ~answer.over
    /\ edits' = [edits EXCEPT ![f] = @ + 1]
    /\ UNCHANGED <<plan, req, who, print, stage, marked, entry, permits, seen, answer>>

VerificationNext ==
    \/ \E f \in Source : HashFile(f) \/ EditSource(f)
    \/ Pin \/ CompareFirst \/ Admit \/ AdmissionFails
    \/ \E c \in Check :
          \/ SkipStage(c) \/ EnterStage(c) \/ TakePermit(c) \/ NotifyStarted(c) \/ Dispatch(c)
          \/ (\E f \in Source : ReadSource(c, f))
          \/ StageResult(c) \/ CleanupIncomplete(c) \/ FinishStage(c)
    \/ Return \/ RaiseOut \/ ReportResult \/ WorkerFails \/ ReportFailure

VerificationSpec == VerificationInit /\ [][VerificationNext]_verificationVars

\* ---------------------------------------------------------------- properties
\* Types; a permit that is out or quarantined is one of a check that needs it.
VerificationTypeOK ==
    /\ edits \in [Source -> 1..EditMax]
    /\ \A c \in Check : stage[c].saw \in [Source -> 0..EditMax]
    /\ entry \in {"none", "open", "returned", "raised", "uncertain"}
    /\ permits.by \union permits.lost \subseteq Check \ {"syntax"}
    /\ answer.over => entry # "open"
    /\ answer.ok => answer.over

\* A positive answer with a fingerprint is about the sources that have it:
\* every check that ran passed on those very contents, and no check was left
\* out because another one failed.
OkIsAboutTheSources ==
    answer.ok =>
        \A c \in Check :
            /\ stage[c].at \in Fine /\ stage[c].skip # "halted"
            /\ stage[c].at = "passed" /\ (req.background \/ req.auto) => stage[c].saw = print.before

\* A positive answer of the auto backend ran every package it selected, and
\* every package of the repository when the impact of the change is not known.
AutoOkCovers ==
    answer.ok /\ req.auto =>
        /\ plan.selected \subseteq plan.bound
        /\ plan.missing = "nothing" \/ (plan.bound = Package /\ stage["pytest"].at = "passed")

\* The journal never calls a verification that may have run tests a known
\* failure: an entry settled as raised had dispatched nothing, and one settled
\* as returned knows how every dispatched test run ended.
DispatchIsJournalled ==
    /\ entry = "raised" => ~\E c \in Check : stage[c].marked
    /\ entry = "returned" => \A c \in Check : stage[c].marked => stage[c].at \in {"passed", "failed"}

\* An answer of the background worker that does not mention uncertainty knows
\* how the dispatched tests ended, unless their processes could not be ended.
UncertaintyReported ==
    answer.over /\ req.background /\ ~answer.unc =>
        \A c \in Check : stage[c].marked =>
            \/ stage[c].at \in {"passed", "failed"} /\ seen.received
            \/ c \in permits.lost

\* Every analyzer permit is given back or quarantined when the call is over,
\* and never more are out than there are.
PermitsReturned ==
    /\ Cardinality(permits.by \union permits.lost) <= req.limit
    /\ answer.over => permits.by = {}

\* With fail_fast, or in a pool after the syntax check, no check runs once an
\* earlier one has failed.
FailureHalts ==
    \A c \in Check :
      stage[c].at = "waiting" /\ stage'[c].at \notin {"waiting", "skipped"} =>
         /\ req.failFast => \A b \in Before(c) : stage[b].at \in Fine
         /\ req.parallel /\ c # "syntax" => stage["syntax"].at \in Fine

=============================================================================
