--------------------------- MODULE ActionEvidence ---------------------------
(***************************************************************************)
(* How the outcome of one effectful operation is decided: a workflow       *)
(* action (core/workflow_actions.py) that materialises its intent before   *)
(* it acts, or a tool call of the recovery journal; the postcondition that *)
(* is evaluated afterwards, read by read, by the attempt itself or by an   *)
(* operator's reconciliation (core/reconcilers.py); and the acknowledgement *)
(* that may overtake it.  Other people use the same files, repository and  *)
(* jobs meanwhile: they write contents and commits of their own, never the *)
(* operation's.                                                            *)
(***************************************************************************)
EXTENDS Integers, Sequences, FiniteSets, SequencesExt

CONSTANTS MaxCommits,     \* bound on the length of the history
          MaxVersion,     \* bound on the versions of the operation's row
          TextMax,        \* bound on the file a check_file reads
          NeedleMax,      \* bound on the text it looks for
          ChunkChars      \* characters read at a time (65 536 in the code)

ScanTexts(n) == UNION {[1..k -> {"a", "b"}] : k \in 0..n}

ASSUME ScanAssumption == ChunkChars \in Nat \ {0}

Files == <<"changed", "deleted">>       \* the patch rewrites one and deletes the other
FileSet == Range(Files)
Intended(f) == IF f = "changed" THEN "new" ELSE "absent"
Workflow == {"apply_patch", "git_stage", "git_commit", "run_durable_job"}
Journalled == {"write_file", "delete_file", "start_process"}
Over == {"succeeded", "failed", "cancelled", "acknowledged", "unresolvable"}
Stopped == {"succeeded", "failed", "cancelled"}

VARIABLES files,       \* what each file holds
          log,        \* commits, oldest first: [tree, msg]; HEAD is the last
          index,      \* the staged tree, a set of paths
          child,      \* the git child process of the attempt
          job,        \* the durable job: its status, its row, a cancel request
          pid,        \* who has the recorded pid: nobody, the child, a later process
          op,         \* the operation's row and the attempt on it
          ask,        \* the reconciliation in progress and the version it loaded
          ev,         \* the evidence collected so far
          done,       \* history: the effects of the operation that took place
          absent      \* history: the effect was missing at some time of the evaluation

evidenceVars == <<files, log, index, child, job, pid, op, ask, ev, done, absent>>

HEAD == Len(log)
HeadTree == log[HEAD].tree
NoEvidence == [read |-> 0, ok |-> TRUE, parent |-> 0, tree |-> {}, msg |-> "none"]
NoScan == [text |-> <<>>, needle |-> <<>>, pos |-> 0, tail |-> <<>>]

\* ------------------------------------------------------------------ evidence
\* What an evaluator reports.
Says(conclusive, satisfied) == [conclusive |-> conclusive, satisfied |-> satisfied]
Inconclusive == Says(FALSE, FALSE)

\* _file_absent and _file_sha256: a file that cannot be found is evidence.
FileAbsent == Says(TRUE, files["deleted"] = "absent")
FileSha256 == Says(TRUE, files["changed"] = "new")

\* One file of _files_all_sha256.
FileMatches(f) == files[f] = Intended(f)

\* _git_index_contains: git diff --cached lists what differs from HEAD.
GitIndexContains == Says(TRUE, "mine" \in index \ HeadTree)

GitCommitEffect(e, want) ==
    IF e.parent = want.head /\ e.tree = want.tree /\ e.msg = "mine"
    THEN Says(TRUE, TRUE) ELSE Inconclusive

JobRequestKeyState ==
    IF ~job.row \/ job.status \in {"queued", "running"} THEN Inconclusive
    ELSE Says(TRUE, job.status = "succeeded")

\* _process_identity: the pid alone is not the process.
ProcessIdentity == Says(TRUE, pid = "ours")

\* The effect of the operation, as the world shows it now.
InPlace ==
    CASE op.action = "apply_patch" -> \A f \in FileSet : FileMatches(f)
      [] op.action = "git_stage" -> "mine" \in index \ HeadTree
      [] op.action = "git_commit" -> \E i \in 2..HEAD : log[i].msg = "mine"
      [] op.action = "run_durable_job" -> job.status = "succeeded"
      [] op.action = "write_file" -> files["changed"] = "new"
      [] op.action = "delete_file" -> files["deleted"] = "absent"
      [] op.action = "start_process" -> pid = "ours"
      [] OTHER -> TRUE

\* Everything the operation was to do.
Whole == IF op.action = "apply_patch" THEN FileSet ELSE {"effect"}

\* ------------------------------------------------------------------ the row
Start(action, mode, scan) ==
    [action |-> action, mode |-> mode, st |-> "planned", at |-> "plan",
     want |-> [head |-> 0, tree |-> {}], stored |-> FALSE, version |-> 1, cancel |-> FALSE,
     saw |-> "none", scan |-> scan, by |-> "nobody"]

EvidenceInit ==
    /\ files = [f \in FileSet |-> "old"]
    /\ log = <<[tree |-> {}, msg |-> "theirs"]>>
    /\ index \in {{}, {"mine"}}
    /\ child = "none"
    /\ job = [status |-> "none", row |-> FALSE, cancel |-> FALSE]
    /\ pid = "nobody"
    /\ \/ \E a \in Workflow, m \in {"dag", "sequential"} : op = Start(a, m, NoScan)
       \/ \E a \in Journalled : op = Start(a, "tool", NoScan)
       \/ \E t \in ScanTexts(TextMax), n \in ScanTexts(NeedleMax) :
             op = Start("check_file", "dag", [NoScan EXCEPT !.text = t, !.needle = n])
    /\ op.action # "git_commit" => index = {}
    /\ ask = 0
    /\ ev = NoEvidence
    /\ done = {}
    /\ absent = FALSE

Evaluating == ask # 0 \/ op.at = "evaluate"
\* The history of the evaluation that is going on, or has just ended.
Watched ==
    absent' = IF Evaluating' /\ ~Evaluating THEN ~InPlace'
              ELSE IF Evaluating THEN absent \/ ~InPlace' ELSE absent

World == <<files, log, index, child, job, pid>>

\* An attempt that ends: the row takes its state and a new version.
Rests(state, how) ==
    op' = [op EXCEPT !.st = state, !.at = "rest", !.by = how, !.version = @ + 1, !.saw = "none"]

Raised(kind) ==
    IF op.mode = "dag" THEN Rests("uncertain", "attempt")
    ELSE Rests(CASE kind = "uncertain" -> "uncertain" [] kind = "cancelled" -> "cancelled"
                 [] OTHER -> "failed", "attempt")

\* ------------------------------------------------------- intent and dispatch
Plan(a) == op.at = "plan" /\ op.action \in a

\* Cancelled while it only has a row.
CancelPlanned ==
    /\ Plan(Workflow) /\ op.cancel
    /\ Rests("cancelled", "attempt")
    /\ UNCHANGED <<World, ask, ev, done>>

\* validate_operation or the preparation refuses: nothing was dispatched.
PrepareFails ==
    /\ op.at \in {"plan", "write tree"} /\ op.action \in Workflow
    /\ Rests("failed", "attempt")
    /\ UNCHANGED <<World, ask, ev, done>>

\* prepare_action_intent: the dry run of a patch wants every preimage.
PreparePatch ==
    /\ Plan({"apply_patch"}) /\ \A f \in FileSet : files[f] = "old"
    /\ op' = [op EXCEPT !.at = "store"]
    /\ UNCHANGED <<World, ask, ev, done>>

PrepareSimple ==
    /\ Plan({"git_stage", "run_durable_job"} \union Journalled)
    /\ op' = [op EXCEPT !.at = "store"]
    /\ UNCHANGED <<World, ask, ev, done>>

\* git_commit: rev-parse HEAD, and then write-tree.
PrepareHead ==
    /\ Plan({"git_commit"})
    /\ op' = [op EXCEPT !.at = "write tree", !.want.head = HEAD]
    /\ UNCHANGED <<World, ask, ev, done>>

PrepareTree ==
    /\ op.at = "write tree"
    /\ op' = [op EXCEPT !.at = "store", !.want.tree = index]
    /\ UNCHANGED <<World, ask, ev, done>>

StoreIntent ==
    /\ op.at = "store"
    /\ op' = [op EXCEPT !.at = "act", !.st = "running", !.stored = TRUE, !.version = @ + 1]
    /\ UNCHANGED <<World, ask, ev, done>>

\* ------------------------------------------------------------------ the action
Act(a) == op.at = "act" /\ op.action \in a
Go(place) == op' = [op EXCEPT !.at = place]

\* apply_patch_transaction: preimages again, then file by file, or everything back.
PatchWrites(f) ==
    /\ Act({"apply_patch"}) /\ f \notin done /\ files[f] = "old"
    /\ done = {} => \A g \in FileSet : files[g] = "old"
    /\ files' = [files EXCEPT ![f] = Intended(f)]
    /\ done' = done \union {f}
    /\ UNCHANGED <<log, index, child, job, pid, op, ask, ev>>

PatchFails ==
    /\ Act({"apply_patch"})
    /\ files' = [f \in FileSet |-> IF f \in done THEN "old" ELSE files[f]]
    /\ done' = {}
    /\ Raised("error")
    /\ UNCHANGED <<log, index, child, job, pid, ask, ev>>

PatchDone ==
    /\ Act({"apply_patch"}) /\ done = FileSet
    /\ Go("evaluate") /\ ev' = NoEvidence
    /\ UNCHANGED <<World, ask, done>>

\* _run_git with uncertain_on_timeout: the child, its end, and what is made of it.
GitStarts ==
    /\ Act({"git_stage", "git_commit"}) /\ child = "none"
    /\ child' = "running"
    /\ UNCHANGED <<files, log, index, job, pid, op, ask, ev, done>>

GitLands ==
    /\ child = "running"
    /\ \/ /\ op.action = "git_stage"
          /\ index' = index \union {"mine"} /\ UNCHANGED log
       \/ /\ op.action = "git_commit" /\ index # HeadTree /\ HEAD < MaxCommits
          /\ log' = Append(log, [tree |-> index, msg |-> "mine"]) /\ UNCHANGED index
    /\ child' = "exited"
    /\ done' = {"effect"}
    /\ UNCHANGED <<files, job, pid, op, ask, ev>>

GitRefuses ==
    /\ child = "running"
    /\ child' = "refused"
    /\ UNCHANGED <<files, log, index, job, pid, op, ask, ev, done>>

\* The deadline ends the child wherever it is; its result is not known.
GitTimesOut ==
    /\ Act({"git_stage", "git_commit"}) /\ child # "none"
    /\ child' = IF child = "running" THEN "killed" ELSE child
    /\ Raised("uncertain")
    /\ UNCHANGED <<files, log, index, job, pid, ask, ev, done>>

GitFailed ==
    /\ Act({"git_stage", "git_commit"}) /\ child = "refused"
    /\ Raised("error")
    /\ UNCHANGED <<World, ask, ev, done>>

\* The read after the mutation may time out: a TransientActionError.
GitDone ==
    /\ Act({"git_stage", "git_commit"}) /\ child = "exited"
    /\ \/ Go("evaluate") /\ ev' = NoEvidence
       \/ Raised("error") /\ UNCHANGED ev
    /\ UNCHANGED <<World, ask, done>>

\* _run_durable_job: the submission is found again by its key.
SubmitJob ==
    /\ Act({"run_durable_job"})
    /\ job' = IF job.row THEN job ELSE [job EXCEPT !.status = "queued", !.row = TRUE]
    /\ op' = [op EXCEPT !.at = "wait", !.saw = job'.status]
    /\ UNCHANGED <<files, log, index, child, pid, ask, ev, done>>

SubmitFails ==
    /\ Act({"run_durable_job"})
    /\ Raised("error")
    /\ UNCHANGED <<World, ask, ev, done>>

\* store.cancel: a queued job at once, a running one by its worker.
AfterCancel ==
    CASE job.status = "queued" -> [job EXCEPT !.status = "cancelled"]
      [] job.status = "running" -> [job EXCEPT !.cancel = TRUE]
      [] OTHER -> job

\* One round of the wait on the status that was read last.
JobEnded ==
    /\ op.at = "wait" /\ op.saw \in Stopped
    /\ \/ op.saw = "succeeded" /\ Rests("succeeded", "evidence")
       \/ op.saw = "cancelled" /\ op.cancel /\ Raised("cancelled")
       \/ op.saw # "succeeded" /\ ~(op.saw = "cancelled" /\ op.cancel) /\ Raised("error")
    /\ UNCHANGED <<World, ask, ev, done>>

CancelJob ==
    /\ op.at = "wait" /\ op.saw \notin Stopped /\ op.cancel
    /\ job' = AfterCancel
    /\ IF job'.status = "cancelled" THEN Raised("cancelled")
       ELSE op' = [op EXCEPT !.saw = job'.status]
    /\ UNCHANGED <<files, log, index, child, pid, ask, ev, done>>

WaitJob ==
    /\ op.at = "wait" /\ op.saw \notin Stopped /\ ~op.cancel
    /\ \/ op' = [op EXCEPT !.saw = job.status]
       \/ Raised("uncertain")
    /\ UNCHANGED <<World, ask, ev, done>>

\* Tool calls of the recovery journal: the effect, and then the result.
ToolActs ==
    /\ Act(Journalled) /\ done = {}
    /\ files' = CASE op.action = "write_file" -> [files EXCEPT !["changed"] = "new"]
                 [] op.action = "delete_file" -> [files EXCEPT !["deleted"] = "absent"]
                 [] OTHER -> files
    /\ pid' = IF op.action = "start_process" THEN "ours" ELSE pid
    /\ done' = {"effect"}
    /\ UNCHANGED <<log, index, child, job, op, ask, ev>>

ToolReturns ==
    /\ Act(Journalled)
    /\ \E s \in {"succeeded", "failed"} :
          (s = "succeeded" => done # {}) /\ Rests(s, "attempt")
    /\ UNCHANGED <<World, ask, ev, done>>

\* _check_file: chunk by chunk, keeping one character less than the text sought.
Occurs(needle, text) ==
    \E i \in 0..(Len(text) - Len(needle)) : SubSeq(text, i + 1, i + Len(needle)) = needle
LastChars(s, n) == SubSeq(s, (IF Len(s) > n THEN Len(s) - n ELSE 0) + 1, Len(s))
KeptTail(window, needle) ==
    IF Len(needle) > 1 THEN LastChars(window, Len(needle) - 1) ELSE <<>>

CheckFile ==
    /\ op.at \in {"plan", "scan"} /\ op.action = "check_file"
    /\ LET s == op.scan
           upto == IF s.pos + ChunkChars > Len(s.text) THEN Len(s.text) ELSE s.pos + ChunkChars
           window == s.tail \o SubSeq(s.text, s.pos + 1, upto)
       IN  IF s.needle = <<>> \/ (upto > s.pos /\ Occurs(s.needle, window))
           THEN Rests("succeeded", "evidence")
           ELSE IF upto = s.pos THEN Rests("failed", "attempt")
           ELSE op' = [op EXCEPT !.at = "scan", !.scan.pos = upto,
                                 !.scan.tail = KeptTail(window, s.needle)]
    /\ UNCHANGED <<World, ask, ev, done>>

Overtaken == op.version # ask

\* What the evidence makes of the row: in the attempt, or in a reconciliation.
Settle(v) ==
    IF ask # 0
    THEN /\ ask' = 0
         /\ op' = IF Overtaken THEN op
                  ELSE [op EXCEPT !.version = @ + 1, !.by = "reconcile",
                                  !.st = IF ~v.conclusive THEN "uncertain"
                                         ELSE IF v.satisfied THEN "succeeded" ELSE "failed"]
    ELSE /\ UNCHANGED ask
         /\ IF v.conclusive /\ v.satisfied THEN Rests("succeeded", "evidence")
            ELSE IF ~v.conclusive THEN Raised("uncertain")
            ELSE IF op.mode = "dag" THEN Rests("uncertain", "attempt")
            ELSE Rests("failed", "evidence")
Reads(a) == Evaluating /\ op.action \in a
Reading == ev' = [ev EXCEPT !.read = @ + 1]

\* One read is enough.
EvaluateOnce ==
    /\ Reads({"git_stage", "run_durable_job"} \union Journalled)
    /\ Settle(CASE op.action = "git_stage" -> GitIndexContains
                [] op.action = "run_durable_job" -> JobRequestKeyState
                [] op.action = "write_file" -> FileSha256
                [] op.action = "delete_file" -> FileAbsent
                [] OTHER -> ProcessIdentity)
    /\ UNCHANGED <<World, ev, done>>

AllSatisfied(ok, f) == ok /\ FileMatches(f)
EvaluateFile ==
    /\ Reads({"apply_patch"})
    /\ LET f == Files[ev.read + 1]
           ok == AllSatisfied(ev.ok, f)
       IN  IF ev.read + 1 < Len(Files)
           THEN ev' = [ev EXCEPT !.read = @ + 1, !.ok = ok] /\ UNCHANGED <<op, ask>>
           ELSE Settle(Says(TRUE, ok)) /\ UNCHANGED ev
    /\ UNCHANGED <<World, done>>

\* _git_commit_effect: HEAD, HEAD^, HEAD^{tree} and the message, four commands.
EvaluateCommit ==
    /\ Reads({"git_commit"})
    /\ CASE ev.read = 0 ->
              IF HEAD = op.want.head THEN Settle(Says(TRUE, FALSE)) /\ UNCHANGED ev
              ELSE Reading /\ UNCHANGED <<op, ask>>
         [] ev.read = 1 ->
              ev' = [ev EXCEPT !.read = 2, !.parent = HEAD - 1] /\ UNCHANGED <<op, ask>>
         [] ev.read = 2 ->
              ev' = [ev EXCEPT !.read = 3, !.tree = HeadTree] /\ UNCHANGED <<op, ask>>
         [] OTHER ->
              Settle(GitCommitEffect([ev EXCEPT !.msg = log[HEAD].msg], op.want)) /\ UNCHANGED ev
    /\ UNCHANGED <<World, done>>

\* A read fails, or (in the attempt) the deadline of the evaluation passes.
EvaluationFails ==
    /\ Evaluating
    /\ \/ Settle(Inconclusive)
       \/ ask = 0 /\ Raised("error") /\ UNCHANGED ask
    /\ UNCHANGED <<World, ev, done>>

Crash ==
    /\ op.st = "running"
    /\ child' \in IF child = "running" THEN {"running", "killed"} ELSE {child}
    /\ Rests("uncertain", "attempt")
    /\ UNCHANGED <<files, log, index, job, pid, ask, ev, done>>

RequestCancel ==
    /\ op.at \notin {"rest", "scan"} /\ op.action = "run_durable_job" /\ ~op.cancel
    /\ op' = [op EXCEPT !.cancel = TRUE]
    /\ UNCHANGED <<World, ask, ev, done>>

\* reconcile_operation loads the row; without a stored postcondition it can
\* only find the outcome inconclusive.
Reconcile ==
    /\ op.st = "uncertain" /\ ask = 0 /\ op.version < MaxVersion
    /\ IF op.stored THEN ask' = op.version /\ UNCHANGED op
       ELSE op' = [op EXCEPT !.version = @ + 1] /\ UNCHANGED ask
    /\ ev' = NoEvidence
    /\ UNCHANGED <<World, done>>

\* acknowledge_operation, an operator's own verdict.
Acknowledge ==
    /\ op.st = "uncertain" /\ op.version < MaxVersion
    /\ \E s \in {"acknowledged", "unresolvable", "uncertain"} :
          op' = [op EXCEPT !.st = s, !.by = "operator", !.version = @ + 1]
    /\ UNCHANGED <<World, ask, ev, done>>

\* ---------------------------------------------------------------- the others
OthersWrite ==
    /\ op.action \in {"apply_patch", "write_file", "delete_file"}
    /\ \E f \in FileSet : files' = [files EXCEPT ![f] = "theirs"]
    /\ UNCHANGED <<log, index, child, job, pid, op, ask, ev, done>>

OthersStage ==
    /\ op.action \in {"git_stage", "git_commit"}
    /\ index' = index \union {"theirs"}
    /\ UNCHANGED <<files, log, child, job, pid, op, ask, ev, done>>

OthersCommit ==
    /\ op.action \in {"git_stage", "git_commit"}
    /\ index # HeadTree /\ HEAD < MaxCommits
    /\ log' = Append(log, [tree |-> index, msg |-> "theirs"])
    /\ UNCHANGED <<files, index, child, job, pid, op, ask, ev, done>>

JobMoves ==
    /\ job.row
    /\ job' \in CASE job.status = "queued" -> {[job EXCEPT !.status = "running"]}
                  [] job.status = "running" ->
                       {[job EXCEPT !.status = s] : s \in
                           {"succeeded", "failed"} \union (IF job.cancel THEN {"cancelled"} ELSE {})}
                  [] OTHER -> {[job EXCEPT !.row = FALSE]}     \* retention
    /\ done' = IF job'.status = "succeeded" THEN {"effect"} ELSE done
    /\ UNCHANGED <<files, log, index, child, pid, op, ask, ev>>

ProcessEnds ==
    /\ op.action = "start_process" /\ pid # "nobody"
    /\ pid' \in {"nobody", "reused"}
    /\ UNCHANGED <<files, log, index, child, job, op, ask, ev, done>>

EvidenceNext ==
    /\ \/ CancelPlanned \/ PrepareFails \/ PreparePatch \/ PrepareSimple \/ PrepareHead
       \/ PrepareTree \/ StoreIntent
       \/ (\E f \in FileSet : PatchWrites(f)) \/ PatchFails \/ PatchDone
       \/ GitStarts \/ GitLands \/ GitRefuses \/ GitTimesOut \/ GitFailed \/ GitDone
       \/ SubmitJob \/ SubmitFails \/ JobEnded \/ CancelJob \/ WaitJob
       \/ ToolActs \/ ToolReturns \/ CheckFile
       \/ EvaluateOnce \/ EvaluateFile \/ EvaluateCommit \/ EvaluationFails
       \/ Crash \/ RequestCancel \/ Reconcile \/ Acknowledge
       \/ OthersWrite \/ OthersStage \/ OthersCommit \/ JobMoves \/ ProcessEnds
    /\ Watched

EvidenceSpec == EvidenceInit /\ [][EvidenceNext]_evidenceVars

\* ---------------------------------------------------------------- properties
\* Types, and what belongs together: only a row of an attempt still runs, and
\* a reconciliation holds a version the row has had.
EvidenceTypeOK ==
    /\ files \in [FileSet -> {"old", "new", "theirs", "absent"}]
    /\ log \in Seq([tree : SUBSET {"mine", "theirs"}, msg : {"mine", "theirs"}])
    /\ index \subseteq {"mine", "theirs"}
    /\ child \in {"none", "running", "exited", "refused", "killed"}
    /\ job.status \in {"none", "queued", "running"} \union Stopped
    /\ pid \in {"nobody", "ours", "reused"}
    /\ op.st \in {"planned", "running", "uncertain"} \union Over
    /\ op.st \in Over \union {"uncertain"} <=> op.at = "rest"
    /\ ask \in 0..op.version

\* An operation recorded as succeeded did all it was to do, whoever else wrote
\* files, staged or committed, and whichever reads of the evidence they fell
\* between (reconcile_operation, _postcondition).
SuccessIsReal ==
    op.st = "succeeded" /\ op.action # "check_file" => Whole \subseteq done

\* An operation that its evidence declares failed was missing its effect at
\* some time of that evaluation: a commit that others have built upon is not
\* mistaken for one that never happened (head_diverged_from_expected_commit).
FailureIsAbsence ==
    op.st = "failed" /\ op.by \in {"reconcile", "evidence"} => absent

\* A dispatched attempt of a DAG whose outcome the evidence does not decide is
\* never recorded as failed or cancelled by what its action raised
\* (complete_operation_attempt after the dispatch barrier).
DispatchedIsNotDenied ==
    op.mode = "dag" /\ done # {} /\ op.st \in {"failed", "cancelled"} => op.by = "reconcile"

\* The recorded outcome of a durable job is the outcome the job keeps: it is
\* not called failed or cancelled while it can still run or succeed.
JobVerdictFinal ==
    op.action = "run_durable_job" /\ op.st \in {"failed", "cancelled"} =>
        job.status \notin {"queued", "running", "succeeded"}

\* No effect takes place before the intent it is judged by is on disk.
IntentFirst == done # {} /\ op.action # "check_file" => op.stored

\* A verdict once given stays: a reconciliation that was overtaken by an
\* acknowledgement or by another verdict does not replace it.
VerdictStays == op.st \in Over => op'.st = op.st

\* check_file finds the text exactly when the file contains it, wherever the
\* borders of the chunks fall.
CheckFileExact ==
    op.action = "check_file" /\ op.at = "rest" =>
        (op.st = "succeeded" <=> Occurs(op.scan.needle, op.scan.text))

=============================================================================
