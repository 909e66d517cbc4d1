-------------------------- MODULE SequentialWorkflow --------------------------
(***************************************************************************)
(* One sequential workflow: its rows in core/workflow_store.py, the        *)
(* executions of core/workflow_executor.py (execute) that run it one step  *)
(* after the other, crashes, expired leases, restart recovery, the         *)
(* operator's cancellation, resume and resolution.                         *)
(*                                                                         *)
(* Every store call is one transaction, hence one step: an operation row   *)
(* and its step row are written by two of them.  An execution stands for   *)
(* its lease token (the owner id of a call carries a fresh uuid, so a      *)
(* lease is never re-entered).  A row version is kept as rseen[x]: the row *)
(* has not been written since execution x read it.                         *)
(***************************************************************************)
EXTENDS Integers, FiniteSets

CONSTANTS
    StepCount,      \* len(definition.steps)
    Run,            \* executions; each is one call of execute
    NoRun,          \* no lease row
    Mutating,       \* steps whose action mutates
    Retried,        \* steps whose descriptor has retry_policy "transient"
    Intent,         \* steps that declare an execution intent
    RetryMax        \* max_retries of every step

StepNo == 0 .. StepCount - 1

ASSUME SequentialAssumption ==
    /\ StepCount \in Nat \ {0} /\ RetryMax \in Nat /\ IsFiniteSet(Run) /\ NoRun \notin Run
    /\ Mutating \subseteq StepNo /\ Intent \subseteq StepNo
    /\ Retried \subseteq StepNo \ Mutating

VARIABLES
    swf, scur, scancel,     \* workflows.state, current_step, cancel_requested_at
    slease, slive,          \* workflow_leases.lease_token; it has not expired
    sop, stries, srouted,   \* operation -> state, attempts, a route is selected
    sstep,                  \* step -> workflow_steps.state
    rpc,                    \* execution -> where it is
    ridx, ratt,             \* execution -> index and attempts of its loop
    rsnap,                  \* execution -> the operations it listed
    rseen,                  \* execution -> the workflow row it read is current
    rkind,                  \* execution -> uncertain argument of _fail
    sstarted,               \* history: step -> times its action began
    slate                   \* history: execution -> actions it began after a cancellation

workflowVars == <<swf, scur, scancel>>
leaseVars == <<slease, slive>>
opRows == <<sop, stries, srouted, sstep>>
runVars == <<ridx, ratt, rsnap, rkind>>
stepHistory == <<sstarted, slate>>
sequentialVars == <<swf, scur, scancel, slease, slive, sop, stries, srouted, sstep,
                    rpc, ridx, ratt, rsnap, rseen, rkind, sstarted, slate>>

Succeeded == {"succeeded", "acknowledged"}
InProgress == {"running", "cancelling"}
NoRows == [states |-> [s \in StepNo |-> "created"], attempts |-> [s \in StepNo |-> 0]]

SequentialInit ==
    /\ swf = "queued" /\ scur = 0 /\ scancel = FALSE /\ slease = NoRun /\ slive = FALSE
    /\ sop = [s \in StepNo |-> "created"] /\ stries = [s \in StepNo |-> 0] /\ srouted = {}
    /\ sstep = [s \in StepNo |-> "created"]
    /\ rpc = [x \in Run |-> "idle"] /\ ridx = [x \in Run |-> 0] /\ ratt = [x \in Run |-> 0]
    /\ rsnap = [x \in Run |-> NoRows] /\ rseen = [x \in Run |-> FALSE]
    /\ rkind = [x \in Run |-> "failed"]
    /\ sstarted = [s \in StepNo |-> 0] /\ slate = [x \in Run |-> 0]
-----------------------------------------------------------------------------
(* The store.                                                              *)

\* The lease checks of the fenced calls.
Holds(x) == slease = x /\ slive

CancelAsked == scancel \/ swf \in {"cancelling", "cancelled"}

\* OPERATION_TRANSITIONS
OperationMoves(from, to) ==
    CASE from = "created" -> to \in {"running", "cancelled"}
      [] from = "running" -> to \in {"succeeded", "failed", "uncertain", "cancelled"}
      [] from = "uncertain" -> to \in {"reconciling", "acknowledged", "unresolvable", "cancelled"}
      [] from = "failed" -> to \in {"running", "cancelled"}
      [] OTHER -> FALSE

\* Execution x moves on to a place where the given rows are all it reads.
Proceed(x, place) == rpc' = [rpc EXCEPT ![x] = place]

\* Execution x goes to a place where it needs none of its local variables.
Forgets(x, place) ==
    /\ Proceed(x, place)
    /\ ridx' = [ridx EXCEPT ![x] = 0] /\ ratt' = [ratt EXCEPT ![x] = 0]
    /\ rsnap' = [rsnap EXCEPT ![x] = NoRows] /\ rkind' = [rkind EXCEPT ![x] = "failed"]

\* An exception reaches the finally clause of execute, or execute returns.
Leaves(x) == Forgets(x, "leaving") /\ rseen' = [rseen EXCEPT ![x] = FALSE]

Raises(x) == Leaves(x) /\ UNCHANGED <<workflowVars, leaseVars, opRows, stepHistory>>

\* checkpoint_operation in place `from` of execution x, which goes on at `to`.
CheckpointOperation(x, from, state, tried, to) ==
    LET s == ridx[x]
        allowed == Holds(x) /\ OperationMoves(sop[s], state)
    IN  /\ rpc[x] = from
        /\ \/ /\ allowed
              /\ sop' = [sop EXCEPT ![s] = state]
              /\ stries' = [stries EXCEPT ![s] = @ + tried]
              /\ Proceed(x, to)
              /\ UNCHANGED <<workflowVars, leaseVars, srouted, sstep, runVars, rseen, stepHistory>>
           \/ ~allowed /\ Raises(x)

\* checkpoint_step
CheckpointStep(x, from, state, to) ==
    /\ rpc[x] = from
    /\ \/ /\ Holds(x)
          /\ sstep' = [sstep EXCEPT ![ridx[x]] = state]
          /\ Proceed(x, to)
          /\ UNCHANGED <<workflowVars, leaseVars, sop, stries, srouted, runVars, rseen, stepHistory>>
       \/ ~Holds(x) /\ Raises(x)

\* The workflow row is written: whoever read it before has a stale version.
WriteWorkflow(state, current) ==
    swf' = state /\ scur' = current /\ rseen' = [y \in Run |-> FALSE]

\* get: the row version is current for x until somebody writes the row.
ReadWorkflow(x, from, to) ==
    /\ rpc[x] = from
    /\ rseen' = [rseen EXCEPT ![x] = TRUE]
    /\ Proceed(x, to)
    /\ UNCHANGED <<workflowVars, leaseVars, opRows, runVars, stepHistory>>
-----------------------------------------------------------------------------
(* execute                                                                 *)

ReadQueuedWorkflow(x) == swf = "queued" /\ ReadWorkflow(x, "idle", "leasing")

\* acquire_lease: another live lease refuses, an expired one is taken over.
TakeLease(x) ==
    /\ rpc[x] = "leasing"
    /\ \/ /\ slease = NoRun \/ ~slive
          /\ slease' = x /\ slive' = TRUE
          /\ Proceed(x, "starting") /\ UNCHANGED rseen
       \/ /\ slease # NoRun /\ slive
          /\ Proceed(x, "done") /\ rseen' = [rseen EXCEPT ![x] = FALSE] /\ UNCHANGED leaseVars
    /\ UNCHANGED <<workflowVars, opRows, runVars, stepHistory>>

\* The transition to running, with the version read before the lease; the loop
\* starts at the current_step it returns.
BeginRunning(x) ==
    /\ rpc[x] = "starting"
    /\ \/ /\ rseen[x] /\ Holds(x)
          /\ WriteWorkflow("running", scur)
          /\ ridx' = [ridx EXCEPT ![x] = scur]
          /\ Proceed(x, "listing")
          /\ UNCHANGED <<scancel, leaseVars, opRows, ratt, rsnap, rkind, stepHistory>>
       \/ ~(rseen[x] /\ Holds(x)) /\ Raises(x)

\* list_operations: the loop works on this snapshot.
ListOperations(x) ==
    /\ rpc[x] = "listing"
    /\ rsnap' = [rsnap EXCEPT ![x] = [states |-> sop, attempts |-> stries]]
    /\ Proceed(x, "next")
    /\ UNCHANGED <<workflowVars, leaseVars, opRows, ridx, ratt, rkind, rseen, stepHistory>>

\* The head of the loop: past the end, over a succeeded step, or into a step
\* unless a cancellation is requested.
NextStep(x) ==
    /\ rpc[x] = "next"
    /\ \/ ridx[x] = StepCount /\ Leaves(x)
       \/ /\ ridx[x] < StepCount /\ rsnap[x].states[ridx[x]] = "succeeded"
          /\ ridx' = [ridx EXCEPT ![x] = @ + 1]
          /\ UNCHANGED <<rpc, ratt, rsnap, rkind, rseen>>
       \/ /\ ridx[x] < StepCount /\ rsnap[x].states[ridx[x]] # "succeeded"
          /\ Proceed(x, IF CancelAsked THEN "cancelOperation" ELSE "plan")
          /\ ratt' = [ratt EXCEPT ![x] = rsnap[x].attempts[ridx[x]] + 1]
          /\ UNCHANGED <<ridx, rsnap, rkind, rseen>>
    /\ UNCHANGED <<workflowVars, leaseVars, opRows, stepHistory>>

\* _plan_route with record_route_decision, then prepare_action_intent: either
\* may fail, with the route recorded or not.
PlanRoute(x) ==
    LET s == ridx[x]
        recordable == Holds(x) /\ sop[s] \in {"created", "failed", "waiting"}
    IN  /\ rpc[x] = "plan"
        /\ \/ srouted' = srouted /\ Proceed(x, IF s \in Intent THEN "planFailed" ELSE "begin")
           \/ /\ s \in Intent /\ recordable
              /\ srouted' = srouted \cup {s}
              /\ \E to \in {"begin", "planFailed"} : Proceed(x, to)
           \/ srouted' = srouted /\ s \notin Intent /\ Proceed(x, "planFailed")
        /\ UNCHANGED <<workflowVars, leaseVars, sop, stries, sstep, runVars, rseen, stepHistory>>

\* The action starts; from here the outcome is unknown until it is recorded.
StartAction(x) ==
    /\ rpc[x] = "act"
    /\ sstarted' = [sstarted EXCEPT ![ridx[x]] = @ + 1]
    /\ slate' = [slate EXCEPT ![x] = @ + IF scancel THEN 1 ELSE 0]
    /\ Proceed(x, "acting")
    /\ UNCHANGED <<workflowVars, leaseVars, opRows, runVars, rseen>>

\* The action or its postcondition ends; ensure_current asks for the lease.
EndAction(x) ==
    /\ rpc[x] = "acting"
    /\ \/ ~Holds(x) /\ Raises(x)
       \/ /\ Holds(x)
          /\ \/ Proceed(x, "succeeded")
             \/ Proceed(x, "failedOperation")
             \/ Proceed(x, "uncertainOperation")
             \/ Proceed(x, "transientOperation")
             \/ CancelAsked /\ Proceed(x, "cancelOperation")
          /\ UNCHANGED <<workflowVars, leaseVars, opRows, runVars, rseen, stepHistory>>

\* The row read after the step was recorded decides what follows.  A stale
\* version raises: recording the succeeded operation as failed is refused, and
\* that exception leaves.
Conclude(x) ==
    LET next == ridx[x] + 1
        current == rseen[x] /\ Holds(x)
    IN  /\ rpc[x] = "conclude"
        /\ \/ /\ current /\ swf = "cancelling"
              /\ WriteWorkflow("cancelled", next)
              /\ Forgets(x, "leaving")
              /\ UNCHANGED <<scancel, leaseVars, opRows, stepHistory>>
           \/ /\ current /\ swf = "running"
              /\ WriteWorkflow(IF next = StepCount THEN "completed" ELSE "running", next)
              /\ Proceed(x, "renew")
              /\ UNCHANGED <<scancel, leaseVars, opRows, runVars, stepHistory>>
           \/ ~(current /\ swf \in InProgress) /\ Raises(x)

\* renew_lease after a step
Renew(x) ==
    /\ rpc[x] = "renew"
    /\ \/ /\ Holds(x) /\ Proceed(x, "next")
          /\ ridx' = [ridx EXCEPT ![x] = @ + 1]
          /\ UNCHANGED <<workflowVars, leaseVars, opRows, ratt, rsnap, rkind, rseen, stepHistory>>
       \/ ~Holds(x) /\ Raises(x)

MayRetry(x) == ridx[x] \in Retried /\ ratt[x] <= RetryMax

\* After a transient failure: cancelled, retried under a renewed lease, or failed.
AfterTransient(x) ==
    /\ rpc[x] = "afterTransient"
    /\ \/ CancelAsked /\ Proceed(x, "cancelOperation") /\ UNCHANGED <<runVars, rseen>>
       \/ ~CancelAsked /\ MayRetry(x) /\ Holds(x) /\ Proceed(x, "again") /\ UNCHANGED <<runVars, rseen>>
       \/ ~CancelAsked /\ MayRetry(x) /\ ~Holds(x) /\ Leaves(x)
       \/ /\ ~CancelAsked /\ ~MayRetry(x)
          /\ Proceed(x, "failStep") /\ UNCHANGED <<runVars, rseen>>
    /\ UNCHANGED <<workflowVars, leaseVars, opRows, stepHistory>>

\* The backoff ends: ensure_current, then the head of the attempt loop.
TryAgain(x) ==
    /\ rpc[x] = "again"
    /\ \/ ~Holds(x) /\ Raises(x)
       \/ /\ Holds(x)
          /\ Proceed(x, IF CancelAsked THEN "cancelOperation" ELSE "plan")
          /\ ratt' = [ratt EXCEPT ![x] = @ + 1]
          /\ UNCHANGED <<workflowVars, leaseVars, opRows, ridx, rsnap, rkind, rseen, stepHistory>>

\* _cancel_operation: a cancelled operation is not cancelled again.
CancelOperation(x) ==
    \/ /\ rpc[x] = "cancelOperation" /\ sop[ridx[x]] = "cancelled"
       /\ Proceed(x, "cancelStep")
       /\ UNCHANGED <<workflowVars, leaseVars, opRows, runVars, rseen, stepHistory>>
    \/ /\ rpc[x] = "cancelOperation" /\ sop[ridx[x]] # "cancelled"
       /\ CheckpointOperation(x, "cancelOperation", "cancelled", 0, "cancelStep")

CancelWorkflow(x) ==
    LET current == rseen[x] /\ Holds(x) /\ swf \in InProgress
    IN  /\ rpc[x] = "cancelWorkflow"
        /\ \/ /\ current
              /\ WriteWorkflow("cancelled", ridx[x])
              /\ Forgets(x, "leaving")
              /\ UNCHANGED <<scancel, leaseVars, opRows, stepHistory>>
           \/ ~current /\ Raises(x)

\* _fail: the transition with the row it has just read.
FailWorkflow(x) ==
    LET current == rseen[x] /\ Holds(x) /\ swf \in InProgress
    IN  /\ rpc[x] = "failWorkflow"
        /\ \/ /\ current
              /\ WriteWorkflow(rkind[x], scur)
              /\ Forgets(x, "leaving")
              /\ UNCHANGED <<scancel, leaseVars, opRows, stepHistory>>
           \/ ~current /\ Raises(x)

\* _fail is entered with uncertain = TRUE.
RecordUncertain(x) ==
    LET s == ridx[x]
        allowed == Holds(x) /\ OperationMoves(sop[s], "uncertain")
    IN  /\ rpc[x] = "uncertainOperation"
        /\ \/ /\ allowed
              /\ sop' = [sop EXCEPT ![s] = "uncertain"]
              /\ rkind' = [rkind EXCEPT ![x] = "uncertain"]
              /\ Proceed(x, "failStep")
              /\ UNCHANGED <<workflowVars, leaseVars, stries, srouted, sstep, ridx, ratt, rsnap, rseen, stepHistory>>
           \/ ~allowed /\ Raises(x)

\* The finally clause: release_lease_if_current.
ReleaseOwnLease(x) ==
    /\ rpc[x] = "leaving"
    /\ IF slease = x THEN slease' = NoRun /\ slive' = FALSE ELSE UNCHANGED leaseVars
    /\ Proceed(x, "done")
    /\ UNCHANGED <<workflowVars, opRows, runVars, rseen, stepHistory>>

Execute(x) ==
    \/ ReadQueuedWorkflow(x) \/ TakeLease(x) \/ BeginRunning(x) \/ ListOperations(x)
    \/ NextStep(x) \/ PlanRoute(x)
    \/ CheckpointOperation(x, "planFailed", "running", 1, "planFailedStep")
    \/ CheckpointStep(x, "planFailedStep", "running", "failedOperation")
    \/ CheckpointOperation(x, "begin", "running", 1, "beginStep")
    \/ CheckpointStep(x, "beginStep", "running", "act")
    \/ StartAction(x) \/ EndAction(x)
    \/ CheckpointOperation(x, "succeeded", "succeeded", 0, "succeededStep")
    \/ CheckpointStep(x, "succeededStep", "completed", "latest")
    \/ ReadWorkflow(x, "latest", "conclude") \/ Conclude(x) \/ Renew(x)
    \/ CheckpointOperation(x, "transientOperation", "failed", 0, "afterTransient")
    \/ AfterTransient(x) \/ TryAgain(x)
    \/ CheckpointOperation(x, "failedOperation", "failed", 0, "failStep")
    \/ RecordUncertain(x)
    \/ CheckpointStep(x, "failStep", rkind[x], "failRead")
    \/ ReadWorkflow(x, "failRead", "failWorkflow") \/ FailWorkflow(x)
    \/ CancelOperation(x)
    \/ CheckpointStep(x, "cancelStep", "cancelled", "cancelRead")
    \/ ReadWorkflow(x, "cancelRead", "cancelWorkflow") \/ CancelWorkflow(x)
    \/ ReleaseOwnLease(x)
-----------------------------------------------------------------------------
(* Faults, recovery and the operator.                                      *)

\* The process of an execution dies; its lease stays.
CrashRun(x) ==
    /\ rpc[x] \notin {"idle", "done"}
    /\ Forgets(x, "done")
    /\ rseen' = [rseen EXCEPT ![x] = FALSE]
    /\ UNCHANGED <<workflowVars, leaseVars, opRows, stepHistory>>

\* The holder fails to renew in time.
LeaseExpires ==
    /\ slease # NoRun /\ slive
    /\ slive' = FALSE
    /\ UNCHANGED <<workflowVars, slease, opRows, rpc, runVars, rseen, stepHistory>>

\* The operation that the interrupted execution had not begun.
Untouched(s) ==
    /\ swf = "running" /\ ~scancel
    /\ sop[s] = "created" /\ stries[s] = 0 /\ sstep[s] = "created"

\* In progress without a live lease.
Interrupted == swf \in InProgress /\ (slease = NoRun \/ ~slive)

\* recover_interrupted, for a sequential workflow without a live lease.
RecoverSequential ==
    LET s == scur
    IN  /\ Interrupted
        /\ \/ /\ sop[s] = "succeeded"
              /\ sstep' = [sstep EXCEPT ![s] = "completed"]
              /\ WriteWorkflow(IF scancel THEN "cancelled"
                               ELSE IF s + 1 >= StepCount THEN "completed" ELSE "paused", s + 1)
              /\ UNCHANGED sop
           \/ /\ sop[s] \in {"failed", "unresolvable"}
              /\ sstep' = [sstep EXCEPT ![s] = "failed"]
              /\ WriteWorkflow("failed", s)
              /\ UNCHANGED sop
           \/ /\ sop[s] = "cancelled"
              /\ sstep' = [sstep EXCEPT ![s] = "cancelled"]
              /\ WriteWorkflow("cancelled", s)
              /\ UNCHANGED sop
           \/ /\ Untouched(s)
              /\ WriteWorkflow("paused", s)
              /\ UNCHANGED <<sop, sstep>>
           \/ /\ sop[s] \in {"created", "running", "uncertain", "acknowledged"} /\ ~Untouched(s)
              /\ WriteWorkflow("uncertain", s)
              /\ sstep' = [sstep EXCEPT ![s] = IF @ \in {"created", "running"} THEN "uncertain" ELSE @]
              /\ sop' = [sop EXCEPT ![s] = IF @ \in {"created", "running"} THEN "uncertain" ELSE @]
        /\ slease' = NoRun /\ slive' = FALSE
        /\ UNCHANGED <<scancel, stries, srouted, rpc, runVars, stepHistory>>

\* request_cancel
CancelRequest ==
    /\ swf \notin {"completed", "cancelled", "cancelling"}
    /\ scancel' = TRUE
    /\ WriteWorkflow(IF swf = "running" THEN "cancelling" ELSE "cancelled", scur)
    /\ UNCHANGED <<leaseVars, opRows, rpc, runVars, stepHistory>>

\* Mutant: a failed step that mutates may be replayed.
Replayable(s) == TRUE

\* _require_safe_resume for one failed step: a sequential step records no
\* dispatch phase, so a mutating one has no proof that nothing was sent.
ReplaySafe(s) == s \notin Mutating

\* workflow_resume and transition(QUEUED)
ResumeSequential ==
    /\ swf \in {"paused", "failed"}
    /\ \A s \in StepNo : /\ sop[s] \notin {"running", "waiting", "uncertain", "reconciling"}
                         /\ sop[s] \in {"failed", "unresolvable"} => ReplaySafe(s)
    /\ WriteWorkflow("queued", scur)
    /\ UNCHANGED <<scancel, leaseVars, opRows, rpc, runVars, stepHistory>>

\* resolve_uncertain_operation, by reconcile_operation or acknowledge_operation.
\* A resolution that stays uncertain changes nothing that is modelled.
ResolveSequential(s, result) ==
    /\ swf = "uncertain" /\ sop[s] = "uncertain"
    /\ sop' = [sop EXCEPT ![s] = result]
    /\ IF result \in Succeeded
       THEN /\ sstep' = [sstep EXCEPT ![s] = "completed"]
            /\ WriteWorkflow(IF s + 1 = StepCount THEN "completed" ELSE "paused", s + 1)
       ELSE /\ sstep' = [sstep EXCEPT ![s] = "failed"]
            /\ WriteWorkflow("failed", s)
    /\ UNCHANGED <<scancel, leaseVars, stries, srouted, rpc, runVars, stepHistory>>

SequentialNext ==
    \/ \E x \in Run : Execute(x) \/ CrashRun(x)
    \/ LeaseExpires \/ RecoverSequential \/ CancelRequest \/ ResumeSequential
    \/ \E s \in StepNo, result \in {"succeeded", "acknowledged", "failed", "unresolvable"} :
          ResolveSequential(s, result)

SequentialSpec == SequentialInit /\ [][SequentialNext]_sequentialVars

(***************************************************************************)
(* A running execution goes on, an abandoned lease runs out, and every     *)
(* store that is opened recovers what has no live lease.                   *)
(***************************************************************************)
Abandoned == slease # NoRun /\ rpc[slease] = "done" /\ LeaseExpires

SequentialFairness ==
    /\ \A x \in Run : WF_sequentialVars(Execute(x) /\ rpc[x] # "idle")
    /\ WF_sequentialVars(Abandoned)
    /\ WF_sequentialVars(RecoverSequential)

SequentialFairSpec == SequentialSpec /\ SequentialFairness
-----------------------------------------------------------------------------
(* Properties.                                                             *)

\* The rows and the executions stay in their types: an index or an attempt
\* count out of its range would read a step that is not there.
SequentialTypeOK ==
    /\ swf \in {"queued", "running", "cancelling", "paused", "failed", "uncertain", "completed", "cancelled"}
    /\ scur \in 0 .. StepCount /\ (scur = StepCount => swf \in {"completed", "cancelled", "running"})
    /\ swf \in InProgress => scur \in StepNo
    /\ slease \in Run \cup {NoRun} /\ slive \in BOOLEAN
    /\ \A s \in StepNo : stries[s] <= RetryMax + Cardinality(Run)
    /\ \A x \in Run : ridx[x] \in 0 .. StepCount

\* The action of a mutating step begins at most once in the life of the
\* workflow, through crashes, lost leases, recoveries, resumes and resolutions
\* (execute checkpoints before it acts; recover_interrupted and
\* _require_safe_resume never replay what may have happened).
MutatesOnce == \A s \in Mutating : sstarted[s] <= 1

\* A step acts only when every step before it succeeded or was acknowledged,
\* and a step with an intent only after its route was recorded (current_step,
\* the snapshot of execute, and record_route_decision agree).
StepsInOrder ==
    \A s \in StepNo : sstarted[s] > 0 =>
        /\ \A t \in 0 .. s - 1 : sop[t] \in Succeeded
        /\ s \in Intent => s \in srouted

\* A workflow at rest has no operation in progress, it is completed only when
\* every operation succeeded, and step rows agree with operation rows (two
\* transactions write them, and recover_interrupted repairs what a crash between
\* them left).  One pair is left apart: a retry that dies before its step row is
\* written keeps the "failed" of the try before.
RestIsConsistent ==
    swf \in {"paused", "failed", "uncertain", "completed"} =>
        \A s \in StepNo :
            /\ sop[s] # "running"
            /\ swf = "completed" => sop[s] \in Succeeded
            /\ swf \in {"paused", "failed"} => sop[s] # "uncertain"
            /\ sop[s] \in Succeeded <=> sstep[s] = "completed"
            /\ sop[s] \in {"failed", "unresolvable"} => sstep[s] = "failed"
            /\ sop[s] = "uncertain" => sstep[s] = "uncertain" \/ (sstep[s] = "failed" /\ stries[s] > 1)

\* After a cancellation is accepted an execution begins at most the one action
\* that it was about to begin (execute asks cancel_requested before every step
\* and before every retry).
CancelStopsSoon == \A x \in Run : slate[x] <= 1

\* What is recorded as known stays: a succeeded, acknowledged or cancelled
\* operation never changes again, an uncertain one only by a resolution
\* or a cancellation (validate_operation_transition behind the lease fence).
KnownStays ==
    \A s \in StepNo :
       /\ sop[s] \in Succeeded \cup {"cancelled", "unresolvable"} => sop'[s] = sop[s]
       /\ sop[s] = "uncertain" /\ sop'[s] # sop[s] => swf = "uncertain"

\* A workflow does not stay in progress: its execution ends it, or dies or
\* loses its lease and recovery ends it.
SequentialRests == swf \in InProgress ~> swf \notin InProgress

\* A sequential execution is sound: mutations act once, steps in their order, a
\* workflow at rest has consistent rows, and a cancellation takes effect before
\* the second action after it (WorkflowExecutor.execute).
SequentialSound ==
    /\ SequentialTypeOK /\ MutatesOnce /\ StepsInOrder /\ RestIsConsistent /\ CancelStopsSoon

(***************************************************************************)
(* Why SequentialSound and KnownStays hold.  Only the holder of the lease  *)
(* writes rows while the workflow is in progress, and it works at the      *)
(* current step: what is before has succeeded, what is behind is           *)
(* untouched, and what the current rows say follows from where the holder  *)
(* is.  Everybody else may at most begin the action it has checkpointed    *)
(* already.                                                                *)
(***************************************************************************)
LoopPlaces == {"listing", "next", "plan", "planFailed", "planFailedStep", "begin", "beginStep", "act",
               "acting", "succeeded", "succeededStep", "latest", "conclude", "renew", "transientOperation",
               "afterTransient", "again", "failedOperation", "uncertainOperation", "failStep", "failRead",
               "failWorkflow", "cancelOperation", "cancelStep", "cancelRead", "cancelWorkflow"}
OperationStates == {"created", "running", "succeeded", "failed", "uncertain", "acknowledged", "unresolvable",
                    "cancelled"}
StepStates == {"created", "running", "completed", "failed", "uncertain", "cancelled"}

SequentialTypes ==
    /\ swf \in {"queued", "running", "cancelling", "paused", "failed", "uncertain", "completed", "cancelled"}
    /\ scur \in 0 .. StepCount /\ scancel \in BOOLEAN
    /\ slease \in Run \cup {NoRun} /\ slive \in BOOLEAN
    /\ sop \in [StepNo -> OperationStates] /\ sstep \in [StepNo -> StepStates]
    /\ stries \in [StepNo -> Nat] /\ srouted \subseteq StepNo
    /\ rpc \in [Run -> LoopPlaces \cup {"idle", "leasing", "starting", "leaving", "done"}]
    /\ ridx \in [Run -> 0 .. StepCount] /\ ratt \in [Run -> Nat]
    /\ rsnap \in [Run -> [states : [StepNo -> OperationStates], attempts : [StepNo -> Nat]]]
    /\ rseen \in [Run -> BOOLEAN] /\ rkind \in [Run -> {"failed", "uncertain"}]
    /\ sstarted \in [StepNo -> Nat] /\ slate \in [Run -> Nat]

\* The workflow row goes with its current step.
WorkflowRow ==
    /\ scur = StepCount => swf \in {"completed", "cancelled"}
    /\ swf = "completed" => scur = StepCount
    /\ swf = "cancelling" => scancel

RowsInOrder ==
    \A t \in StepNo :
       /\ t < scur => sop[t] \in Succeeded /\ sstep[t] = "completed"
       /\ t > scur => sop[t] = "created"
       /\ sop[t] = "created" => sstep[t] = "created" /\ stries[t] = 0 /\ sstarted[t] = 0

\* The rows of step s when the workflow is at rest there, and in progress.
RestingRow(s) ==
    /\ swf = "paused" => sop[s] = "created"
    /\ swf = "queued" => sop[s] = "created" \/ (sop[s] \in {"failed", "unresolvable"} /\ ReplaySafe(s))
    /\ swf = "failed" => sop[s] \in {"failed", "unresolvable"}
    /\ swf = "uncertain" => sop[s] = "uncertain"
    /\ sop[s] \in {"failed", "unresolvable"} => sstep[s] = "failed"
    /\ sop[s] = "uncertain" => sstep[s] = "uncertain" \/ (sstep[s] = "failed" /\ stries[s] > 1)

WorkingRow(s) ==
    /\ sop[s] # "acknowledged"
    /\ sop[s] = "running" => stries[s] > 0 /\ (sstep[s] \in {"created", "running"} \/ (sstep[s] = "failed" /\ stries[s] > 1))
    /\ sop[s] = "failed" => sstep[s] \in {"running", "failed"}
    /\ sop[s] = "unresolvable" => sstep[s] = "failed"
    /\ sop[s] = "uncertain" => sstep[s] \in {"running", "uncertain"}

CurrentRow ==
    /\ swf \in {"queued", "paused", "failed", "uncertain"} => RestingRow(scur)
    /\ swf \in InProgress => WorkingRow(scur)
    /\ scur \in StepNo /\ sop[scur] \in {"failed", "uncertain"} /\ stries[scur] = 0 => scancel

\* What holds of every execution, with or without the lease.
AnyRun(x) ==
    /\ slease = x => rpc[x] \notin {"idle", "leasing"}
    /\ rseen[x] /\ rpc[x] \in {"leasing", "starting"} => swf = "queued"
    /\ rpc[x] \in LoopPlaces \ {"next"} => ridx[x] \in StepNo
    /\ rpc[x] \notin {"failStep", "failRead", "failWorkflow"} => rkind[x] = "failed"
    /\ rpc[x] \in {"begin", "beginStep", "act"} /\ ridx[x] \in Intent => ridx[x] \in srouted
    /\ slate[x] <= 1 /\ (slate[x] > 0 => scancel)
    /\ rpc[x] \in {"plan", "begin", "beginStep", "act"} => slate[x] = 0

\* An execution that is about to act has checkpointed it.
AboutToAct(x) ==
    rpc[x] \in {"beginStep", "act"} =>
        /\ sop[ridx[x]] # "created"
        /\ ridx[x] \in Mutating =>
              /\ sstarted[ridx[x]] = 0
              /\ \A y \in Run : rpc[y] \in {"beginStep", "act"} /\ ridx[y] = ridx[x] => y = x

ActedOnce ==
    \A s \in StepNo : /\ s \in Mutating => sstarted[s] <= 1
                      /\ sstarted[s] > 0 /\ s \in Intent => s \in srouted

Begun == {x \in Run : rpc[x] \notin {"idle", "leasing", "starting"}}

TriesBound == \A s \in StepNo : stries[s] <= RetryMax + Cardinality(Begun)

\* What the current rows say by where the holder is.
HolderRow(x, s) ==
    /\ rpc[x] \in {"listing", "next", "plan", "planFailed", "begin"} =>
          /\ sop[s] \in {"created", "failed", "unresolvable"} /\ (sop[s] # "created" => ReplaySafe(s))
          /\ stries[s] < RetryMax + Cardinality(Begun)
    /\ rpc[x] = "next" => rsnap[x].states[s] = sop[s] /\ rsnap[x].attempts[s] = stries[s]
    /\ rpc[x] = "renew" => sop[s] = "created"
    /\ rpc[x] \in {"plan", "planFailed", "begin"} => ratt[x] = stries[s] + 1 /\ (sop[s] = "failed" => stries[s] > 0)
    /\ rpc[x] \in {"planFailedStep", "beginStep"} => sop[s] = "running"
    /\ rpc[x] \in {"act", "acting", "succeeded", "transientOperation", "uncertainOperation", "failedOperation"} =>
          sop[s] = "running" /\ sstep[s] = "running"
    /\ rpc[x] \in {"beginStep", "act", "acting", "transientOperation", "afterTransient", "again"} => ratt[x] = stries[s]
    /\ rpc[x] \in {"afterTransient", "again"} => sop[s] = "failed" /\ stries[s] > 0
    /\ rpc[x] = "again" => ReplaySafe(s) /\ stries[s] <= RetryMax
    /\ rpc[x] \in {"succeededStep", "latest", "conclude"} => sop[s] = "succeeded"
    /\ rpc[x] \in {"latest", "conclude"} => sstep[s] = "completed"
    /\ rpc[x] \in {"failStep", "failRead", "failWorkflow"} => sop[s] = rkind[x]
    /\ rpc[x] \in {"failRead", "failWorkflow"} => sstep[s] = rkind[x]
    /\ rpc[x] = "cancelOperation" => sop[s] \in {"created", "running", "failed", "unresolvable"}
    /\ rpc[x] \in {"cancelStep", "cancelRead", "cancelWorkflow"} => sop[s] = "cancelled"

Holder(x) ==
    Holds(x) /\ rpc[x] \in LoopPlaces =>
       \/ swf = "completed" /\ \/ rpc[x] = "renew" /\ ridx[x] = StepCount - 1
                               \/ rpc[x] = "next" /\ ridx[x] = StepCount
       \/ /\ swf \in InProgress
          /\ scur = IF rpc[x] = "renew" THEN ridx[x] + 1 ELSE ridx[x]
          /\ rpc[x] # "listing" =>
                \A t \in StepNo : t > ridx[x] => rsnap[x].states[t] = "created" /\ rsnap[x].attempts[t] = 0
          /\ HolderRow(x, scur)

SequentialInv ==
    /\ SequentialTypes /\ WorkflowRow /\ RowsInOrder /\ CurrentRow /\ ActedOnce /\ TriesBound
    /\ \A x \in Run : AnyRun(x) /\ AboutToAct(x) /\ Holder(x)
=============================================================================
