----------------------------- MODULE WorkflowDag -----------------------------
(***************************************************************************)
(* One DAG workflow: its rows in core/workflow_store.py, the executions of *)
(* core/workflow_executor.py that run it (a coordinator and one thread per *)
(* admitted attempt), process crashes, expired leases, restart recovery,   *)
(* cancellation, resume and the operator's resolutions.                    *)
(*                                                                         *)
(* Each store call is one BEGIN IMMEDIATE transaction, hence one step.     *)
(* An attempt <<o, n>> stands for an attempt token, for the resource       *)
(* request reserved for it and for the thread that runs it; its lease      *)
(* token is the execution that owns it.  Resource admission is used        *)
(* through ResourceFence, which ResourceAdmission implements: a request    *)
(* becomes active only when no held request conflicts.                     *)
(*                                                                         *)
(* The row versions are not modelled: within one execution only the        *)
(* attempt's own thread writes its operation, and every other writer       *)
(* (recovery, resolution, requeue) needs the lease to be expired or gone,  *)
(* which fails the same calls with the same handling.                      *)
(***************************************************************************)
EXTENDS Integers, FiniteSets

CONSTANTS
    Op,             \* step indices of the workflow, one operation each
    Exec,           \* executions (lease tokens); each runs once
    Deps,           \* depends_on, by step index
    Clash,          \* pairs of steps whose resource footprints conflict
    Effectful,      \* steps that mutate, or run verify_changes
    Transient,      \* steps whose descriptor has retry_policy "transient"
    Flaky,          \* steps whose footprint derivation may fail
    Contended,      \* steps whose resources others may hold at times
    Spawning,       \* steps that start a child: a job reference, a capacity permit
    MaxRetries,     \* max_retries of every step
    Parallel,       \* effective_cap, max_parallel_steps and global limit
    Attempts,       \* bound on the attempt ids of one step in use at once
    MaxCrash,       \* bound on process crashes
    MaxExpire,      \* bound on leases a live execution fails to renew
    MaxResume,      \* bound on explicit resumes
    NoExec, NoAttempt

Attempt == Op \X (1 .. Attempts)

ASSUME StepAssumption ==
    /\ Op \subseteq Nat /\ IsFiniteSet(Op)
    /\ Deps \in [Op -> SUBSET Op]
    /\ Clash \subseteq Op \X Op
    /\ \A o, p \in Op : <<o, p>> \in Clash => <<p, o>> \in Clash
ASSUME KindAssumption ==
    /\ Effectful \subseteq Op /\ Transient \subseteq Op \ Effectful
    /\ Spawning \subseteq Op
    /\ \A o \in Effectful : <<o, o>> \in Clash
ASSUME BoundAssumption ==
    /\ {MaxRetries, Parallel, Attempts, MaxCrash, MaxExpire, MaxResume} \subseteq Nat
    /\ NoExec \notin Exec /\ NoAttempt \notin Attempt
ASSUME NonEmptyAssumption == Attempts > 0 /\ Exec # {}

VARIABLES
    wf,             \* workflows.state
    cancelled,      \* workflows.cancel_requested_at is set
    lease,          \* lease_token of the workflow_leases row, NoExec when none
    live,           \* the lease has not expired
    st,             \* operation -> state
    phase,          \* operation -> dispatch_phase
    token,          \* operation -> attempt_token
    tries,          \* operation -> attempts (started_at is set when > 0)
    proof,          \* operation -> what evidence_json says about dispatch
    ref,            \* operation -> external_ref_json is set
    admission,      \* operation -> attempt of its admission row
    row,            \* attempt -> state of its resource request
    owner,          \* attempt -> execution that reserved it
    at,             \* attempt -> where its thread is
    fin,            \* attempt -> outcome its thread is about to record
    child,          \* attempts with an unreleased runtime capacity permit
    ex,             \* execution -> where its coordinator is
    todo,           \* execution -> steps left to try to admit in this pass
    stop,           \* execution -> stop_admission_reason ("reason"), stop_signal ("signal")
    crashes, expiries, resumes,     \* how much of each bound is used
    dispatched      \* history: operation -> crossings of the dispatch barrier

wfVars == <<wf, cancelled, lease, live>>
opVars == <<st, phase, token, tries, proof, ref, admission, dispatched>>
threadVars == <<row, owner, at, fin, child>>
execVars == <<ex, todo, stop>>
boundVars == <<crashes, expiries, resumes>>
vars == <<wfVars, opVars, threadVars, execVars, boundVars>>

\* Mutant: a running step counts as successful.
SuccessOrStarted == {"succeeded", "acknowledged", "running"}

Success == {"succeeded", "acknowledged"}
Settled == {"succeeded", "acknowledged", "failed", "unresolvable", "cancelled"}
Unreleased == {"pending", "active", "quarantined"}
Running == {"running", "cancelling"}

OpOf(a) == a[1]
AttemptsOf(o) == {a \in Attempt : OpOf(a) = o}

\* Threads of execution x whose future the coordinator has not collected.
Ended == {"settled", "lost", "raised"}
InFlight(x) ==
    {a \in Attempt : /\ owner[a] = x
                     /\ at[a] \in {"start", "prepared", "acting", "settling", "release"} \cup Ended}

\* resource_waits of execution x.
Waits(x) == {a \in Attempt : owner[a] = x /\ at[a] = "wait"}

\* _require_current_lease_row
LeaseHeld(x) == lease = x /\ live

CancelRequested == cancelled \/ wf \in {"cancelling", "cancelled"}

\* Mutant: the lease of the writer is not checked.
FencedWithoutLease(a) == token[OpOf(a)] = a /\ admission[OpOf(a)] = a

\* The fence of prepare, may_dispatch and complete: token, admission, lease.
Fenced(a) ==
    /\ token[OpOf(a)] = a /\ admission[OpOf(a)] = a
    /\ LeaseHeld(owner[a])

\* retryable() of _execute_dag
Retryable(o) ==
    /\ st[o] = "failed" /\ o \in Transient
    /\ proof[o] = "retry_safe" /\ tries[o] <= MaxRetries

HasRequest(rows, o) == \E a \in AttemptsOf(o) : rows[a] \in Unreleased

(***************************************************************************)
(* _aggregate_state over the given operation, admission and request rows.  *)
(***************************************************************************)
Aggregate(states, admissions, rows, keepRunning) ==
    LET seen == {states[o] : o \in Op}
        active == \E o \in Op : /\ admissions[o] # NoAttempt
                                /\ states[o] \in {"created", "running"}
        unresolved == \/ "uncertain" \in seen
                      \/ \E a \in Attempt : rows[a] \in {"active", "quarantined"}
        isCancelled == cancelled \/ "cancelled" \in seen
    IN  IF active THEN IF isCancelled THEN "cancelling" ELSE "running"
        ELSE IF unresolved THEN "uncertain"
        ELSE IF seen \cap {"failed", "unresolvable"} # {} THEN "failed"
        ELSE IF isCancelled THEN "cancelled"
        ELSE IF seen \subseteq Success THEN "completed"
        ELSE IF keepRunning THEN "running" ELSE "paused"

Init ==
    /\ wf = "queued" /\ cancelled = FALSE /\ lease = NoExec /\ live = FALSE
    /\ st = [o \in Op |-> "created"]
    /\ phase = [o \in Op |-> "none"]
    /\ token = [o \in Op |-> NoAttempt]
    /\ tries = [o \in Op |-> 0]
    /\ proof = [o \in Op |-> "none"]
    /\ ref = [o \in Op |-> FALSE]
    /\ admission = [o \in Op |-> NoAttempt]
    /\ dispatched = [o \in Op |-> 0]
    /\ row = [a \in Attempt |-> "none"]
    /\ owner = [a \in Attempt |-> NoExec]
    /\ at = [a \in Attempt |-> "free"]
    /\ fin = [a \in Attempt |-> "none"]
    /\ child = {}
    /\ ex = [x \in Exec |-> "idle"]
    /\ todo = [x \in Exec |-> {}]
    /\ stop = [x \in Exec |-> "no"]
    /\ crashes = 0 /\ expiries = 0 /\ resumes = 0
-----------------------------------------------------------------------------
(***************************************************************************)
(* The coordinator: _execute_dag                                           *)
(***************************************************************************)

Goto(x, place) == ex' = [ex EXCEPT ![x] = place]

\* execute() reads a queued workflow ...
ReadQueued(x) ==
    /\ ex[x] = "idle" /\ wf = "queued"
    /\ Goto(x, "read")
    /\ UNCHANGED <<wfVars, opVars, threadVars, todo, stop, boundVars>>

\* ... then acquire_lease(allow_reentry=False), which raises on a live lease.
AcquireLease(x) ==
    /\ ex[x] = "read"
    /\ IF lease = NoExec \/ ~ live
       THEN lease' = x /\ live' = TRUE /\ Goto(x, "leased")
       ELSE Goto(x, "done") /\ UNCHANGED <<lease, live>>
    /\ UNCHANGED <<wf, cancelled, opVars, threadVars, todo, stop, boundVars>>

\* transition(RUNNING) under the version read before; a failure raises.
StartRunning(x) ==
    /\ ex[x] = "leased"
    /\ IF LeaseHeld(x) /\ wf = "queued"
       THEN wf' = "running" /\ Goto(x, "observe")
       ELSE wf' = wf /\ Goto(x, "finally")
    /\ UNCHANGED <<cancelled, lease, live, opVars, threadVars, todo, stop, boundVars>>

(***************************************************************************)
(* The head of a pass: a lost lease, a failed heartbeat or the total       *)
(* deadline (expired), cancellation and failed branches stop admission;    *)
(* otherwise the snapshot selects the steps to try.                        *)
(***************************************************************************)
Observe(x, expired) ==
    LET stopping == \/ stop[x] # "no" \/ expired \/ ~ LeaseHeld(x) \/ CancelRequested
                    \/ \E o \in Op : /\ st[o] \in {"failed", "uncertain", "unresolvable"}
                                     /\ ~ Retryable(o)
        ready == {o \in Op : /\ st[o] = "created" /\ admission[o] = NoAttempt
                             /\ \A p \in Deps[o] : st[p] \in Success}
    IN  /\ ex[x] = "observe"
        /\ stop' = [stop EXCEPT ![x] = IF stopping THEN "signal" ELSE "no"]
        /\ todo' = [todo EXCEPT ![x] = IF stopping THEN {}
                                       ELSE ready \cup {o \in Op : Retryable(o)}]
        /\ Goto(x, "admit")
        /\ UNCHANGED <<wfVars, opVars, threadVars, boundVars>>

\* Steps are tried in index order, while there is room for a thread.
Turn(x, o) == o \in todo[x] /\ \A p \in todo[x] : o <= p

Trying(x, o) ==
    /\ ex[x] = "admit" /\ Turn(x, o)
    /\ Cardinality(InFlight(x)) < Parallel

(***************************************************************************)
(* derive_action_resource_claims fails: fail_unadmitted_operation records  *)
(* the failed step, or raises when the operation has an attempt token, an  *)
(* admission or an unreleased request.                                     *)
(***************************************************************************)
FootprintFails(x, o) ==
    /\ Trying(x, o) /\ o \in Flaky
    /\ todo' = [todo EXCEPT ![x] = {}]
    /\ IF /\ LeaseHeld(x) /\ st[o] = "created" /\ token[o] = NoAttempt
          /\ admission[o] = NoAttempt /\ ~ HasRequest(row, o)
       THEN /\ st' = [st EXCEPT ![o] = "failed"]
            /\ tries' = [tries EXCEPT ![o] = @ + 1]
            /\ proof' = [proof EXCEPT ![o] = "no_dispatch"]
            /\ stop' = [stop EXCEPT ![x] = "reason"]
            /\ ex' = ex
       ELSE Goto(x, "drain") /\ UNCHANGED <<st, tries, proof, stop>>
    /\ UNCHANGED <<wfVars, phase, token, ref, admission, dispatched, threadVars,
                   boundVars>>

\* _make_admission_room finds the request table full and raises.
ReserveRaises(x, o) ==
    /\ Trying(x, o) /\ o \in Contended /\ Waits(x) \cap AttemptsOf(o) = {}
    /\ Goto(x, "drain")
    /\ UNCHANGED <<wfVars, opVars, threadVars, todo, stop, boundVars>>

\* An attempt id nothing refers to any more may stand for a fresh one.
Free(a) ==
    \/ at[a] = "free"
    \/ /\ at[a] \in {"done", "dead"} /\ a \notin child
       /\ token[OpOf(a)] # a /\ row[a] \notin Unreleased

\* Some other request in one of the states conflicts with the one of attempt a.
Clashing(a, states) ==
    \E b \in Attempt \ {a} : row[b] \in states /\ <<OpOf(a), OpOf(b)>> \in Clash

(***************************************************************************)
(* reserve_resource_claims for step o: the waiting request or a fresh one. *)
(* A held request that conflicts blocks it; so does an older pending one,  *)
(* and the tickets that say which is older are left to ResourceAdmission.  *)
(***************************************************************************)
Reserve(x, o) ==
    /\ Trying(x, o)
    /\ \E a \in AttemptsOf(o) :
         /\ IF Waits(x) \cap AttemptsOf(o) # {} THEN a \in Waits(x)
            ELSE Free(a) /\ \A b \in AttemptsOf(o) : Free(b) => a[2] <= b[2]
         /\ owner' = [owner EXCEPT ![a] = x]
         /\ at' = [at EXCEPT ![a] = "wait"]
         /\ fin' = [fin EXCEPT ![a] = "none"]
         /\ LET mine == IF a \in Waits(x) THEN row[a] ELSE "pending"
            IN  \/ /\ mine = "pending" /\ ~ Clashing(a, {"active", "quarantined"})
                   /\ row' = [row EXCEPT ![a] = "active"]
                   /\ Goto(x, "claim") /\ todo' = todo
                \/ /\ mine # "pending" \/ Clashing(a, Unreleased) \/ o \in Contended
                   /\ row' = [row EXCEPT ![a] = mine]
                   /\ todo' = [todo EXCEPT ![x] = @ \ {o}] /\ ex' = ex
    /\ UNCHANGED <<wfVars, opVars, child, stop, boundVars>>

ClaimRefused(o) ==
    \/ wf # "running" \/ cancelled
    \/ st[o] \notin {"created", "failed"} \/ admission[o] # NoAttempt
    \/ \E p \in Deps[o] : st[p] \notin Success
    \/ Cardinality({p \in Op : admission[p] # NoAttempt}) >= Parallel

(***************************************************************************)
(* claim_ready_operation: refused (the request is released again), raising *)
(* on a lost lease, or a fenced attempt in phase "reserved".               *)
(***************************************************************************)
ClaimReady(x) ==
    /\ ex[x] = "claim"
    /\ \E a \in Waits(x) :
         LET o == OpOf(a)
             early == wf # "running" \/ cancelled
         IN  /\ Turn(x, o)
             /\ \/ /\ early \/ (LeaseHeld(x) /\ ClaimRefused(o))
                   /\ row' = [row EXCEPT ![a] = IF @ = "quarantined" THEN @ ELSE "released"]
                   /\ at' = [at EXCEPT ![a] = "done"]
                   /\ todo' = [todo EXCEPT ![x] = @ \ {o}]
                   /\ Goto(x, "admit")
                   /\ UNCHANGED <<token, phase, admission>>
                \/ /\ ~ early /\ ~ LeaseHeld(x)
                   /\ Goto(x, "drain")
                   /\ UNCHANGED <<row, at, todo, token, phase, admission>>
                \/ /\ LeaseHeld(x) /\ ~ ClaimRefused(o)
                   /\ admission' = [admission EXCEPT ![o] = a]
                   /\ token' = [token EXCEPT ![o] = a]
                   /\ phase' = [phase EXCEPT ![o] = "reserved"]
                   /\ Goto(x, "bind")
                   /\ UNCHANGED <<row, at, todo>>
    /\ UNCHANGED <<wfVars, st, tries, proof, ref, dispatched, owner, fin, child, stop,
                   boundVars>>

\* bind_resource_request_attempt and pool.submit; an inactive request raises.
BindAndSubmit(x) ==
    /\ ex[x] = "bind"
    /\ \E a \in Waits(x) :
         /\ Turn(x, OpOf(a))
         /\ IF row[a] = "active"
            THEN /\ at' = [at EXCEPT ![a] = "start"]
                 /\ todo' = [todo EXCEPT ![x] = @ \ {OpOf(a)}]
                 /\ Goto(x, "admit")
            ELSE Goto(x, "drain") /\ UNCHANGED <<at, todo>>
    /\ UNCHANGED <<wfVars, opVars, row, owner, fin, child, stop, boundVars>>

\* The end of an admission pass: no step left, or no room for a thread.
PassDone(x) ==
    /\ ex[x] = "admit"
    /\ todo[x] = {} \/ Cardinality(InFlight(x)) >= Parallel

\* wait(futures): finished threads are collected; one that raised anything
\* but a lost lease ends the execution.
Await(x) ==
    /\ PassDone(x) /\ InFlight(x) # {}
    /\ LET done == {a \in InFlight(x) : at[a] \in Ended}
       IN  /\ at' = [a \in Attempt |-> IF a \in done THEN "done" ELSE at[a]]
           /\ stop' = [stop EXCEPT ![x] = IF @ = "no" /\ \E a \in done : at[a] = "lost"
                                          THEN "reason" ELSE @]
           /\ Goto(x, IF \E a \in done : at[a] = "raised" THEN "drain" ELSE "observe")
    /\ UNCHANGED <<wfVars, opVars, row, owner, fin, child, todo, boundVars>>

\* No thread left: recompute_workflow_aggregate decides whether to return.
Conclude(x) ==
    /\ PassDone(x) /\ InFlight(x) = {}
    /\ IF stop[x] = "no" /\ \E o \in Op : Retryable(o)
       THEN Goto(x, "observe") /\ wf' = wf
       ELSE IF ~ LeaseHeld(x)
       THEN Goto(x, "finally") /\ wf' = wf
       ELSE /\ wf' = Aggregate(st, admission, row, stop[x] = "no")
            /\ Goto(x, IF \/ stop[x] # "no"
                          \/ wf' \in {"completed", "failed", "uncertain", "cancelled"}
                       THEN "finally" ELSE "observe")
    /\ UNCHANGED <<cancelled, lease, live, opVars, threadVars, todo, stop, boundVars>>

\* Leaving the pool after an exception waits for its threads.
Drain(x) ==
    /\ ex[x] = "drain"
    /\ \A a \in InFlight(x) : at[a] \in Ended
    /\ Goto(x, "finally")
    /\ UNCHANGED <<wfVars, opVars, threadVars, todo, stop, boundVars>>

\* finally: release what still waits in resource_waits ...
ReleaseWaits(x) ==
    /\ ex[x] = "finally"
    /\ row' = [a \in Attempt |-> IF a \in Waits(x) /\ row[a] \in {"pending", "active"}
                                 THEN "released" ELSE row[a]]
    /\ at' = [a \in Attempt |-> IF a \in Waits(x) \/ (owner[a] = x /\ at[a] \in Ended)
                                THEN "done" ELSE at[a]]
    /\ Goto(x, "unlease")
    /\ UNCHANGED <<wfVars, opVars, owner, fin, child, todo, stop, boundVars>>

\* The local state of execution x is gone with it.
Forget(x) ==
    /\ todo' = [todo EXCEPT ![x] = {}]
    /\ stop' = [stop EXCEPT ![x] = "no"]

\* ... and release_lease_if_current.
ReleaseLease(x) ==
    /\ ex[x] = "unlease"
    /\ lease' = IF lease = x THEN NoExec ELSE lease
    /\ live' = (live /\ lease # x)
    /\ Goto(x, "done") /\ Forget(x)
    /\ UNCHANGED <<wf, cancelled, opVars, threadVars, boundVars>>

Coordinator(x) ==
    \/ ReadQueued(x) \/ AcquireLease(x) \/ StartRunning(x) \/ \E expired \in BOOLEAN : Observe(x, expired)
    \/ \E o \in Op : FootprintFails(x, o) \/ ReserveRaises(x, o) \/ Reserve(x, o)
    \/ ClaimReady(x) \/ BindAndSubmit(x) \/ Await(x) \/ Conclude(x)
    \/ Drain(x) \/ ReleaseWaits(x) \/ ReleaseLease(x)
-----------------------------------------------------------------------------
(***************************************************************************)
(* The thread of one attempt: _run_dag_attempt                             *)
(***************************************************************************)
Thread(a, from) == at[a] = from

\* prepare_operation_attempt, or mark_operation_may_dispatch, goes through.
DispatchAllowed(a) == Fenced(a) /\ ~ (cancelled \/ wf = "cancelling")

Prepare(a) ==
    /\ Thread(a, "start")
    /\ DispatchAllowed(a)
    /\ phase' = [phase EXCEPT ![OpOf(a)] = "prepared"]
    /\ at' = [at EXCEPT ![a] = "prepared"]
    /\ UNCHANGED <<wfVars, st, token, tries, proof, ref, admission, dispatched, row, owner,
                   fin, child, execVars, boundVars>>

MayDispatch(a) ==
    /\ Thread(a, "prepared")
    /\ DispatchAllowed(a)
    /\ st' = [st EXCEPT ![OpOf(a)] = "running"]
    /\ phase' = [phase EXCEPT ![OpOf(a)] = "may_dispatch"]
    /\ tries' = [tries EXCEPT ![OpOf(a)] = @ + 1]
    /\ dispatched' = [dispatched EXCEPT ![OpOf(a)] = @ + 1]
    /\ at' = [at EXCEPT ![a] = "acting"]
    /\ UNCHANGED <<wfVars, token, proof, ref, admission, row, owner, fin, child, execVars,
                   boundVars>>

(***************************************************************************)
(* Before the barrier: the stop signal or a cancellation that won gives    *)
(* CANCELLED; a deadline, a route, an intent or the fence that fails gives *)
(* FAILED, known to be safe to retry for a transient intent failure.       *)
(***************************************************************************)
AbortBeforeDispatch(a) ==
    /\ at[a] \in {"start", "prepared"}
    /\ \E f \in {"failed", "retry", "cancelled"} :
         /\ f = "retry" => OpOf(a) \in Transient /\ at[a] = "start"
         /\ f = "cancelled" => stop[owner[a]] = "signal" \/ (Fenced(a) /\ ~ DispatchAllowed(a))
         /\ fin' = [fin EXCEPT ![a] = f]
    /\ at' = [at EXCEPT ![a] = "settling"]
    /\ UNCHANGED <<wfVars, opVars, row, owner, child, execVars, boundVars>>

\* The action persists the identity of a child job (persist_external_ref).
PersistExternalRef(a) ==
    /\ Thread(a, "acting") /\ OpOf(a) \in Spawning
    /\ st[OpOf(a)] = "running" /\ LeaseHeld(owner[a])
    /\ ~ ref[OpOf(a)]
    /\ ref' = [ref EXCEPT ![OpOf(a)] = TRUE]
    /\ UNCHANGED <<wfVars, st, phase, token, tries, proof, admission, dispatched, threadVars,
                   execVars, boundVars>>

\* The action takes a capacity permit linked to the attempt's live request
\* (acquire_runtime_capacity); the permit may outlive the action.
TakeCapacity(a) ==
    /\ Thread(a, "acting") /\ OpOf(a) \in Spawning
    /\ row[a] = "active" /\ LeaseHeld(owner[a]) /\ a \notin child
    /\ child' = child \cup {a}
    /\ UNCHANGED <<wfVars, opVars, row, owner, at, fin, execVars, boundVars>>

ReturnCapacity(a) ==
    /\ a \in child
    /\ child' = child \ {a}
    /\ UNCHANGED <<wfVars, opVars, row, owner, at, fin, execVars, boundVars>>

\* execute_action and _postcondition end: the except clauses pick the outcome.
FinishAction(a) ==
    LET o == OpOf(a)
        stopped == stop[owner[a]] = "signal" \/ CancelRequested
    IN  /\ Thread(a, "acting")
        /\ \E f \in {"succeeded", "uncertain"}
                    \cup (IF o \in Effectful THEN {} ELSE {"failed"})
                    \cup (IF o \in Transient THEN {"retry"} ELSE {})
                    \cup (IF stopped /\ o \notin Effectful THEN {"cancelled"} ELSE {}) :
              fin' = [fin EXCEPT ![a] = f]
        /\ at' = [at EXCEPT ![a] = "settling"]
        /\ UNCHANGED <<wfVars, opVars, row, owner, child, execVars, boundVars>>

\* What the operation row records for outcome f of attempt a.
Recorded(a, f) == IF row[a] = "quarantined" \/ a \in child THEN "uncertain"
                  ELSE IF f = "retry" THEN "failed" ELSE f

\* The part of the evidence that resume and retry look at.
Proved(a, f) ==
    IF f = "retry" THEN "retry_safe"
    ELSE IF f = "succeeded" \/ phase[OpOf(a)] = "may_dispatch" THEN "dispatched"
    ELSE "no_dispatch"


(***************************************************************************)
(* complete_operation_attempt by the current owner of the attempt.  (The   *)
(* transition check cannot fail here: a fenced attempt is in "created" or  *)
(* "failed" before the barrier and "running" after it.)                    *)
(***************************************************************************)
Complete(a) ==
    LET o == OpOf(a)
    IN  /\ Thread(a, "settling")
        /\ Fenced(a)
        /\ st' = [st EXCEPT ![o] = Recorded(a, fin[a])]
        /\ proof' = [proof EXCEPT ![o] = Proved(a, fin[a])]
        /\ phase' = [phase EXCEPT ![o] = "settled"]
        /\ admission' = [admission EXCEPT ![o] = NoAttempt]
        /\ fin' = [fin EXCEPT ![a] = Recorded(a, fin[a])]
        /\ at' = [at EXCEPT ![a] = "release"]
        /\ UNCHANGED <<wfVars, token, tries, ref, dispatched, row, owner, child, execVars,
                       boundVars>>

\* The late result of an attempt that lost its ownership: the request is
\* quarantined, which raises another error when recovery released it.
LoseOwnership(a) ==
    /\ Thread(a, "settling")
    /\ ~ Fenced(a)
    /\ row' = [row EXCEPT ![a] = IF @ \in Unreleased THEN "quarantined" ELSE @]
    /\ at' = [at EXCEPT ![a] = IF row[a] \in Unreleased THEN "lost" ELSE "raised"]
    /\ fin' = [fin EXCEPT ![a] = "none"]
    /\ UNCHANGED <<wfVars, opVars, owner, child, execVars, boundVars>>

\* settle_resource, after the operation has settled.
SettleResource(a) ==
    /\ Thread(a, "release")
    /\ row' = [row EXCEPT ![a] = IF @ = "active"
                                 THEN IF fin[a] = "uncertain" THEN "quarantined" ELSE "released"
                                 ELSE @]
    /\ at' = [at EXCEPT ![a] = IF fin[a] = "uncertain" /\ row[a] = "released"
                               THEN "raised" ELSE "settled"]
    /\ fin' = [fin EXCEPT ![a] = "none"]
    /\ UNCHANGED <<wfVars, opVars, owner, child, execVars, boundVars>>

ThreadStep(a) ==
    \/ Prepare(a) \/ MayDispatch(a) \/ AbortBeforeDispatch(a) \/ PersistExternalRef(a)
    \/ TakeCapacity(a) \/ ReturnCapacity(a) \/ FinishAction(a) \/ Complete(a) \/ LoseOwnership(a) \/ SettleResource(a)
-----------------------------------------------------------------------------
(***************************************************************************)
(* Faults, recovery and the callers of the workflow tools                  *)
(***************************************************************************)

\* The process of execution x dies, with every thread of it.
Crash(x) ==
    /\ ex[x] \notin {"idle", "done", "dead"} /\ crashes < MaxCrash
    /\ crashes' = crashes + 1
    /\ Goto(x, "dead") /\ Forget(x)
    /\ LET dying == {a \in Attempt : owner[a] = x /\ at[a] \notin {"free", "done"}}
       IN  /\ at' = [a \in Attempt |-> IF a \in dying THEN "dead" ELSE at[a]]
           /\ fin' = [a \in Attempt |-> IF a \in dying THEN "none" ELSE fin[a]]
    /\ UNCHANGED <<wfVars, opVars, row, owner, child, expiries, resumes>>

\* The lease of a dead execution runs out, or a live one was not scheduled
\* for longer than its time to live.
ExpireLease ==
    /\ lease # NoExec /\ live
    /\ \/ ex[lease] = "dead" /\ expiries' = expiries
       \/ ex[lease] # "dead" /\ expiries < MaxExpire /\ expiries' = expiries + 1
    /\ live' = FALSE
    /\ UNCHANGED <<wf, cancelled, lease, opVars, threadVars, execVars, crashes, resumes>>

\* Mutant: an expired lease still counts as an owner.
UnownedStrict == lease = NoExec

\* No lease row, or an expired one.
Unowned == lease = NoExec \/ ~ live

HasChild(o) == ref[o] \/ \E a \in AttemptsOf(o) : a \in child

\* May recovery put operation o back to a safe pending state?
SafePending(o) ==
    /\ st[o] = "created" /\ ~ HasChild(o)
    /\ phase[o] \in {"reserved", "prepared"} \/ (phase[o] = "none" /\ tries[o] = 0)

RecoveredState(o) ==
    IF st[o] = "running" \/ (st[o] = "created" /\ ~ SafePending(o)) THEN "uncertain" ELSE st[o]

\* Mutant: recovery releases every request.
RecoveredRowReleased(a) == IF row[a] \in {"pending", "active"} THEN "released" ELSE row[a]

RecoveredRow(a) ==
    LET o == OpOf(a)
    IN  IF row[a] \notin {"pending", "active"} THEN row[a]
        ELSE IF \/ row[a] = "pending" \/ SafePending(o)
                \/ RecoveredState(o) \in Settled /\ ~ HasChild(o)
        THEN "released" ELSE "quarantined"

(***************************************************************************)
(* recover_interrupted on a workflow without a live lease: one transaction *)
(* of _recover_dag_execution over every operation.                         *)
(***************************************************************************)
RecoverInterrupted ==
    LET states == [o \in Op |-> RecoveredState(o)]
        rows == [a \in Attempt |-> RecoveredRow(a)]
        kept == [o \in Op |->
                   IF (SafePending(o) \/ states[o] \in Settled) /\ ~ HasRequest(rows, o)
                   THEN NoAttempt ELSE admission[o]]
    IN  /\ wf \in Running /\ Unowned
        /\ st' = states
        /\ phase' = [o \in Op |-> IF SafePending(o) THEN "none" ELSE phase[o]]
        /\ row' = rows
        /\ admission' = kept
        /\ wf' = Aggregate(states, kept, rows, FALSE)
        /\ lease' = NoExec /\ live' = FALSE
        /\ UNCHANGED <<cancelled, token, tries, proof, ref, dispatched, owner, at, fin,
                       child, execVars, boundVars>>

RequestCancel ==
    /\ wf \in {"queued", "running", "paused", "failed", "uncertain"}
    /\ wf' = IF wf = "running" THEN "cancelling" ELSE "cancelled"
    /\ cancelled' = TRUE
    /\ UNCHANGED <<lease, live, opVars, threadVars, execVars, boundVars>>

\* Mutant: a failed effect needs no proof that it was not dispatched.
SafeResumeAnyFailure ==
    /\ \A o \in Op : st[o] \notin {"running", "uncertain"} /\ admission[o] = NoAttempt
    /\ \A a \in Attempt : row[a] \notin Unreleased

\* _require_safe_resume
SafeResume ==
    /\ \A o \in Op : st[o] \notin {"running", "uncertain"} /\ admission[o] = NoAttempt
    /\ \A a \in Attempt : row[a] \notin Unreleased
    /\ \A o \in Effectful : st[o] \in {"failed", "unresolvable"}
                              => proof[o] = "no_dispatch" /\ ~ ref[o]

\* transition(QUEUED): proven safe failures go back to "created".
Resume ==
    LET again == {o \in Op : st[o] = "failed"}
    IN  /\ wf \in {"paused", "failed"} /\ resumes < MaxResume
        /\ SafeResume
        /\ resumes' = resumes + 1
        /\ wf' = "queued"
        /\ st' = [o \in Op |-> IF o \in again THEN "created" ELSE st[o]]
        /\ token' = [o \in Op |-> IF o \in again THEN NoAttempt ELSE token[o]]
        /\ phase' = [o \in Op |-> IF o \in again THEN "none" ELSE phase[o]]
        /\ proof' = [o \in Op |-> IF o \in again THEN "none" ELSE proof[o]]
        /\ UNCHANGED <<cancelled, lease, live, tries, ref, admission, dispatched, threadVars,
                       execVars, crashes, expiries>>

\* resolve_uncertain_operation, by reconciliation or by acknowledgement.
ResolveUncertain(o, final) ==
    LET states == [st EXCEPT ![o] = final]
        kept == [admission EXCEPT ![o] = IF final = "uncertain" \/ HasRequest(row, o)
                                         THEN @ ELSE NoAttempt]
    IN  /\ st[o] = "uncertain" /\ wf = "uncertain"
        /\ st' = states
        /\ proof' = [proof EXCEPT ![o] = "dispatched"]
        /\ admission' = kept
        /\ wf' = Aggregate(states, kept, row, FALSE)
        /\ UNCHANGED <<cancelled, lease, live, phase, token, tries, ref, dispatched, threadVars,
                       execVars, boundVars>>

(***************************************************************************)
(* resolve_quarantined_resource_request.  The evidence it requires is that *)
(* the attempt's effect has ended, so its thread is not acting.            *)
(***************************************************************************)
ResolveQuarantined(a) ==
    LET rows == [row EXCEPT ![a] = "released"]
        kept == [o \in Op |-> IF st[o] \in Settled /\ ~ HasRequest(rows, o)
                              THEN NoAttempt ELSE admission[o]]
    IN  /\ row[a] = "quarantined" /\ a \notin child /\ at[a] # "acting"
        /\ row' = rows
        /\ IF wf = "uncertain"
           THEN admission' = kept /\ wf' = Aggregate(st, kept, rows, FALSE)
           ELSE UNCHANGED <<admission, wf>>
        /\ UNCHANGED <<cancelled, lease, live, st, phase, token, tries, proof, ref, dispatched,
                       owner, at, fin, child, execVars, boundVars>>

Operator ==
    \/ RequestCancel \/ Resume
    \/ \E o \in Op : \E final \in {"succeeded", "failed", "uncertain", "acknowledged",
                                 "unresolvable"} :
         ResolveUncertain(o, final)
    \/ \E a \in Attempt : ResolveQuarantined(a)

Next ==
    \/ \E x \in Exec : Coordinator(x) \/ Crash(x)
    \/ \E a \in Attempt : ThreadStep(a)
    \/ ExpireLease \/ RecoverInterrupted \/ Operator

Spec == Init /\ [][Next]_vars

(***************************************************************************)
(* What the code's scheduling guarantees: coordinators and threads run     *)
(* (every action has a deadline, and so has the workflow, which a pass     *)
(* after it sees), the lease of a dead execution runs out and some process *)
(* opens the store, which recovers it.                                     *)
(***************************************************************************)
Fairness ==
    /\ \A x \in Exec : WF_vars(Coordinator(x) /\ ex[x] # "idle") /\ SF_vars(Observe(x, TRUE))
    /\ \A a \in Attempt : WF_vars(ThreadStep(a) /\ at[a] \notin {"free", "done", "dead"})
    /\ WF_vars(ExpireLease /\ ex[lease] = "dead")
    /\ WF_vars(RecoverInterrupted)

FairSpec == Spec /\ Fairness
-----------------------------------------------------------------------------
Places == {"idle", "read", "leased", "observe", "admit", "claim", "bind", "drain", "finally",
           "unlease", "done", "dead"}

\* Every column and program counter has its type, and a thread that settles has an outcome.
TypeOK ==
    /\ wf \in {"queued", "running", "cancelling", "paused", "failed", "uncertain",
               "completed", "cancelled"}
    /\ lease \in Exec \cup {NoExec}
    /\ cancelled \in BOOLEAN /\ live \in BOOLEAN
    /\ st \in [Op -> Settled \cup {"created", "running", "uncertain"}]
    /\ phase \in [Op -> {"none", "reserved", "prepared", "may_dispatch", "settled"}]
    /\ token \in [Op -> Attempt \cup {NoAttempt}]
    /\ tries \in [Op -> Nat] /\ dispatched \in [Op -> Nat]
    /\ proof \in [Op -> {"none", "no_dispatch", "retry_safe", "dispatched"}]
    /\ ref \in [Op -> BOOLEAN]
    /\ admission \in [Op -> Attempt \cup {NoAttempt}]
    /\ row \in [Attempt -> {"none", "released"} \cup Unreleased]
    /\ owner \in [Attempt -> Exec \cup {NoExec}]
    /\ at \in [Attempt -> {"free", "wait", "start", "prepared", "acting", "settling",
                           "release", "done", "dead"} \cup Ended]
    /\ fin \in [Attempt -> {"none", "succeeded", "failed", "retry", "uncertain", "cancelled"}]
    /\ \A a \in Attempt : at[a] = "settling" => fin[a] # "none"
    /\ child \subseteq Attempt
    /\ ex \in [Exec -> Places] /\ todo \in [Exec -> SUBSET Op]
    /\ stop \in [Exec -> {"no", "reason", "signal"}]
    /\ crashes \in Nat /\ expiries \in Nat /\ resumes \in Nat

(***************************************************************************)
(* The dispatch barrier of mark_operation_may_dispatch: whatever crashes,  *)
(* expired leases, late threads, recoveries, resumes and resolutions       *)
(* happen, an effectful step is dispatched at most once.                   *)
(***************************************************************************)
AtMostOneDispatch == \A o \in Effectful : dispatched[o] <= 1

(***************************************************************************)
(* Why it holds: an operation that may still be dispatched, because it is  *)
(* "created", proven not dispatched, in the current pass of the lease      *)
(* holder or in the hands of a fenced thread before the barrier, has never *)
(* been dispatched.                                                        *)
(***************************************************************************)
AdmissionHasToken ==
    \A o \in Op : admission[o] # NoAttempt => token[o] = admission[o] /\ OpOf(admission[o]) = o

FreshExecution ==
    \A x \in Exec : ex[x] \in {"idle", "read"} => lease # x /\ \A a \in Attempt : owner[a] # x

PendingUndispatched(o) ==
    st[o] = "created" \/ (st[o] = "failed" /\ proof[o] = "no_dispatch") => dispatched[o] = 0

FencedThread(a) ==
    admission[OpOf(a)] = a /\ LeaseHeld(owner[a]) =>
        /\ at[a] \in {"wait", "start", "prepared"} => dispatched[OpOf(a)] = 0
        /\ at[a] = "acting" => phase[OpOf(a)] = "may_dispatch"
        /\ at[a] = "settling" =>
              \/ dispatched[OpOf(a)] = 0
              \/ phase[OpOf(a)] = "may_dispatch" /\ fin[a] \in {"succeeded", "uncertain"}

SelectedUndispatched(x, o) ==
    ex[x] \in {"admit", "claim", "bind"} /\ LeaseHeld(x) /\ o \in todo[x] =>
        /\ dispatched[o] = 0
        /\ admission[o] # NoAttempt => at[admission[o]] = "wait" /\ owner[admission[o]] = x

DispatchInv ==
    /\ AdmissionHasToken /\ FreshExecution
    /\ \A a \in Attempt : OpOf(a) \in Effectful => FencedThread(a)
    /\ \A o \in Effectful : PendingUndispatched(o) /\ \A x \in Exec : SelectedUndispatched(x, o)
    /\ AtMostOneDispatch

(***************************************************************************)
(* An attempt that is acting, even one whose lease was lost, still holds   *)
(* its resource request, so no two steps with conflicting footprints act   *)
(* at the same time.                                                       *)
(***************************************************************************)
ActingFenced ==
    \A a \in Attempt : at[a] = "acting" =>
        /\ row[a] \in {"active", "quarantined"}
        /\ \A b \in Attempt : b # a /\ at[b] = "acting" => <<OpOf(a), OpOf(b)>> \notin Clash

(***************************************************************************)
(* A step that was ever dispatched has all its dependencies succeeded or   *)
(* acknowledged, then and ever after.                                      *)
(***************************************************************************)
DependenciesFirst ==
    \A o \in Op : dispatched[o] > 0 => \A p \in Deps[o] : st[p] \in {"succeeded", "acknowledged"}

(***************************************************************************)
(* _aggregate_state reports "completed" only for a workflow with every     *)
(* step successful, nothing in flight and nothing held.                    *)
(***************************************************************************)
CompletedIsClean ==
    wf = "completed" =>
        /\ \A o \in Op : st[o] \in Success
        /\ \A a \in Attempt : at[a] # "acting" /\ row[a] # "quarantined"

(***************************************************************************)
(* A workflow that may be resumed, or is finished, holds no admission      *)
(* slot: complete, recovery and resolution give every slot back.           *)
(***************************************************************************)
NoLeakedSlot ==
    wf \in {"paused", "failed", "completed", "queued"} =>
        \A o \in Op : admission[o] = NoAttempt

(***************************************************************************)
(* Neither a late thread, recovery nor a requeue reopens an operation with *)
(* a final outcome (mark_operation_may_dispatch does not look at it). Only *)
(* a failed one, which retries may reopen, is not final.                   *)
(***************************************************************************)
FinalStays ==
    [][\A o \in Op : st[o] \in Settled \ {"failed"} => st'[o] = st[o]]_vars

(***************************************************************************)
(* An execution that ended (its finally clause ran) leaves no request of   *)
(* its own waiting or active for good: only recovery of a workflow that    *)
(* still runs may have one left to end.                                    *)
(***************************************************************************)
NoOrphanRequest ==
    \A a \in Attempt : row[a] \in {"pending", "active"} =>
        wf \in Running \/ ex[owner[a]] # "done"

(***************************************************************************)
(* The comment in _execute_dag on a failed footprint preflight: "Record a  *)
(* known failed step, never abandon a running workflow with no owner."     *)
(***************************************************************************)
NeverAbandoned == wf \in Running => lease # NoExec

(***************************************************************************)
(* The workflow lifecycle design: "Transient read failure: bounded retry   *)
(* according to immutable policy": max_retries + 1 dispatches in all.      *)
(***************************************************************************)
RetryBound == \A o \in Op : dispatched[o] <= MaxRetries + 1

(***************************************************************************)
(* A workflow that runs, or that is asked to cancel, comes to rest.        *)
(***************************************************************************)
ComesToRest == wf \in Running ~> wf \notin Running

(***************************************************************************)
(* Nothing acts without its fence: an action runs under a row that keeps   *)
(* every conflicting one out, and a workflow that is called completed has  *)
(* neither an action nor a quarantined row left.                           *)
(***************************************************************************)
NothingUnfenced == ActingFenced /\ CompletedIsClean


(***************************************************************************)
(* Why FinalStays, DependenciesFirst and NothingUnfenced hold.  A thread   *)
(* that passes the fence finds its operation open, and its row active      *)
(* until it acts; rows held at the same time do not conflict; a row is     *)
(* active under an action only as long as the operation is running in that *)
(* attempt's slot; and once the workflow is completed no thread has a row  *)
(* that it could still quarantine or bind.                                 *)
(***************************************************************************)
UnusedToken == \A a \in Attempt : at[a] = "free" => token[OpOf(a)] # a

OpenThread(a) ==
    admission[OpOf(a)] = a /\ LeaseHeld(owner[a]) =>
        /\ at[a] \in {"wait", "start", "prepared", "acting", "settling"} =>
              st[OpOf(a)] \in {"created", "failed", "running"}
        /\ at[a] \in {"start", "prepared"} => row[a] = "active"

AdmittedAfterDeps(o) ==
    admission[o] # NoAttempt \/ dispatched[o] > 0 => \A p \in Deps[o] : st[p] \in Success

ThreadRow(a) ==
    /\ at[a] \in {"start", "prepared", "acting", "settling"} => row[a] # "pending"
    /\ at[a] = "acting" =>
          \/ row[a] = "quarantined"
          \/ row[a] = "active" /\ st[OpOf(a)] = "running" /\ admission[OpOf(a)] = a

HeldApart ==
    \A a, b \in Attempt : /\ a # b
                          /\ row[a] \in {"active", "quarantined"}
                          /\ row[b] \in {"active", "quarantined"}
                         => <<OpOf(a), OpOf(b)>> \notin Clash

CompletedQuiet ==
    wf = "completed" =>
        /\ \A o \in Op : st[o] \in Success
        /\ \A a \in Attempt :
             /\ row[a] # "quarantined" /\ at[a] # "acting"
             /\ at[a] \in {"start", "prepared", "settling", "release"} => row[a] # "active"
             /\ at[a] = "wait" /\ row[a] = "active" /\ owner[a] \in Exec => ex[owner[a]] # "bind"

FenceInv ==
    /\ AdmissionHasToken /\ FreshExecution /\ UnusedToken
    /\ \A a \in Attempt : OpenThread(a) /\ ThreadRow(a)
    /\ \A o \in Op : AdmittedAfterDeps(o)
    /\ HeldApart /\ CompletedQuiet
=============================================================================
