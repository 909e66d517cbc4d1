------------------------------ MODULE JobQueue ------------------------------
(***************************************************************************)
(* Durable command jobs: the rows of core/jobs.py, the launches of         *)
(* core/job_scheduler.py and the worker processes of scripts/job_worker.py *)
(* with the child process each of them spawns.  Workers, the server that   *)
(* launches them and callers only share the jobs database; any process may *)
(* die between two transactions.                                           *)
(*                                                                         *)
(* A worker <<j, n>> stands for one launch of job j: its launch token, its *)
(* process, the child it spawns and its exclusive resource request, which  *)
(* is used as ResourceFence promises (all own requests of jobs conflict:   *)
(* each claims the host coordination for itself).                          *)
(***************************************************************************)
EXTENDS Integers, FiniteSets, FiniteSetsExt

CONSTANTS
    Job,            \* jobs, one request key each
    Nested,         \* jobs that run under the resource request of a workflow step
    Deadlined,      \* jobs submitted with a queue_timeout_sec
    MaxRunning,     \* SETTINGS.max_running_jobs
    Launches,       \* bound on the launches of one job
    MaxFault,       \* bound on crashed, lost or very slow processes
    NoWorker

Worker == Job \X (1 .. Launches)

ASSUME JobAssumption == Nested \subseteq Job /\ Deadlined \subseteq Job /\ IsFiniteSet(Job)
ASSUME BoundAssumption ==
    MaxRunning \in Nat \ {0} /\ Launches \in Nat /\ MaxFault \in Nat /\ NoWorker \notin Worker

VARIABLES
    status,         \* job -> jobs.status, "absent" before the row exists
    cancelReq,      \* jobs with cancel_requested
    overdue,        \* jobs whose queue_deadline has passed
    token,          \* job -> launch_token
    wpid,           \* job -> worker_pid and worker_created
    pid,            \* job -> pid and pid_created, as the worker whose child it is
    phase,          \* job -> dispatch_phase
    seen,           \* running jobs that a reader saw before their pid was recorded
    killing,        \* jobs whose cancel call is about to terminate the orphan
    unrecorded,     \* launched workers whose identity the launcher has not stored yet
    pc,             \* worker -> where it is
    outcome,        \* worker -> status it will publish, while it runs
    child,          \* worker -> its child process
    fence,          \* worker -> state of its resource request
    faults,         \* how much of MaxFault is used
    spawns,         \* history: job -> children ever spawned for it
    early           \* history: jobs whose cancel was accepted before the dispatch phase

rowVars == <<status, cancelReq, token, wpid, pid, phase>>
workerVars == <<pc, outcome, child, fence>>
history == <<spawns, early>>
vars == <<rowVars, overdue, seen, killing, unrecorded, workerVars, faults, history>>

Active == {"running", "orphaned"}       \* ACTIVE_JOB_STATUSES
Terminal == {"succeeded", "failed", "cancelled", "timed_out", "interrupted"}

JobOf(w) == w[1]
ActiveJobs == {j \in Job : status[j] \in Active}
Reserved == {j \in Job : status[j] = "queued" /\ token[j] # NoWorker}

\* same_process of a worker, and of its child.
Alive(w) == w # NoWorker /\ pc[w] \notin {"free", "reserved", "done", "dead"}
ChildAlive(w) == w # NoWorker /\ child[w] = "alive"

Init ==
    /\ status = [j \in Job |-> "absent"]
    /\ cancelReq = {} /\ overdue = {} /\ seen = {} /\ killing = {} /\ unrecorded = {}
    /\ token = [j \in Job |-> NoWorker]
    /\ wpid = [j \in Job |-> NoWorker]
    /\ pid = [j \in Job |-> NoWorker]
    /\ phase = [j \in Job |-> "pending"]
    /\ pc = [w \in Worker |-> "free"]
    /\ outcome = [w \in Worker |-> "none"]
    /\ child = [w \in Worker |-> "none"]
    /\ fence = [w \in Worker |-> "none"]
    /\ faults = 0
    /\ spawns = [j \in Job |-> 0] /\ early = {}
-----------------------------------------------------------------------------
(***************************************************************************)
(* Callers                                                                 *)
(***************************************************************************)

\* submit; a second call with the same request key finds the row and reads.
Submit(j) ==
    /\ status[j] = "absent"
    /\ status' = [status EXCEPT ![j] = "queued"]
    /\ UNCHANGED <<cancelReq, token, wpid, pid, phase, overdue, seen, killing, unrecorded, workerVars,
                   faults, history>>

\* The first transaction of cancel.
Cancel(j) ==
    /\ status[j] \in {"queued"} \cup Active
    /\ status' = [status EXCEPT ![j] = IF @ = "queued" THEN "cancelled" ELSE @]
    /\ cancelReq' = cancelReq \cup {j}
    /\ killing' = IF status[j] = "orphaned" THEN killing \cup {j} ELSE killing
    /\ early' = IF phase[j] = "pending" THEN early \cup {j} ELSE early
    /\ UNCHANGED <<token, wpid, pid, phase, overdue, seen, unrecorded, workerVars, faults, spawns>>

\* The rest of cancel on an orphan: terminate_process_tree, which may fail to
\* stop it, and the second transaction.
CancelOrphan(j) ==
    /\ j \in killing
    /\ killing' = killing \ {j}
    /\ \/ child' = child
       \/ pid[j] # NoWorker /\ child' = [child EXCEPT ![pid[j]] = "gone"]
    /\ status' = [status EXCEPT ![j] = IF @ \in {"orphaned", "interrupted"} THEN "cancelled" ELSE @]
    /\ UNCHANGED <<cancelReq, token, wpid, pid, phase, overdue, seen, unrecorded, pc, outcome, fence,
                   faults, history>>

QueueDeadlinePasses(j) ==
    /\ j \in Deadlined \ overdue /\ status[j] = "queued"
    /\ overdue' = overdue \cup {j}
    /\ UNCHANGED <<rowVars, seen, killing, unrecorded, workerVars, faults, history>>

(***************************************************************************)
(* _reconcile of one row, which every read of it does.  The row is read,   *)
(* then the processes are looked at, then the update is made if the status *)
(* is still the one read.  Of what was read only a missing pid can be out  *)
(* of date when it is used.                                                *)
(***************************************************************************)
ReadRow(j) ==
    /\ status[j] = "running" /\ pid[j] = NoWorker
    /\ seen' = seen \cup {j}
    /\ UNCHANGED <<rowVars, overdue, killing, unrecorded, workerVars, faults, history>>

\* A running job whose worker is gone is orphaned when its child, as far as
\* it was read, still runs, and interrupted when not.
Reconcile(j) ==
    /\ \/ /\ status[j] = "running" /\ ~ Alive(wpid[j])
          /\ \E known \in {pid[j]} \cup (IF j \in seen THEN {NoWorker} ELSE {}) :
                status' = [status EXCEPT ![j] = IF ChildAlive(known) THEN "orphaned"
                                                                     ELSE "interrupted"]
       \/ /\ status[j] = "orphaned" /\ ~ ChildAlive(pid[j])
          /\ status' = [status EXCEPT ![j] = "interrupted"]
       \/ /\ status[j] = "queued" /\ j \in overdue
          /\ status' = [status EXCEPT ![j] = "timed_out"]
    /\ seen' = seen \ {j}
    /\ UNCHANGED <<cancelReq, token, wpid, pid, phase, overdue, killing, unrecorded, workerVars,
                   faults, history>>
-----------------------------------------------------------------------------
(***************************************************************************)
(* The launcher: JobScheduler.launch_once                                  *)
(***************************************************************************)

NextLaunch(j, w) ==
    JobOf(w) = j /\ pc[w] = "free" /\ \A v \in Worker : JobOf(v) = j /\ pc[v] = "free" => w[2] <= v[2]

\* How a queued job that may not start any more ends.
EndedAs(j) == IF j \in cancelReq THEN "cancelled" ELSE "timed_out"

(***************************************************************************)
(* The transaction of reserve_worker_launches: cancelled and overdue jobs  *)
(* end, then as many waiting jobs as there is room for get a launch token. *)
(* (Which ones, the created column decides, is left open.)  The stale      *)
(* launches and the active rows are reconciled before, in transactions of  *)
(* their own: RecoverStaleLaunch and Reconcile.                            *)
(***************************************************************************)
ReserveWorkerLaunches ==
    LET ended == {j \in Job : status[j] = "queued" /\ j \in overdue \cup cancelReq}
        waiting == {j \in Job \ ended : /\ status[j] = "queued" /\ token[j] = NoWorker
                                          /\ \E w \in Worker : NextLaunch(j, w)}
        used == Cardinality(ActiveJobs) + Cardinality(Reserved \ ended)
        available == Max({MaxRunning - used, 0})
    IN  \E S \in kSubset(Min({available, Cardinality(waiting)}), waiting) :
          /\ S # {} \/ ended # {}
          /\ status' = [j \in Job |-> IF j \notin ended THEN status[j] ELSE EndedAs(j)]
          /\ token' = [j \in Job |->
                         IF j \in ended THEN NoWorker
                         ELSE IF j \in S THEN CHOOSE w \in Worker : NextLaunch(j, w)
                         ELSE token[j]]
          /\ pc' = [w \in Worker |-> IF JobOf(w) \in S /\ NextLaunch(JobOf(w), w)
                                     THEN "reserved" ELSE pc[w]]
          /\ UNCHANGED <<cancelReq, wpid, pid, phase, overdue, seen, killing, unrecorded, outcome,
                         child, fence, faults, history>>

\* _launch_traced_worker: Popen ...
LaunchWorker(w) ==
    /\ pc[w] = "reserved"
    /\ pc' = [pc EXCEPT ![w] = "polling"]
    /\ unrecorded' = unrecorded \cup {w}
    /\ UNCHANGED <<rowVars, overdue, seen, killing, outcome, child, fence, faults, history>>

\* ... or fail_worker_launch when Popen, or anything after it, raises ...
FailWorkerLaunch(w) ==
    /\ \/ pc[w] = "reserved" /\ pc' = [pc EXCEPT ![w] = "done"] /\ unrecorded' = unrecorded
       \/ w \in unrecorded /\ unrecorded' = unrecorded \ {w} /\ pc' = pc
    /\ IF status[JobOf(w)] = "queued" /\ token[JobOf(w)] = w
       THEN /\ status' = [status EXCEPT ![JobOf(w)] = "failed"]
            /\ token' = [token EXCEPT ![JobOf(w)] = NoWorker]
       ELSE UNCHANGED <<status, token>>
    /\ UNCHANGED <<cancelReq, wpid, pid, phase, overdue, seen, killing, outcome, child, fence,
                   faults, history>>

\* ... then record_worker_launch, unless the worker was faster.
RecordWorkerLaunch(w) ==
    /\ w \in unrecorded
    /\ unrecorded' = unrecorded \ {w}
    /\ wpid' = IF status[JobOf(w)] = "queued" /\ token[JobOf(w)] = w
               THEN [wpid EXCEPT ![JobOf(w)] = w] ELSE wpid
    /\ UNCHANGED <<status, cancelReq, token, pid, phase, overdue, seen, killing, workerVars, faults,
                   history>>

\* The launching process dies before Popen, or before it recorded the worker.
LauncherDies(w) ==
    /\ faults < MaxFault
    /\ faults' = faults + 1
    /\ \/ pc[w] = "reserved" /\ pc' = [pc EXCEPT ![w] = "done"] /\ unrecorded' = unrecorded
       \/ w \in unrecorded /\ unrecorded' = unrecorded \ {w} /\ pc' = pc
    /\ UNCHANGED <<rowVars, overdue, seen, killing, outcome, child, fence, history>>

(***************************************************************************)
(* _recover_stale_launch_reservations: the token of a launch that shows no *)
(* live worker after ten seconds.  That the worker is only very slow to be *)
(* recorded counts as a fault.                                             *)
(***************************************************************************)
RecoverStaleLaunch(j) ==
    LET slow == pc[token[j]] = "reserved" \/ Alive(token[j])
    IN  /\ j \in Reserved
        /\ wpid[j] = NoWorker \/ ~ Alive(wpid[j])
        /\ IF slow THEN faults < MaxFault /\ faults' = faults + 1 ELSE faults' = faults
        /\ token' = [token EXCEPT ![j] = NoWorker]
        /\ wpid' = [wpid EXCEPT ![j] = NoWorker]
        /\ UNCHANGED <<status, cancelReq, pid, phase, overdue, seen, killing, unrecorded, workerVars,
                       history>>
-----------------------------------------------------------------------------
(***************************************************************************)
(* The worker: job_worker.run                                              *)
(***************************************************************************)
At(w, from) == pc[w] = from
Goto(w, place) == pc' = [pc EXCEPT ![w] = place]

(***************************************************************************)
(* claim_for_execution: "terminal", with or without ending the job, or     *)
(* "claimed".  ("wait" changes nothing and the worker polls again.)        *)
(***************************************************************************)
ClaimForExecution(w) ==
    LET j == JobOf(w)
    IN  /\ At(w, "polling")
        /\ IF status[j] # "queued" \/ token[j] # w
           THEN Goto(w, "done") /\ UNCHANGED <<status, token, wpid, phase>>
           ELSE IF j \in overdue \cup cancelReq
           THEN /\ status' = [status EXCEPT ![j] = EndedAs(j)]
                /\ token' = [token EXCEPT ![j] = NoWorker]
                /\ Goto(w, "done") /\ UNCHANGED <<wpid, phase>>
           ELSE /\ Cardinality(ActiveJobs) < MaxRunning
                /\ status' = [status EXCEPT ![j] = "running"]
                /\ phase' = [phase EXCEPT ![j] = "pending"]
                /\ token' = [token EXCEPT ![j] = NoWorker]
                /\ wpid' = [wpid EXCEPT ![j] = w]
                /\ Goto(w, "claimed")
        /\ UNCHANGED <<cancelReq, pid, overdue, seen, killing, unrecorded, outcome, child, fence,
                       faults, history>>

\* A cancellation that arrived before the row was read again.
CheckCancel(w) ==
    LET j == JobOf(w)
    IN  /\ At(w, "claimed")
        /\ IF j \in cancelReq
           THEN status' = [status EXCEPT ![j] = "cancelled"] /\ Goto(w, "done")
           ELSE status' = status /\ Goto(w, "admitting")
        /\ UNCHANGED <<cancelReq, token, wpid, pid, phase, overdue, seen, killing, unrecorded, outcome,
                       child, fence, faults, history>>

\* managed_resource_claims: admitted with the exclusive request, or under the
\* inherited capability of the parent, which is not this worker's to release.
Admit(w) ==
    /\ At(w, "admitting")
    /\ IF JobOf(w) \in Nested THEN fence' = fence
       ELSE /\ \A v \in Worker : fence[v] \notin {"active", "quarantined"}
            /\ fence' = [fence EXCEPT ![w] = "active"]
    /\ Goto(w, "fenced")
    /\ UNCHANGED <<rowVars, overdue, seen, killing, unrecorded, outcome, child, faults, history>>

\* Admission times out, or meets a quarantined request.
AdmissionFails(w) ==
    /\ At(w, "admitting")
    /\ Goto(w, "failing")
    /\ UNCHANGED <<rowVars, overdue, seen, killing, unrecorded, outcome, child, fence, faults, history>>

EndFence(w, state) ==
    fence' = [fence EXCEPT ![w] = IF @ = "active" THEN state ELSE @]

\* mark_may_dispatch: the last boundary before the effect.
MarkMayDispatch(w) ==
    LET j == JobOf(w)
        mine == status[j] = "running" /\ phase[j] = "pending" /\ wpid[j] = w
    IN  /\ At(w, "fenced")
        /\ IF mine /\ j \notin cancelReq
           THEN /\ phase' = [phase EXCEPT ![j] = "may_dispatch"]
                /\ Goto(w, "dispatching") /\ UNCHANGED <<status, fence>>
           ELSE /\ status' = [status EXCEPT ![j] = IF mine THEN "cancelled" ELSE @]
                /\ Goto(w, "done") /\ EndFence(w, "released") /\ phase' = phase
        /\ UNCHANGED <<cancelReq, token, wpid, pid, overdue, seen, killing, unrecorded, outcome, child,
                       faults, history>>

\* spawn_owned_process
Spawn(w) ==
    /\ At(w, "dispatching")
    /\ Goto(w, "spawned")
    /\ child' = [child EXCEPT ![w] = "alive"]
    /\ spawns' = [spawns EXCEPT ![JobOf(w)] = @ + 1]
    /\ UNCHANGED <<rowVars, overdue, seen, killing, unrecorded, outcome, fence, faults, early>>

\* A missing executable, or no native ownership: nothing was spawned.
SpawnRejected(w) ==
    /\ At(w, "dispatching")
    /\ Goto(w, "failing") /\ EndFence(w, "released")
    /\ UNCHANGED <<rowVars, overdue, seen, killing, unrecorded, outcome, child, faults, history>>

\* _update(pid, pid_created): a child that is already gone has no identity.
RecordPid(w) ==
    /\ At(w, "spawned")
    /\ Goto(w, "waiting")
    /\ pid' = IF ChildAlive(w) THEN [pid EXCEPT ![JobOf(w)] = w] ELSE pid
    /\ UNCHANGED <<status, cancelReq, token, wpid, phase, overdue, seen, killing, unrecorded, outcome,
                   child, fence, faults, history>>

ChildExits(w) ==
    /\ ChildAlive(w)
    /\ child' = [child EXCEPT ![w] = "gone"]
    /\ UNCHANGED <<rowVars, overdue, seen, killing, unrecorded, pc, outcome, fence, faults, history>>

\* process.wait returns
Collect(w) ==
    /\ At(w, "waiting") /\ ~ ChildAlive(w)
    /\ Goto(w, "cleanup")
    /\ \E result \in {"succeeded", "failed"} : outcome' = [outcome EXCEPT ![w] = result]
    /\ UNCHANGED <<rowVars, overdue, seen, killing, unrecorded, child, fence, faults, history>>

\* A cancellation or the execution deadline: terminate_tree.
Terminate(w) ==
    LET result == IF JobOf(w) \in cancelReq THEN "cancelled" ELSE "timed_out"
    IN  /\ At(w, "waiting")
        /\ child' = [child EXCEPT ![w] = "gone"]
        /\ outcome' = [outcome EXCEPT ![w] = result]
        /\ Goto(w, "cleanup")
        /\ UNCHANGED <<rowVars, overdue, seen, killing, unrecorded, fence, faults, history>>

\* Any other exception in the resource context, such as
\* process_cleanup_incomplete when terminate_tree leaves processes alive.
\* (A nested job quarantines the request of its parent.)
EffectRaises(w) ==
    /\ pc[w] \in {"fenced", "dispatching", "spawned", "waiting", "cleanup"}
    /\ Goto(w, "failing") /\ EndFence(w, "quarantined")
    /\ UNCHANGED <<rowVars, overdue, seen, killing, unrecorded, outcome, child, faults, history>>

\* The resource context ends: release_resource_request, which quarantines a
\* request with unsettled child permits, and then the context raises.
ReleaseFence(w) ==
    /\ At(w, "cleanup")
    /\ \/ EndFence(w, "released") /\ Goto(w, "report")
       \/ EndFence(w, "quarantined") /\ Goto(w, "failing") /\ JobOf(w) \notin Nested
    /\ UNCHANGED <<rowVars, overdue, seen, killing, unrecorded, outcome, child, faults, history>>

\* The terminal update, which looks at nothing but the job id.
Publish(w) ==
    /\ At(w, "report")
    /\ status' = [status EXCEPT ![JobOf(w)] = outcome[w]]
    /\ outcome' = [outcome EXCEPT ![w] = "none"]
    /\ Goto(w, "done")
    /\ UNCHANGED <<cancelReq, token, wpid, pid, phase, overdue, seen, killing, unrecorded, child,
                   fence, faults, history>>

\* The except clause, after the resource context: terminate what is left of
\* the child, successfully or not, and publish "failed".
PublishFailed(w) ==
    /\ At(w, "failing")
    /\ child' = child \/ child' = [child EXCEPT ![w] = IF @ = "alive" THEN "gone" ELSE @]
    /\ status' = [status EXCEPT ![JobOf(w)] = "failed"]
    /\ outcome' = [outcome EXCEPT ![w] = "none"]
    /\ Goto(w, "done")
    /\ UNCHANGED <<cancelReq, token, wpid, pid, phase, overdue, seen, killing, unrecorded, fence,
                   faults, history>>

WorkerStep(w) ==
    \/ ClaimForExecution(w) \/ CheckCancel(w) \/ Admit(w) \/ AdmissionFails(w)
    \/ MarkMayDispatch(w) \/ Spawn(w) \/ SpawnRejected(w) \/ RecordPid(w) \/ Collect(w)
    \/ Terminate(w) \/ EffectRaises(w) \/ ReleaseFence(w) \/ Publish(w) \/ PublishFailed(w)

\* A worker process dies; its child goes with it only under a kill-on-close job object.
WorkerDies(w) ==
    /\ Alive(w) /\ faults < MaxFault
    /\ faults' = faults + 1
    /\ Goto(w, "dead") /\ outcome' = [outcome EXCEPT ![w] = "none"]
    /\ child' = child \/ child' = [child EXCEPT ![w] = IF @ = "alive" THEN "gone" ELSE @]
    /\ UNCHANGED <<rowVars, overdue, seen, killing, unrecorded, fence, history>>

\* Mutant: recovery releases the request of a live child.
RecoverFenceReleased(w) ==
    /\ pc[w] = "dead" /\ fence[w] = "active"
    /\ EndFence(w, "released")
    /\ UNCHANGED <<rowVars, overdue, seen, killing, unrecorded, pc, outcome, child, faults, history>>

\* recover_interrupted finds the owner of an active request dead.
RecoverFence(w) ==
    /\ pc[w] = "dead" /\ fence[w] = "active"
    /\ EndFence(w, "quarantined")
    /\ UNCHANGED <<rowVars, overdue, seen, killing, unrecorded, pc, outcome, child, faults, history>>

\* An operator resolves a quarantined request, on evidence that its effect ended.
ResolveFence(w) ==
    /\ fence[w] = "quarantined" /\ ~ ChildAlive(w)
    /\ fence' = [fence EXCEPT ![w] = "released"]
    /\ UNCHANGED <<rowVars, overdue, seen, killing, unrecorded, pc, outcome, child, faults, history>>
-----------------------------------------------------------------------------
Next ==
    \/ \E j \in Job : \/ Submit(j) \/ Cancel(j) \/ CancelOrphan(j) \/ QueueDeadlinePasses(j)
                      \/ ReadRow(j) \/ Reconcile(j) \/ RecoverStaleLaunch(j)
    \/ ReserveWorkerLaunches
    \/ \E w \in Worker : \/ LaunchWorker(w) \/ FailWorkerLaunch(w) \/ RecordWorkerLaunch(w)
                         \/ LauncherDies(w) \/ WorkerStep(w) \/ ChildExits(w)
                         \/ WorkerDies(w) \/ RecoverFence(w) \/ ResolveFence(w)

Spec == Init /\ [][Next]_vars

(***************************************************************************)
(* The launcher thread runs while jobs are queued and scans every 0.15 s,  *)
(* launched processes run, a worker's loop ends at its deadline at the     *)
(* latest, and rows are read again.  Nothing makes a child end by itself.  *)
(***************************************************************************)
Fairness ==
    /\ WF_vars(ReserveWorkerLaunches)
    /\ \A j \in Job : WF_vars(Reconcile(j)) /\ WF_vars(RecoverStaleLaunch(j))
    /\ \A w \in Worker : /\ WF_vars(LaunchWorker(w) \/ FailWorkerLaunch(w))
                         /\ WF_vars(RecordWorkerLaunch(w)) /\ WF_vars(WorkerStep(w))

FairSpec == Spec /\ Fairness
-----------------------------------------------------------------------------
\* Every column of the jobs table and every process has a value of its type.
TypeOK ==
    /\ status \in [Job -> {"absent", "queued"} \cup Active \cup Terminal]
    /\ cancelReq \subseteq Job /\ overdue \subseteq Job /\ seen \subseteq Job /\ killing \subseteq Job
    /\ token \in [Job -> Worker \cup {NoWorker}]
    /\ wpid \in [Job -> Worker \cup {NoWorker}]
    /\ pid \in [Job -> Worker \cup {NoWorker}]
    /\ phase \in [Job -> {"pending", "may_dispatch"}]
    /\ unrecorded \subseteq Worker
    /\ pc \in [Worker -> {"free", "reserved", "polling", "claimed", "admitting", "fenced",
                          "dispatching", "spawned", "waiting", "cleanup", "report", "failing",
                          "done", "dead"}]
    /\ outcome \in [Worker -> {"none", "succeeded", "failed", "cancelled", "timed_out"}]
    /\ \A w \in Worker : pc[w] = "report" => outcome[w] # "none"
    /\ child \in [Worker -> {"none", "alive", "gone"}]
    /\ fence \in [Worker -> {"none", "active", "quarantined", "released"}]
    /\ faults \in Nat /\ spawns \in [Job -> Nat] /\ early \subseteq Job

(***************************************************************************)
(* "One durable job worker; never replays an already claimed job": through *)
(* lost launches, stale reservations and several workers for one job, at   *)
(* most one child is ever spawned for it.                                  *)
(***************************************************************************)
NeverReplays == \A j \in Job : spawns[j] <= 1

(***************************************************************************)
(* reserve_worker_launches and claim_for_execution together keep the jobs  *)
(* that run, and the launches under way, within max_running_jobs.          *)
(***************************************************************************)
CapacityBound == Cardinality(ActiveJobs) + Cardinality(Reserved) <= MaxRunning

(***************************************************************************)
(* A cancel call that is accepted before the dispatch phase wins: nothing  *)
(* is ever spawned for the job, whatever its worker is doing meanwhile.    *)
(***************************************************************************)
EarlyCancelWins == \A j \in early : spawns[j] = 0

(***************************************************************************)
(* The children of jobs with a request of their own never overlap, not     *)
(* even when a worker dies before the child's pid is recorded and the row  *)
(* says "interrupted" while the child still runs.                          *)
(***************************************************************************)
ChildrenExclusive ==
    \A v, w \in Worker : ChildAlive(v) /\ ChildAlive(w) /\ v # w
                            => JobOf(v) \in Nested \/ JobOf(w) \in Nested

(***************************************************************************)
(* "Managed resource-context finalization must succeed before a durable    *)
(* job publishes success": a succeeded job holds no fence and no child.    *)
(***************************************************************************)
SuccessIsSettled ==
    \A w \in Worker : status[JobOf(w)] = "succeeded" =>
        fence[w] \notin {"active", "quarantined"} /\ ~ ChildAlive(w)

(***************************************************************************)
(* A terminal status is final, although the worker's terminal update looks *)
(* at nothing but the id; only an interrupted orphan may become cancelled. *)
(***************************************************************************)
TerminalStays ==
    \A j \in Job : status[j] \in Terminal =>
       status'[j] = status[j] \/ (status[j] = "interrupted" /\ status'[j] = "cancelled")

(***************************************************************************)
(* Every queued job ends, or some orphan, whose deadline nobody enforces   *)
(* any more, occupies the capacity.                                        *)
(***************************************************************************)
EveryJobEnds ==
    \A j \in Job : status[j] = "queued" ~>
        status[j] \in Terminal \/ \E k \in Job : status[k] = "orphaned"

(***************************************************************************)
(* The queue of durable jobs is sound: a job is spawned at most once and   *)
(* never after an early cancellation, within the capacity, apart from      *)
(* other children, and succeeded means that its fence is settled.          *)
(***************************************************************************)
JobsSound ==
    /\ TypeOK /\ NeverReplays /\ CapacityBound /\ EarlyCancelWins
    /\ ChildrenExclusive /\ SuccessIsSettled
(***************************************************************************)
(* Why JobsSound and TerminalStays hold.  A job is claimed once, because   *)
(* no row becomes queued again: the worker that has or had a request or a  *)
(* child is the one its row names, and the row runs as long as the worker  *)
(* works.  Until that worker has spawned nothing is spawned, and it passes *)
(* the dispatch phase only without a cancellation.  A child lives under    *)
(* the held request of its worker, and no two workers hold one.            *)
(***************************************************************************)
Working == {"claimed", "admitting", "fenced", "dispatching", "spawned", "waiting", "cleanup", "report", "failing"}

HasFence(w) == fence[w] \in {"active", "quarantined"}

NamedByRow(w) ==
    /\ pc[w] \in Working => status[JobOf(w)] = "running"
    /\ pc[w] \in Working \/ fence[w] # "none" \/ child[w] # "none" =>
          wpid[JobOf(w)] = w /\ status[JobOf(w)] \notin {"absent", "queued"}

BeforeSpawn(w) ==
    /\ pc[w] \in {"claimed", "admitting", "fenced", "dispatching"} => spawns[JobOf(w)] = 0 /\ child[w] = "none"
    /\ pc[w] = "dispatching" => phase[JobOf(w)] = "may_dispatch"

UnderFence(w) ==
    /\ JobOf(w) \in Nested => fence[w] = "none"
    /\ JobOf(w) \notin Nested =>
          /\ pc[w] \in {"fenced", "dispatching", "spawned", "waiting", "cleanup"} => fence[w] = "active"
          /\ child[w] = "alive" => HasFence(w)
    /\ pc[w] = "report" => ~ HasFence(w)

Collected(w) == pc[w] \in {"cleanup", "report"} => outcome[w] # "none" /\ child[w] # "alive"

DispatchedRow(j) ==
    /\ status[j] = "absent" => token[j] = NoWorker
    /\ status[j] \in {"absent", "queued"} => spawns[j] = 0
    /\ spawns[j] <= 1 /\ (spawns[j] > 0 => phase[j] = "may_dispatch")
    /\ j \in early => j \in cancelReq /\ phase[j] = "pending"
    /\ pid[j] # NoWorker => child[pid[j]] # "none"

OneFence == \A v, w \in Worker : HasFence(v) /\ HasFence(w) => v = w

JobInv ==
    /\ TypeOK
    /\ \A w \in Worker : NamedByRow(w) /\ BeforeSpawn(w) /\ UnderFence(w) /\ Collected(w)
    /\ \A j \in Job : DispatchedRow(j)
    /\ OneFence /\ CapacityBound /\ SuccessIsSettled
=============================================================================
