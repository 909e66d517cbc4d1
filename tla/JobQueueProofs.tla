--------------------------- MODULE JobQueueProofs ---------------------------
(***************************************************************************)
(* Durable jobs for any number of jobs, launches, failing processes and    *)
(* any limit: one child per job, none after an early cancellation, within  *)
(* the capacity and apart from each other, and statuses that stay.         *)
(*                                                                         *)
(* What every step preserves of JobInv has one lemma per conjunct, with    *)
(* one step per action.                                                    *)
(***************************************************************************)
EXTENDS JobQueue, FiniteSetTheorems, TLAPS

\* Most leaves need no arithmetic: they are tried with Zenon first, then with SMT, then with Zenon for longer.
USE ZenonT(3), SMTT(60), ZenonT(30)

LEMMA WorkerJob == \A w \in Worker : JobOf(w) \in Job
BY DEF Worker, JobOf

(***************************************************************************)
(* What a scan of the launcher does to the rows and to the workers.        *)
(***************************************************************************)
LEMMA ReserveEffect ==
    ASSUME TypeOK, ReserveWorkerLaunches
    PROVE  /\ status' \in [Job -> {"absent", "queued"} \cup Active \cup Terminal]
           /\ token' \in [Job -> Worker \cup {NoWorker}]
           /\ pc' \in [Worker -> {"free", "reserved", "polling", "claimed", "admitting", "fenced",
                          "dispatching", "spawned", "waiting", "cleanup", "report", "failing",
                          "done", "dead"}]
           /\ \A j \in Job : \/ status'[j] = status[j]
                             \/ status[j] = "queued" /\ status'[j] \in {"cancelled", "timed_out"}
           /\ \A j \in Job : status[j] # "queued" => token'[j] = token[j]
           /\ \A w \in Worker : pc'[w] = pc[w] \/ (pc[w] = "free" /\ pc'[w] = "reserved")
           /\ UNCHANGED <<cancelReq, wpid, pid, phase, overdue, seen, killing, unrecorded, outcome,
                          child, fence, faults, history>>
<1> DEFINE ended == {j \in Job : status[j] = "queued" /\ j \in overdue \cup cancelReq}
           waiting == {j \in Job \ ended : /\ status[j] = "queued" /\ token[j] = NoWorker
                                           /\ \E w \in Worker : NextLaunch(j, w)}
<1>1. PICK S \in SUBSET waiting :
          /\ status' = [j \in Job |-> IF j \notin ended THEN status[j] ELSE EndedAs(j)]
          /\ token' = [j \in Job |-> IF j \in ended THEN NoWorker
                                     ELSE IF j \in S THEN CHOOSE w \in Worker : NextLaunch(j, w)
                                     ELSE token[j]]
          /\ pc' = [w \in Worker |-> IF JobOf(w) \in S /\ NextLaunch(JobOf(w), w) THEN "reserved" ELSE pc[w]]
  BY DEF ReserveWorkerLaunches, kSubset
<1>2. \A j \in S : (CHOOSE w \in Worker : NextLaunch(j, w)) \in Worker
  BY <1>1
<1>3. \A j \in Job : EndedAs(j) \in {"cancelled", "timed_out"}
  BY DEF EndedAs
<1>4. \A j \in ended : status[j] = "queued"
  OBVIOUS
<1>5. \A j \in S : status[j] = "queued"
  BY <1>1
<1>6. \A w \in Worker : NextLaunch(JobOf(w), w) => pc[w] = "free"
  BY DEF NextLaunch
<1> HIDE DEF ended, waiting
<1>7. status' \in [Job -> {"absent", "queued"} \cup Active \cup Terminal]
  BY <1>1, <1>3 DEF TypeOK, Terminal
<1>8. token' \in [Job -> Worker \cup {NoWorker}]
  BY <1>1, <1>2 DEF TypeOK
<1>9. pc' \in [Worker -> {"free", "reserved", "polling", "claimed", "admitting", "fenced",
                          "dispatching", "spawned", "waiting", "cleanup", "report", "failing",
                          "done", "dead"}]
  BY <1>1 DEF TypeOK
<1>10. \A j \in Job : \/ status'[j] = status[j]
                      \/ status[j] = "queued" /\ status'[j] \in {"cancelled", "timed_out"}
  BY <1>1, <1>3, <1>4
<1>11. \A j \in Job : status[j] # "queued" => token'[j] = token[j]
  BY <1>1, <1>4, <1>5
<1>12. \A w \in Worker : pc'[w] = pc[w] \/ (pc[w] = "free" /\ pc'[w] = "reserved")
  BY <1>1, <1>6
<1>13. UNCHANGED <<cancelReq, wpid, pid, phase, overdue, seen, killing, unrecorded, outcome,
                   child, fence, faults, history>>
  BY DEF ReserveWorkerLaunches
<1>. QED BY <1>7, <1>8, <1>9, <1>10, <1>11, <1>12, <1>13
-----------------------------------------------------------------------------
\* Every transaction and every step of a process keeps the types.
LEMMA TypeStep == JobInv /\ [Next]_vars => TypeOK'
<1> SUFFICES ASSUME JobInv, [Next]_vars PROVE TypeOK'
  OBVIOUS
<1>a. TypeOK
  BY DEF JobInv
<1>b. \A w \in Worker : pc[w] = "cleanup" => outcome[w] # "none"
  BY DEF JobInv, Collected
<1> USE <1>a, WorkerJob DEF TypeOK, rowVars, workerVars, history, Active, Terminal
<1>1. ASSUME NEW j \in Job, Submit(j) PROVE TypeOK'
  BY <1>1 DEF Submit
<1>2. ASSUME NEW j \in Job, Cancel(j) PROVE TypeOK'
  BY <1>2 DEF Cancel
<1>3. ASSUME NEW j \in Job, CancelOrphan(j) PROVE TypeOK'
  BY <1>3 DEF CancelOrphan
<1>4. ASSUME NEW j \in Job, QueueDeadlinePasses(j) PROVE TypeOK'
  BY <1>4 DEF QueueDeadlinePasses
<1>5. ASSUME NEW j \in Job, ReadRow(j) PROVE TypeOK'
  BY <1>5 DEF ReadRow
<1>6. ASSUME NEW j \in Job, Reconcile(j) PROVE TypeOK'
  BY <1>6 DEF Reconcile
<1>7. ASSUME NEW j \in Job, RecoverStaleLaunch(j) PROVE TypeOK'
  BY <1>7 DEF RecoverStaleLaunch
<1>8. CASE ReserveWorkerLaunches
  BY <1>8, ReserveEffect
<1>9. ASSUME NEW w \in Worker, LaunchWorker(w) PROVE TypeOK'
  BY <1>9 DEF LaunchWorker
<1>10. ASSUME NEW w \in Worker, FailWorkerLaunch(w) PROVE TypeOK'
  BY <1>10 DEF FailWorkerLaunch
<1>11. ASSUME NEW w \in Worker, RecordWorkerLaunch(w) PROVE TypeOK'
  BY <1>11 DEF RecordWorkerLaunch
<1>12. ASSUME NEW w \in Worker, LauncherDies(w) PROVE TypeOK'
  BY <1>12 DEF LauncherDies
<1>13. ASSUME NEW w \in Worker, ClaimForExecution(w) PROVE TypeOK'
  BY <1>13 DEF ClaimForExecution, EndedAs, At, Goto
<1>14. ASSUME NEW w \in Worker, CheckCancel(w) PROVE TypeOK'
  BY <1>14 DEF CheckCancel, At, Goto
<1>15. ASSUME NEW w \in Worker, Admit(w) PROVE TypeOK'
  BY <1>15 DEF Admit, At, Goto
<1>16. ASSUME NEW w \in Worker, AdmissionFails(w) PROVE TypeOK'
  BY <1>16 DEF AdmissionFails, At, Goto
<1>17. ASSUME NEW w \in Worker, MarkMayDispatch(w) PROVE TypeOK'
  <2> DEFINE mine == status[JobOf(w)] = "running" /\ phase[JobOf(w)] = "pending" /\ wpid[JobOf(w)] = w
  <2>1. CASE mine /\ JobOf(w) \notin cancelReq
    BY <1>17, <2>1 DEF MarkMayDispatch, At, Goto
  <2>2. CASE ~(mine /\ JobOf(w) \notin cancelReq)
    <3>1. status' \in [Job -> {"absent", "queued"} \cup Active \cup Terminal] /\ UNCHANGED phase
      BY <1>17, <2>2 DEF MarkMayDispatch
    <3>2. pc' = [pc EXCEPT ![w] = "done"] /\ fence' \in [Worker -> {"none", "active", "quarantined", "released"}]
      BY <1>17, <2>2 DEF MarkMayDispatch, Goto, EndFence
    <3>. QED BY <1>17, <3>1, <3>2 DEF MarkMayDispatch
  <2>. QED BY <2>1, <2>2
<1>18. ASSUME NEW w \in Worker, Spawn(w) PROVE TypeOK'
  BY <1>18 DEF Spawn, At, Goto
<1>19. ASSUME NEW w \in Worker, SpawnRejected(w) PROVE TypeOK'
  BY <1>19 DEF SpawnRejected, EndFence, At, Goto
<1>20. ASSUME NEW w \in Worker, RecordPid(w) PROVE TypeOK'
  BY <1>20 DEF RecordPid, At, Goto
<1>21. ASSUME NEW w \in Worker, Collect(w) PROVE TypeOK'
  BY <1>21 DEF Collect, At, Goto
<1>22. ASSUME NEW w \in Worker, Terminate(w) PROVE TypeOK'
  BY <1>22 DEF Terminate, At, Goto
<1>23. ASSUME NEW w \in Worker, EffectRaises(w) PROVE TypeOK'
  BY <1>23 DEF EffectRaises, EndFence, At, Goto
<1>24. ASSUME NEW w \in Worker, ReleaseFence(w) PROVE TypeOK'
  BY <1>24, <1>b DEF ReleaseFence, EndFence, At, Goto
<1>25. ASSUME NEW w \in Worker, Publish(w) PROVE TypeOK'
  BY <1>25 DEF Publish, At, Goto
<1>26. ASSUME NEW w \in Worker, PublishFailed(w) PROVE TypeOK'
  BY <1>26 DEF PublishFailed, At, Goto
<1>27. ASSUME NEW w \in Worker, ChildExits(w) PROVE TypeOK'
  BY <1>27 DEF ChildExits, At, Goto
<1>28. ASSUME NEW w \in Worker, WorkerDies(w) PROVE TypeOK'
  BY <1>28 DEF WorkerDies, At, Goto
<1>29. ASSUME NEW w \in Worker, RecoverFence(w) PROVE TypeOK'
  BY <1>29 DEF RecoverFence, EndFence, At, Goto
<1>30. ASSUME NEW w \in Worker, ResolveFence(w) PROVE TypeOK'
  BY <1>30 DEF ResolveFence, At, Goto
<1>31. CASE UNCHANGED vars
  BY <1>31 DEF vars
<1>. QED BY <1>1, <1>2, <1>3, <1>4, <1>5, <1>6, <1>7, <1>8, <1>9, <1>10, <1>11, <1>12, <1>13, <1>14, <1>15, <1>16, <1>17, <1>18, <1>19, <1>20, <1>21, <1>22, <1>23, <1>24, <1>25, <1>26, <1>27, <1>28, <1>29, <1>30, <1>31, ZenonT(30) DEF Next, WorkerStep
-----------------------------------------------------------------------------
(***************************************************************************)
(* A worker stays named by its row as long as the row does not turn back   *)
(* and nothing but its own work gives it a request or a child.             *)
(***************************************************************************)
LEMMA NamedFrame ==
    ASSUME NEW v \in Worker, NamedByRow(v),
           pc'[v] \in Working => pc[v] \in Working,
           fence'[v] # "none" => fence[v] # "none" \/ pc[v] \in Working,
           child'[v] # "none" => child[v] # "none" \/ pc[v] \in Working,
           status[JobOf(v)] \notin {"absent", "queued"} =>
               wpid'[JobOf(v)] = wpid[JobOf(v)] /\ status'[JobOf(v)] \notin {"absent", "queued"},
           pc'[v] \in Working /\ status[JobOf(v)] = "running" => status'[JobOf(v)] = "running"
    PROVE  NamedByRow(v)'
BY DEF NamedByRow, JobOf

\* Of the workers of one job at most one works: the one the row names.
LEMMA OneWorks ==
    ASSUME JobInv, NEW v \in Worker, NEW w \in Worker, pc[v] \in Working, pc[w] \in Working, JobOf(v) = JobOf(w)
    PROVE  v = w
BY DEF JobInv, NamedByRow

\* A job is claimed once, and its row runs as long as its worker works.
LEMMA NamedStep == JobInv /\ [Next]_vars => \A v \in Worker : NamedByRow(v)'
<1> SUFFICES ASSUME JobInv, [Next]_vars, NEW v \in Worker PROVE NamedByRow(v)'
  OBVIOUS
<1>a. TypeOK /\ NamedByRow(v) /\ JobOf(v) \in Job
  BY WorkerJob DEF JobInv
<1>b. pc[v] \in Working => status[JobOf(v)] = "running"
  BY <1>a DEF NamedByRow
<1>1. ASSUME NEW j \in Job, Submit(j) PROVE NamedByRow(v)'
  BY <1>1, <1>a, NamedFrame DEF Submit, workerVars, TypeOK
<1>2. ASSUME NEW j \in Job, Cancel(j) PROVE NamedByRow(v)'
  BY <1>2, <1>a, NamedFrame DEF Cancel, workerVars, TypeOK
<1>3. ASSUME NEW j \in Job, CancelOrphan(j) PROVE NamedByRow(v)'
  <2>1. child'[v] # "none" => child[v] # "none"
    BY <1>3, <1>a DEF CancelOrphan, TypeOK, JobInv, DispatchedRow
  <2>. QED BY <1>3, <2>1, <1>a, NamedFrame DEF CancelOrphan, TypeOK
<1>4. ASSUME NEW j \in Job, Reconcile(j) PROVE NamedByRow(v)'
  <2>1. pc[v] \in Working => Alive(v) /\ wpid[JobOf(v)] = v
    BY <1>a, BoundAssumption DEF Alive, Working, NamedByRow
  <2>2. pc[v] \in Working => status'[JobOf(v)] = "running"
    BY <1>4, <1>a, <1>b, <2>1 DEF Reconcile, TypeOK
  <2>3. status[JobOf(v)] \notin {"absent", "queued"} => status'[JobOf(v)] \notin {"absent", "queued"}
    BY <1>4, <1>a DEF Reconcile, TypeOK
  <2>. QED BY <1>4, <2>2, <2>3, <1>a, NamedFrame DEF Reconcile, workerVars
<1>5. ASSUME NEW j \in Job, QueueDeadlinePasses(j) \/ ReadRow(j) PROVE NamedByRow(v)'
  BY <1>5, <1>a, NamedFrame DEF QueueDeadlinePasses, ReadRow, rowVars, workerVars
<1>6. ASSUME NEW j \in Job, RecoverStaleLaunch(j) PROVE NamedByRow(v)'
  BY <1>6, <1>a, NamedFrame DEF RecoverStaleLaunch, Reserved, workerVars, TypeOK
<1>7. CASE ReserveWorkerLaunches
  <2>1. pc'[v] \in Working => pc[v] \in Working
    BY <1>7, <1>a, ReserveEffect DEF Working
  <2>2. /\ status'[JobOf(v)] = status[JobOf(v)] \/ status[JobOf(v)] = "queued"
        /\ UNCHANGED <<wpid, child, fence>>
    BY <1>7, <1>a, ReserveEffect
  <2>. QED BY <2>1, <2>2, <1>a, NamedFrame
<1>8. ASSUME NEW w \in Worker, LaunchWorker(w) \/ LauncherDies(w) PROVE NamedByRow(v)'
  <2>1. pc'[v] \in Working => pc[v] \in Working
    BY <1>8, <1>a DEF LaunchWorker, LauncherDies, Working, TypeOK
  <2>. QED BY <1>8, <2>1, <1>a, NamedFrame DEF LaunchWorker, LauncherDies, rowVars
<1>9. ASSUME NEW w \in Worker, FailWorkerLaunch(w) PROVE NamedByRow(v)'
  <2>1. pc'[v] \in Working => pc[v] \in Working
    BY <1>9, <1>a DEF FailWorkerLaunch, Working, TypeOK
  <2>2. status'[JobOf(v)] = status[JobOf(v)] \/ status[JobOf(v)] = "queued"
    BY <1>9, <1>a DEF FailWorkerLaunch, TypeOK
  <2>. QED BY <1>9, <2>1, <2>2, <1>a, NamedFrame DEF FailWorkerLaunch
<1>10. ASSUME NEW w \in Worker, RecordWorkerLaunch(w) PROVE NamedByRow(v)'
  BY <1>10, <1>a, NamedFrame DEF RecordWorkerLaunch, workerVars, TypeOK
<1>11. ASSUME NEW w \in Worker, ClaimForExecution(w) PROVE NamedByRow(v)'
  <2>1. CASE status[JobOf(w)] # "queued" \/ token[JobOf(w)] # w
    <3>1. UNCHANGED <<status, wpid, fence, child>> /\ pc' = [pc EXCEPT ![w] = "done"]
      BY <1>11, <2>1 DEF ClaimForExecution, Goto
    <3>. QED BY <3>1, <1>a, NamedFrame DEF TypeOK, Working
  <2>2. CASE /\ ~(status[JobOf(w)] # "queued" \/ token[JobOf(w)] # w)
             /\ JobOf(w) \in overdue \cup cancelReq
    <3>1. /\ UNCHANGED <<wpid, fence, child>> /\ pc' = [pc EXCEPT ![w] = "done"]
          /\ status' = [status EXCEPT ![JobOf(w)] = EndedAs(JobOf(w))]
      BY <1>11, <2>2 DEF ClaimForExecution, Goto
    <3>2. pc'[v] \in Working => pc[v] \in Working
      BY <3>1, <1>a DEF TypeOK, Working
    <3>3. status'[JobOf(v)] = status[JobOf(v)] \/ status[JobOf(v)] = "queued"
      BY <3>1, <2>2, <1>a DEF TypeOK
    <3>. QED BY <3>1, <3>2, <3>3, <1>a, NamedFrame
  <2>3. CASE /\ ~(status[JobOf(w)] # "queued" \/ token[JobOf(w)] # w)
             /\ JobOf(w) \notin overdue \cup cancelReq
    <3>1. /\ UNCHANGED <<fence, child>> /\ pc' = [pc EXCEPT ![w] = "claimed"]
          /\ status' = [status EXCEPT ![JobOf(w)] = "running"]
          /\ wpid' = [wpid EXCEPT ![JobOf(w)] = w]
      BY <1>11, <2>3 DEF ClaimForExecution, Goto
    <3>2. status[JobOf(w)] = "queued" /\ JobOf(w) \in Job
      BY <2>3, WorkerJob
    <3>3. CASE v = w
      BY <3>1, <3>2, <3>3, <1>a DEF NamedByRow, TypeOK, JobOf
    <3>4. CASE v # w
      <4>1. pc'[v] = pc[v]
        BY <3>1, <3>4, <1>a DEF TypeOK
      <4>2. CASE JobOf(v) = JobOf(w)
        BY <3>1, <3>2, <4>1, <4>2, <1>a, NamedFrame DEF TypeOK, NamedByRow
      <4>3. CASE JobOf(v) # JobOf(w)
        BY <3>1, <4>1, <4>3, <1>a, NamedFrame DEF TypeOK
      <4>. QED BY <4>2, <4>3
    <3>. QED BY <3>3, <3>4
  <2>. QED BY <2>1, <2>2, <2>3
\* The worker whose own step ends its row no longer works afterwards.
<1>c. ASSUME NEW w \in Worker, pc[w] \in Working, pc' = [pc EXCEPT ![w] = "done"], UNCHANGED wpid,
             status' = status \/ \E s \in Terminal : status' = [status EXCEPT ![JobOf(w)] = s],
             fence'[v] # "none" => fence[v] # "none" \/ pc[v] \in Working,
             child'[v] # "none" => child[v] # "none" \/ pc[v] \in Working
      PROVE  NamedByRow(v)'
  <2>1. pc'[v] \in Working => pc[v] \in Working /\ v # w
    BY <1>c, <1>a DEF TypeOK, Working
  <2>2. pc'[v] \in Working => JobOf(v) # JobOf(w)
    BY <2>1, <1>c, OneWorks
  <2>3. status'[JobOf(v)] = status[JobOf(v)] \/ (JobOf(v) = JobOf(w) /\ status'[JobOf(v)] \in Terminal)
    BY <1>c, <1>a, WorkerJob DEF TypeOK
  <2>4. status[JobOf(v)] \notin {"absent", "queued"} => status'[JobOf(v)] \notin {"absent", "queued"}
    BY <2>3 DEF Terminal
  <2>. QED BY <1>c, <1>a, <2>1, <2>2, <2>3, <2>4, NamedFrame
\* A worker that goes on working, or dies, and leaves its row alone.
<1>d. ASSUME NEW w \in Worker, pc[w] \in Working \/ pc'[w] \notin Working, UNCHANGED <<status, wpid>>,
             \E p \in Working \cup {"dead"} : pc' = [pc EXCEPT ![w] = p],
             fence'[v] # "none" => fence[v] # "none" \/ pc[v] \in Working,
             child'[v] # "none" => child[v] # "none" \/ pc[v] \in Working
      PROVE  NamedByRow(v)'
  <2>1. pc'[v] \in Working => pc[v] \in Working
    BY <1>d, <1>a DEF TypeOK, Working
  <2>. QED BY <1>d, <1>a, <2>1, NamedFrame
<1>12. ASSUME NEW w \in Worker, CheckCancel(w) PROVE NamedByRow(v)'
  <2>1. pc[w] \in Working /\ UNCHANGED <<wpid, fence, child>>
    BY <1>12 DEF CheckCancel, At, Working
  <2>2. CASE JobOf(w) \in cancelReq
    BY <1>12, <2>1, <2>2, <1>c DEF CheckCancel, Goto, Terminal
  <2>3. CASE JobOf(w) \notin cancelReq
    BY <1>12, <2>1, <2>3, <1>d DEF CheckCancel, Goto, Working
  <2>. QED BY <2>2, <2>3
<1>13. ASSUME NEW w \in Worker, MarkMayDispatch(w) PROVE NamedByRow(v)'
  <2> DEFINE mine == status[JobOf(w)] = "running" /\ phase[JobOf(w)] = "pending" /\ wpid[JobOf(w)] = w
  <2>1. pc[w] \in Working /\ UNCHANGED <<wpid, child>>
    BY <1>13 DEF MarkMayDispatch, At, Working
  <2>2. CASE mine /\ JobOf(w) \notin cancelReq
    BY <1>13, <2>1, <2>2, <1>d DEF MarkMayDispatch, Goto, Working
  <2>3. CASE ~(mine /\ JobOf(w) \notin cancelReq)
    <3>1. pc' = [pc EXCEPT ![w] = "done"] /\ EndFence(w, "released")
      BY <1>13, <2>3 DEF MarkMayDispatch, Goto
    <3>2. status' = [status EXCEPT ![JobOf(w)] = IF mine THEN "cancelled" ELSE @]
      BY <1>13, <2>3 DEF MarkMayDispatch
    <3>3. status' = status \/ status' = [status EXCEPT ![JobOf(w)] = "cancelled"]
      BY <3>2, <1>a, ZenonT(30) DEF TypeOK
    <3>4. fence'[v] # "none" => fence[v] # "none"
      BY <3>1, <1>a DEF EndFence, TypeOK
    <3>. QED BY <2>1, <3>1, <3>3, <3>4, <1>c, ZenonT(30) DEF Terminal
  <2>. QED BY <2>2, <2>3
<1>14. ASSUME NEW w \in Worker, Admit(w) PROVE NamedByRow(v)'
  <2>1. pc[w] \in Working
    BY <1>14 DEF Admit, At, Working
  <2>2. fence'[v] # "none" => fence[v] # "none" \/ pc[v] \in Working
    BY <1>14, <2>1, <1>a DEF Admit, TypeOK
  <2>. QED BY <1>14, <2>1, <2>2, <1>d, ZenonT(30) DEF Admit, Goto, Working, rowVars
<1>15. ASSUME NEW w \in Worker, AdmissionFails(w) \/ RecordPid(w) \/ Collect(w) PROVE NamedByRow(v)'
  <2>1. pc[w] \in Working /\ UNCHANGED <<status, wpid, fence, child>>
    BY <1>15 DEF AdmissionFails, RecordPid, Collect, At, Working, rowVars
  <2>. QED BY <1>15, <2>1, <1>d DEF AdmissionFails, RecordPid, Collect, Goto, Working
<1>16. ASSUME NEW w \in Worker, Spawn(w) \/ Terminate(w) PROVE NamedByRow(v)'
  <2>1. pc[w] \in Working /\ UNCHANGED <<status, wpid, fence>>
    BY <1>16 DEF Spawn, Terminate, At, Working, rowVars
  <2>2. child'[v] # "none" => child[v] # "none" \/ pc[v] \in Working
    BY <1>16, <2>1, <1>a DEF Spawn, Terminate, TypeOK
  <2>. QED BY <1>16, <2>1, <2>2, <1>d DEF Spawn, Terminate, Goto, Working
<1>17. ASSUME NEW w \in Worker, SpawnRejected(w) \/ EffectRaises(w) \/ ReleaseFence(w) PROVE NamedByRow(v)'
  <2>1. pc[w] \in Working /\ UNCHANGED <<status, wpid, child>>
    BY <1>17 DEF SpawnRejected, EffectRaises, ReleaseFence, At, Working, rowVars
  <2>2. fence'[v] # "none" => fence[v] # "none"
    BY <1>17, <1>a DEF SpawnRejected, EffectRaises, ReleaseFence, EndFence, TypeOK
  <2>. QED BY <1>17, <2>1, <2>2, <1>d DEF SpawnRejected, EffectRaises, ReleaseFence, Goto, Working
<1>18. ASSUME NEW w \in Worker, Publish(w) PROVE NamedByRow(v)'
  <2>1. pc[w] \in Working /\ UNCHANGED <<wpid, child, fence>>
    BY <1>18 DEF Publish, At, Working
  <2>2. outcome[w] \in Terminal
    BY <1>18, <1>a DEF Publish, At, TypeOK, Terminal
  <2>. QED BY <1>18, <2>1, <2>2, <1>c, ZenonT(30) DEF Publish, Goto
<1>19. ASSUME NEW w \in Worker, PublishFailed(w) PROVE NamedByRow(v)'
  <2>1. pc[w] \in Working /\ UNCHANGED <<wpid, fence>>
    BY <1>19 DEF PublishFailed, At, Working
  <2>2. child'[v] # "none" => child[v] # "none"
    BY <1>19, <1>a DEF PublishFailed, TypeOK
  <2>. QED BY <1>19, <2>1, <2>2, <1>c, ZenonT(30) DEF PublishFailed, Goto, Terminal
<1>20. ASSUME NEW w \in Worker, WorkerDies(w) PROVE NamedByRow(v)'
  <2>1. pc'[w] \notin Working
    BY <1>20, <1>a DEF WorkerDies, Goto, TypeOK, Working
  <2>2. child'[v] # "none" => child[v] # "none"
    BY <1>20, <1>a DEF WorkerDies, TypeOK
  <2>. QED BY <1>20, <2>1, <2>2, <1>d, ZenonT(30) DEF WorkerDies, Goto, rowVars
<1>21. ASSUME NEW w \in Worker, ChildExits(w) \/ RecoverFence(w) \/ ResolveFence(w) PROVE NamedByRow(v)'
  <2>1. (child'[v] # "none" => child[v] # "none") /\ (fence'[v] # "none" => fence[v] # "none")
    BY <1>21, <1>a DEF ChildExits, ChildAlive, RecoverFence, ResolveFence, EndFence, TypeOK
  <2>. QED BY <1>21, <2>1, <1>a, NamedFrame DEF ChildExits, RecoverFence, ResolveFence, rowVars
<1>22. CASE UNCHANGED vars
  BY <1>22, <1>a, NamedFrame DEF vars, rowVars, workerVars
<1>. QED BY <1>1, <1>2, <1>3, <1>4, <1>5, <1>6, <1>7, <1>8, <1>9, <1>10, <1>11, <1>12, <1>13, <1>14, <1>15,
        <1>16, <1>17, <1>18, <1>19, <1>20, <1>21, <1>22, ZenonT(30) DEF Next, WorkerStep
-----------------------------------------------------------------------------
\* Nothing is spawned for a job before the one dispatch of its worker.
LEMMA SpawnStep == JobInv /\ [Next]_vars => \A v \in Worker : BeforeSpawn(v)'
<1> SUFFICES ASSUME JobInv, [Next]_vars, NEW v \in Worker PROVE BeforeSpawn(v)'
  OBVIOUS
<1> DEFINE Early == {"claimed", "admitting", "fenced", "dispatching"}
<1>a. TypeOK /\ NamedByRow(v) /\ BeforeSpawn(v) /\ JobOf(v) \in Job
  BY WorkerJob DEF JobInv
<1>b. Early \subseteq Working
  BY DEF Working
\* A step that leaves spawns, phase and the worker where they are, or moves the worker away.
<1>c. ASSUME pc'[v] \in Early => pc'[v] = pc[v],
             UNCHANGED <<spawns, phase>>, child[v] = "none" => child'[v] = "none"
      PROVE  BeforeSpawn(v)'
  BY <1>a, <1>c DEF BeforeSpawn, JobOf
<1>1. ASSUME NEW j \in Job, Submit(j) \/ Cancel(j) \/ QueueDeadlinePasses(j) \/ ReadRow(j) \/ Reconcile(j)
                            \/ RecoverStaleLaunch(j) PROVE BeforeSpawn(v)'
  <2>1. UNCHANGED <<pc, spawns, phase, child>>
    BY <1>1 DEF Submit, Cancel, QueueDeadlinePasses, ReadRow, Reconcile, RecoverStaleLaunch, workerVars, history,
                rowVars
  <2>. QED BY <2>1, <1>c
<1>2. ASSUME NEW j \in Job, CancelOrphan(j) PROVE BeforeSpawn(v)'
  <2>1. pid[j] # NoWorker => child[pid[j]] # "none"
    BY DEF JobInv, DispatchedRow
  <2>2. child[v] = "none" => child'[v] = "none"
    BY <1>2, <2>1, <1>a DEF CancelOrphan, TypeOK
  <2>. QED BY <1>2, <2>2, <1>c DEF CancelOrphan, history
<1>3. CASE ReserveWorkerLaunches
  <2>1. pc'[v] \in Early => pc'[v] = pc[v]
    BY <1>3, <1>a, ReserveEffect
  <2>2. UNCHANGED <<spawns, phase, child>>
    BY <1>3, <1>a, ReserveEffect DEF history
  <2>. QED BY <2>1, <2>2, <1>c
<1>4. ASSUME NEW w \in Worker, LaunchWorker(w) \/ FailWorkerLaunch(w) \/ RecordWorkerLaunch(w) \/ LauncherDies(w)
      PROVE  BeforeSpawn(v)'
  <2>1. pc'[v] \in Early => pc'[v] = pc[v]
    BY <1>4, <1>a DEF LaunchWorker, FailWorkerLaunch, RecordWorkerLaunch, LauncherDies, workerVars, TypeOK
  <2>2. UNCHANGED <<spawns, phase, child>>
    BY <1>4 DEF LaunchWorker, FailWorkerLaunch, RecordWorkerLaunch, LauncherDies, workerVars, history, rowVars
  <2>. QED BY <2>1, <2>2, <1>c
<1>5. ASSUME NEW w \in Worker, ClaimForExecution(w) PROVE BeforeSpawn(v)'
  <2>1. CASE pc' = [pc EXCEPT ![w] = "done"] /\ UNCHANGED phase
    BY <1>5, <2>1, <1>a, <1>c DEF ClaimForExecution, TypeOK, history
  <2>2. CASE ~(pc' = [pc EXCEPT ![w] = "done"] /\ UNCHANGED phase)
    <3>1. /\ status[JobOf(w)] = "queued" /\ phase' = [phase EXCEPT ![JobOf(w)] = "pending"]
          /\ pc' = [pc EXCEPT ![w] = "claimed"] /\ UNCHANGED <<spawns, child>>
      BY <1>5, <2>2 DEF ClaimForExecution, Goto, history
    <3>2. CASE v = w
      <4>1. spawns[JobOf(v)] = 0
        BY <3>1, <3>2, <1>a DEF JobInv, DispatchedRow
      <4>2. child[v] = "none"
        BY <3>1, <3>2, <1>a DEF NamedByRow
      <4>3. pc'[v] = "claimed"
        BY <3>1, <3>2, <1>a DEF TypeOK
      <4>. QED BY <3>1, <4>1, <4>2, <4>3 DEF BeforeSpawn, JobOf
    <3>3. CASE v # w
      <4>1. pc'[v] = pc[v]
        BY <3>1, <3>3, <1>a DEF TypeOK
      <4>2. pc[v] \in Early => phase'[JobOf(v)] = phase[JobOf(v)]
        BY <3>1, <1>a, <1>b DEF NamedByRow, TypeOK
      <4>. QED BY <3>1, <4>1, <4>2, <1>a DEF BeforeSpawn, JobOf
    <3>. QED BY <3>2, <3>3
  <2>. QED BY <2>1, <2>2
<1>6. ASSUME NEW w \in Worker, CheckCancel(w) \/ Admit(w) PROVE BeforeSpawn(v)'
  <2>1. pc[w] \in {"claimed", "admitting"} /\ UNCHANGED <<spawns, phase, child>>
    BY <1>6 DEF CheckCancel, Admit, At, history, rowVars
  <2>2. \E p \in {"done", "admitting", "fenced"} : pc' = [pc EXCEPT ![w] = p]
    BY <1>6 DEF CheckCancel, Admit, Goto
  <2>. QED BY <2>1, <2>2, <1>a DEF BeforeSpawn, JobOf, TypeOK
<1>7. ASSUME NEW w \in Worker, MarkMayDispatch(w) PROVE BeforeSpawn(v)'
  <2>1. pc[w] = "fenced" /\ UNCHANGED <<spawns, child>>
    BY <1>7 DEF MarkMayDispatch, At, history
  <2>2. \/ pc' = [pc EXCEPT ![w] = "done"] /\ UNCHANGED phase
        \/ pc' = [pc EXCEPT ![w] = "dispatching"] /\ phase' = [phase EXCEPT ![JobOf(w)] = "may_dispatch"]
    BY <1>7 DEF MarkMayDispatch, Goto
  <2>. QED BY <2>1, <2>2, <1>a DEF BeforeSpawn, JobOf, TypeOK
<1>8. ASSUME NEW w \in Worker, Spawn(w) PROVE BeforeSpawn(v)'
  <2>1. /\ pc[w] = "dispatching" /\ pc' = [pc EXCEPT ![w] = "spawned"] /\ UNCHANGED phase
        /\ child' = [child EXCEPT ![w] = "alive"] /\ spawns' = [spawns EXCEPT ![JobOf(w)] = @ + 1]
    BY <1>8 DEF Spawn, At, Goto, rowVars
  <2>2. pc'[v] \in Early => v # w /\ pc[v] \in Early
    BY <2>1, <1>a DEF TypeOK
  <2>3. pc'[v] \in Early => JobOf(v) # JobOf(w)
    BY <2>1, <2>2, <1>b, OneWorks DEF Working
  <2>4. pc'[v] \in Early => spawns'[JobOf(v)] = spawns[JobOf(v)] /\ child'[v] = child[v] /\ pc'[v] = pc[v]
    BY <2>1, <2>2, <2>3, <1>a DEF TypeOK
  <2>. QED BY <2>1, <2>4, <1>a DEF BeforeSpawn, JobOf
<1>9. ASSUME NEW w \in Worker, AdmissionFails(w) \/ SpawnRejected(w) \/ RecordPid(w) \/ Collect(w)
                               \/ EffectRaises(w) \/ ReleaseFence(w) \/ Publish(w) PROVE BeforeSpawn(v)'
  <2>1. \E p \in {"failing", "waiting", "cleanup", "report", "done"} : pc' = [pc EXCEPT ![w] = p]
    BY <1>9 DEF AdmissionFails, SpawnRejected, RecordPid, Collect, EffectRaises, ReleaseFence, Publish, Goto
  <2>2. UNCHANGED <<spawns, phase, child>>
    BY <1>9 DEF AdmissionFails, SpawnRejected, RecordPid, Collect, EffectRaises, ReleaseFence, Publish, rowVars, history
  <2>. QED BY <2>1, <2>2, <1>a, <1>c DEF TypeOK
<1>10. ASSUME NEW w \in Worker, Terminate(w) \/ PublishFailed(w) \/ WorkerDies(w) \/ ChildExits(w) PROVE BeforeSpawn(v)'
  <2>1. pc' = pc \/ \E p \in {"cleanup", "done", "dead"} : pc' = [pc EXCEPT ![w] = p]
    BY <1>10 DEF Terminate, PublishFailed, WorkerDies, ChildExits, Goto
  <2>2. UNCHANGED <<spawns, phase>>
    BY <1>10 DEF Terminate, PublishFailed, WorkerDies, ChildExits, rowVars, history
  <2>3. child'[v] = child[v] \/ child[v] = "alive" \/ pc'[v] \notin Early
    BY <1>10, <1>a DEF Terminate, PublishFailed, WorkerDies, ChildExits, ChildAlive, Goto, TypeOK
  <2>4. pc'[v] \in Early => pc'[v] = pc[v]
    BY <2>1, <1>a DEF TypeOK
  <2>. QED BY <2>2, <2>3, <2>4, <1>a DEF BeforeSpawn, JobOf
<1>11. ASSUME NEW w \in Worker, RecoverFence(w) \/ ResolveFence(w) PROVE BeforeSpawn(v)'
  BY <1>11, <1>c DEF RecoverFence, ResolveFence, rowVars, history
<1>12. CASE UNCHANGED vars
  BY <1>12, <1>c DEF vars, rowVars, workerVars, history
<1>. QED BY <1>1, <1>2, <1>3, <1>4, <1>5, <1>6, <1>7, <1>8, <1>9, <1>10, <1>11, <1>12, ZenonT(30)
     DEF Next, WorkerStep
-----------------------------------------------------------------------------
\* A child lives under the held request of its worker until it is collected.
LEMMA FenceStep == JobInv /\ [Next]_vars => \A v \in Worker : UnderFence(v)' /\ Collected(v)'
<1> SUFFICES ASSUME JobInv, [Next]_vars, NEW v \in Worker PROVE UnderFence(v)' /\ Collected(v)'
  OBVIOUS
<1> DEFINE Inside == {"fenced", "dispatching", "spawned", "waiting", "cleanup"}
<1>a. TypeOK /\ UnderFence(v) /\ Collected(v) /\ BeforeSpawn(v)
  BY DEF JobInv
\* A step that leaves the request alone, spawns nothing and moves the worker at most out of the context.
<1>c. ASSUME pc'[v] \in Inside \cup {"report"} => pc'[v] = pc[v] /\ outcome'[v] = outcome[v],
             fence'[v] = fence[v], child'[v] = child[v] \/ child'[v] = "gone"
      PROVE  UnderFence(v)' /\ Collected(v)'
  BY <1>a, <1>c DEF UnderFence, Collected, HasFence, JobOf
\* A step that only moves the worker, within the context.
<1>d. ASSUME NEW w \in Worker, NEW p \in Inside \ {"cleanup"}, pc[w] \in Inside, pc' = [pc EXCEPT ![w] = p],
             UNCHANGED <<fence, outcome>>, child' = child \/ (pc[w] = "dispatching" /\ child' = [child EXCEPT ![w] = "alive"])
      PROVE  UnderFence(v)' /\ Collected(v)'
  BY <1>a, <1>d DEF UnderFence, Collected, HasFence, JobOf, TypeOK
<1>1. ASSUME NEW j \in Job, Submit(j) \/ Cancel(j) \/ QueueDeadlinePasses(j) \/ ReadRow(j) \/ Reconcile(j)
                            \/ RecoverStaleLaunch(j) PROVE UnderFence(v)' /\ Collected(v)'
  <2>1. UNCHANGED workerVars
    BY <1>1 DEF Submit, Cancel, QueueDeadlinePasses, ReadRow, Reconcile, RecoverStaleLaunch
  <2>. QED BY <2>1, <1>c DEF workerVars
<1>2. ASSUME NEW j \in Job, CancelOrphan(j) PROVE UnderFence(v)' /\ Collected(v)'
  BY <1>2, <1>a, <1>c DEF CancelOrphan, TypeOK
<1>3. CASE ReserveWorkerLaunches
  <2>1. pc'[v] = pc[v] \/ pc'[v] = "reserved"
    BY <1>3, <1>a, ReserveEffect
  <2>2. UNCHANGED <<outcome, fence, child>>
    BY <1>3, <1>a, ReserveEffect
  <2>. QED BY <2>1, <2>2, <1>c
<1>4. ASSUME NEW w \in Worker, LaunchWorker(w) \/ FailWorkerLaunch(w) \/ RecordWorkerLaunch(w) \/ LauncherDies(w)
      PROVE  UnderFence(v)' /\ Collected(v)'
  <2>1. pc'[v] \in Inside \cup {"report"} => pc'[v] = pc[v]
    BY <1>4, <1>a DEF LaunchWorker, FailWorkerLaunch, RecordWorkerLaunch, LauncherDies, workerVars, TypeOK
  <2>2. UNCHANGED <<outcome, fence, child>>
    BY <1>4 DEF LaunchWorker, FailWorkerLaunch, RecordWorkerLaunch, LauncherDies, workerVars
  <2>. QED BY <2>1, <2>2, <1>c
<1>5. ASSUME NEW w \in Worker, ClaimForExecution(w) \/ CheckCancel(w) \/ AdmissionFails(w)
      PROVE  UnderFence(v)' /\ Collected(v)'
  <2>1. \E p \in {"done", "claimed", "admitting", "failing"} : pc' = [pc EXCEPT ![w] = p]
    BY <1>5 DEF ClaimForExecution, CheckCancel, AdmissionFails, Goto
  <2>2. UNCHANGED <<outcome, fence, child>>
    BY <1>5 DEF ClaimForExecution, CheckCancel, AdmissionFails
  <2>. QED BY <2>1, <2>2, <1>a, <1>c DEF TypeOK
<1>6. ASSUME NEW w \in Worker, Admit(w) PROVE UnderFence(v)' /\ Collected(v)'
  <2>1. /\ pc[w] = "admitting" /\ pc' = [pc EXCEPT ![w] = "fenced"] /\ UNCHANGED <<outcome, child>>
        /\ IF JobOf(w) \in Nested THEN fence' = fence ELSE fence' = [fence EXCEPT ![w] = "active"]
    BY <1>6 DEF Admit, At, Goto
  <2>2. CASE v # w
    BY <2>1, <2>2, <1>a, <1>c DEF TypeOK
  <2>3. CASE v = w
    <3>1. pc'[v] = "fenced" /\ child'[v] = child[v] /\ outcome'[v] = outcome[v]
      BY <2>1, <2>3, <1>a DEF TypeOK
    <3>2. JobOf(v) \in Nested => fence'[v] = fence[v]
      BY <2>1, <2>3
    <3>3. JobOf(v) \notin Nested => fence'[v] = "active"
      BY <2>1, <2>3, <1>a DEF TypeOK
    <3>. QED BY <3>1, <3>2, <3>3, <1>a DEF UnderFence, Collected, HasFence, JobOf
  <2>. QED BY <2>2, <2>3
<1>7. ASSUME NEW w \in Worker, MarkMayDispatch(w) PROVE UnderFence(v)' /\ Collected(v)'
  <2>1. pc[w] = "fenced" /\ UNCHANGED <<outcome, child>>
    BY <1>7 DEF MarkMayDispatch, At
  <2>2. \/ pc' = [pc EXCEPT ![w] = "dispatching"] /\ UNCHANGED fence
        \/ pc' = [pc EXCEPT ![w] = "done"] /\ fence' = [fence EXCEPT ![w] = IF @ = "active" THEN "released" ELSE @]
    BY <1>7 DEF MarkMayDispatch, Goto, EndFence
  <2>3. CASE pc' = [pc EXCEPT ![w] = "dispatching"] /\ UNCHANGED fence
    BY <2>1, <2>3, <1>d, ZenonT(30)
  <2>4. CASE pc' = [pc EXCEPT ![w] = "done"] /\ fence' = [fence EXCEPT ![w] = IF @ = "active" THEN "released" ELSE @]
    BY <2>1, <2>4, <1>a DEF UnderFence, Collected, BeforeSpawn, HasFence, JobOf, TypeOK
  <2>. QED BY <2>2, <2>3, <2>4
<1>8. ASSUME NEW w \in Worker, Spawn(w) \/ RecordPid(w) PROVE UnderFence(v)' /\ Collected(v)'
  <2>1. \/ /\ pc[w] = "dispatching" /\ pc' = [pc EXCEPT ![w] = "spawned"]
           /\ child' = [child EXCEPT ![w] = "alive"] /\ UNCHANGED <<fence, outcome>>
        \/ pc[w] = "spawned" /\ pc' = [pc EXCEPT ![w] = "waiting"] /\ UNCHANGED <<fence, outcome, child>>
    BY <1>8 DEF Spawn, RecordPid, At, Goto
  <2>. QED BY <2>1, <1>d
<1>9. ASSUME NEW w \in Worker, SpawnRejected(w) PROVE UnderFence(v)' /\ Collected(v)'
  BY <1>9, <1>a DEF SpawnRejected, At, Goto, EndFence, UnderFence, Collected, BeforeSpawn, HasFence, JobOf, TypeOK
<1>10. ASSUME NEW w \in Worker, Collect(w) \/ Terminate(w) PROVE UnderFence(v)' /\ Collected(v)'
  <2>1. pc[w] = "waiting" /\ pc' = [pc EXCEPT ![w] = "cleanup"] /\ UNCHANGED fence
    BY <1>10 DEF Collect, Terminate, At, Goto
  <2>2. \E r \in {"succeeded", "failed", "cancelled", "timed_out"} : outcome' = [outcome EXCEPT ![w] = r]
    BY <1>10 DEF Collect, Terminate
  <2>3. child'[w] # "alive" /\ (child' = child \/ child' = [child EXCEPT ![w] = "gone"])
    BY <1>10, <1>a, JobAssumption, BoundAssumption DEF Collect, Terminate, ChildAlive, TypeOK
  <2>. QED BY <2>1, <2>2, <2>3, <1>a DEF UnderFence, Collected, HasFence, JobOf, TypeOK
<1>11. ASSUME NEW w \in Worker, EffectRaises(w) PROVE UnderFence(v)' /\ Collected(v)'
  BY <1>11, <1>a DEF EffectRaises, Goto, EndFence, UnderFence, Collected, HasFence, JobOf, TypeOK
<1>12. ASSUME NEW w \in Worker, ReleaseFence(w) PROVE UnderFence(v)' /\ Collected(v)'
  <2>1. pc[w] = "cleanup" /\ UNCHANGED <<outcome, child>>
    BY <1>12 DEF ReleaseFence, At
  <2>2. PICK p \in {"report", "failing"}, f \in {"released", "quarantined"} :
            /\ pc' = [pc EXCEPT ![w] = p] /\ (p = "report" => f = "released")
            /\ fence' = [fence EXCEPT ![w] = IF @ = "active" THEN f ELSE @]
    BY <1>12 DEF ReleaseFence, Goto, EndFence
  <2>3. CASE v # w
    BY <2>1, <2>2, <2>3, <1>a, <1>c DEF TypeOK
  <2>4. CASE v = w
    <3>1. pc'[v] = p /\ child'[v] = child[v] /\ outcome'[v] = outcome[v] /\ child[v] # "alive" /\ outcome[v] # "none"
      BY <2>1, <2>2, <2>4, <1>a DEF TypeOK, Collected
    <3>2. JobOf(v) \in Nested => fence'[v] = "none"
      BY <2>1, <2>2, <2>4, <1>a DEF TypeOK, UnderFence
    <3>3. JobOf(v) \notin Nested => fence'[v] = f
      BY <2>1, <2>2, <2>4, <1>a DEF TypeOK, UnderFence
    <3>4. p = "report" => fence'[v] \notin {"active", "quarantined"}
      BY <3>2, <3>3, <2>2
    <3>. QED BY <3>1, <3>2, <3>4 DEF UnderFence, Collected, HasFence, JobOf
  <2>. QED BY <2>3, <2>4
<1>13. ASSUME NEW w \in Worker, Publish(w) \/ PublishFailed(w) \/ WorkerDies(w) PROVE UnderFence(v)' /\ Collected(v)'
  <2>1. /\ \E p \in {"done", "dead"} : pc' = [pc EXCEPT ![w] = p]
        /\ outcome' = [outcome EXCEPT ![w] = "none"] /\ UNCHANGED fence
    BY <1>13 DEF Publish, PublishFailed, WorkerDies, Goto
  <2>2. child' = child \/ child' = [child EXCEPT ![w] = IF @ = "alive" THEN "gone" ELSE @]
    BY <1>13 DEF Publish, PublishFailed, WorkerDies
  <2>. QED BY <2>1, <2>2, <1>a, <1>c DEF TypeOK
<1>14. ASSUME NEW w \in Worker, ChildExits(w) PROVE UnderFence(v)' /\ Collected(v)'
  BY <1>14, <1>a, <1>c DEF ChildExits, TypeOK
<1>15. ASSUME NEW w \in Worker, RecoverFence(w) PROVE UnderFence(v)' /\ Collected(v)'
  BY <1>15, <1>a DEF RecoverFence, EndFence, UnderFence, Collected, HasFence, JobOf, TypeOK
<1>16. ASSUME NEW w \in Worker, ResolveFence(w) PROVE UnderFence(v)' /\ Collected(v)'
  BY <1>16, <1>a, BoundAssumption DEF ResolveFence, ChildAlive, UnderFence, Collected, HasFence, JobOf, TypeOK
<1>17. CASE UNCHANGED vars
  BY <1>17, <1>c DEF vars, workerVars
<1>. QED BY <1>1, <1>2, <1>3, <1>4, <1>5, <1>6, <1>7, <1>8, <1>9, <1>10, <1>11, <1>12, <1>13, <1>14, <1>15, <1>16,
            <1>17, ZenonT(30) DEF Next, WorkerStep
-----------------------------------------------------------------------------
\* Jobs with a request of their own hold it one at a time.
LEMMA OneFenceStep == JobInv /\ [Next]_vars => OneFence'
<1> SUFFICES ASSUME JobInv, [Next]_vars PROVE OneFence'
  OBVIOUS
<1>a. TypeOK /\ OneFence
  BY DEF JobInv
<1>c. ASSUME \A v \in Worker : HasFence(v)' => HasFence(v) PROVE OneFence'
  BY <1>a, <1>c DEF OneFence
<1>d. ASSUME UNCHANGED fence PROVE OneFence'
  BY <1>d, <1>c DEF HasFence
<1>e. ASSUME NEW w \in Worker, NEW s \in {"released", "quarantined"}, EndFence(w, s) PROVE OneFence'
  BY <1>e, <1>a, <1>c DEF EndFence, HasFence, TypeOK
<1>1. ASSUME NEW j \in Job, Submit(j) \/ Cancel(j) \/ CancelOrphan(j) \/ QueueDeadlinePasses(j) \/ ReadRow(j)
                            \/ Reconcile(j) \/ RecoverStaleLaunch(j) PROVE OneFence'
  BY <1>1, <1>d DEF Submit, Cancel, CancelOrphan, QueueDeadlinePasses, ReadRow, Reconcile, RecoverStaleLaunch, workerVars
<1>2. CASE ReserveWorkerLaunches
  BY <1>2, <1>a, <1>d, ReserveEffect
<1>3. ASSUME NEW w \in Worker, LaunchWorker(w) \/ FailWorkerLaunch(w) \/ RecordWorkerLaunch(w) \/ LauncherDies(w)
                               \/ ClaimForExecution(w) \/ CheckCancel(w) \/ AdmissionFails(w) PROVE OneFence'
  BY <1>3, <1>d DEF LaunchWorker, FailWorkerLaunch, RecordWorkerLaunch, LauncherDies, ClaimForExecution, CheckCancel,
                    AdmissionFails, workerVars
<1>4. ASSUME NEW w \in Worker, Admit(w) PROVE OneFence'
  <2>1. CASE JobOf(w) \in Nested
    BY <1>4, <2>1, <1>d DEF Admit
  <2>2. CASE JobOf(w) \notin Nested
    BY <1>4, <2>2, <1>a DEF Admit, OneFence, HasFence, TypeOK
  <2>. QED BY <2>1, <2>2
<1>5. ASSUME NEW w \in Worker, MarkMayDispatch(w) \/ SpawnRejected(w) \/ EffectRaises(w) \/ ReleaseFence(w)
                               \/ RecoverFence(w) PROVE OneFence'
  <2>1. UNCHANGED fence \/ \E s \in {"released", "quarantined"} : EndFence(w, s)
    BY <1>5 DEF MarkMayDispatch, SpawnRejected, EffectRaises, ReleaseFence, RecoverFence
  <2>. QED BY <2>1, <1>d, <1>e
<1>6. ASSUME NEW w \in Worker, Spawn(w) \/ RecordPid(w) \/ Collect(w) \/ Terminate(w) \/ Publish(w) \/ PublishFailed(w)
                               \/ ChildExits(w) \/ WorkerDies(w) PROVE OneFence'
  BY <1>6, <1>d DEF Spawn, RecordPid, Collect, Terminate, Publish, PublishFailed, ChildExits, WorkerDies
<1>7. ASSUME NEW w \in Worker, ResolveFence(w) PROVE OneFence'
  BY <1>7, <1>a, <1>c DEF ResolveFence, HasFence, TypeOK
<1>8. CASE UNCHANGED vars
  BY <1>8, <1>d DEF vars, workerVars
<1>. QED BY <1>1, <1>2, <1>3, <1>4, <1>5, <1>6, <1>7, <1>8, ZenonT(30) DEF Next, WorkerStep
-----------------------------------------------------------------------------
\* What a row says of the dispatch of its job.
LEMMA RowStep == JobInv /\ [Next]_vars => \A k \in Job : DispatchedRow(k)'
<1> SUFFICES ASSUME JobInv, [Next]_vars, NEW k \in Job PROVE DispatchedRow(k)'
  OBVIOUS
<1>a. TypeOK /\ DispatchedRow(k)
  BY DEF JobInv
\* A step that ends or launches the job, or leaves it, and resurrects no child.
<1>c. ASSUME status'[k] \in {"absent", "queued"} => status'[k] = status[k],
             status[k] = "absent" => token'[k] = token[k] \/ token'[k] = NoWorker,
             UNCHANGED <<spawns, phase, early, cancelReq, pid>>,
             \A w \in Worker : child[w] # "none" => child'[w] # "none"
      PROVE  DispatchedRow(k)'
  <2>1. pid[k] # NoWorker => child'[pid[k]] # "none"
    BY <1>a, <1>c DEF DispatchedRow, TypeOK
  <2>. QED BY <2>1, <1>a, <1>c DEF DispatchedRow
<1>1. ASSUME NEW j \in Job, Submit(j) PROVE DispatchedRow(k)'
  BY <1>1, <1>a DEF Submit, DispatchedRow, TypeOK, workerVars, history
<1>2. ASSUME NEW j \in Job, Cancel(j) PROVE DispatchedRow(k)'
  BY <1>2, <1>a DEF Cancel, DispatchedRow, TypeOK, workerVars, Active
<1>3. ASSUME NEW j \in Job, CancelOrphan(j) PROVE DispatchedRow(k)'
  <2>1. \A w \in Worker : child[w] # "none" => child'[w] # "none"
    BY <1>3, <1>a DEF CancelOrphan, TypeOK
  <2>2. status'[k] \in {"absent", "queued"} => status'[k] = status[k]
    BY <1>3, <1>a DEF CancelOrphan, TypeOK
  <2>. QED BY <1>3, <2>1, <2>2, <1>c DEF CancelOrphan, history
<1>4. ASSUME NEW j \in Job, QueueDeadlinePasses(j) \/ ReadRow(j) PROVE DispatchedRow(k)'
  BY <1>4, <1>c DEF QueueDeadlinePasses, ReadRow, rowVars, workerVars, history
<1>5. ASSUME NEW j \in Job, Reconcile(j) PROVE DispatchedRow(k)'
  <2>1. status'[k] \in {"absent", "queued"} => status'[k] = status[k]
    BY <1>5, <1>a DEF Reconcile, TypeOK
  <2>. QED BY <1>5, <2>1, <1>c DEF Reconcile, workerVars, history
<1>6. ASSUME NEW j \in Job, RecoverStaleLaunch(j) PROVE DispatchedRow(k)'
  <2>1. token'[k] = token[k] \/ token'[k] = NoWorker
    BY <1>6, <1>a DEF RecoverStaleLaunch, TypeOK
  <2>. QED BY <1>6, <2>1, <1>c DEF RecoverStaleLaunch, workerVars, history
<1>7. CASE ReserveWorkerLaunches
  <2>1. status'[k] \in {"absent", "queued"} => status'[k] = status[k]
    BY <1>7, <1>a, ReserveEffect
  <2>2. status[k] = "absent" => token'[k] = token[k]
    BY <1>7, <1>a, ReserveEffect
  <2>3. UNCHANGED <<spawns, phase, early, cancelReq, pid, child>>
    BY <1>7, <1>a, ReserveEffect DEF history
  <2>. QED BY <2>1, <2>2, <2>3, <1>c
<1>8. ASSUME NEW w \in Worker, LaunchWorker(w) \/ RecordWorkerLaunch(w) \/ LauncherDies(w) PROVE DispatchedRow(k)'
  BY <1>8, <1>c DEF LaunchWorker, RecordWorkerLaunch, LauncherDies, rowVars, workerVars, history
<1>9. ASSUME NEW w \in Worker, FailWorkerLaunch(w) PROVE DispatchedRow(k)'
  <2>1. status'[k] \in {"absent", "queued"} => status'[k] = status[k]
    BY <1>9, <1>a DEF FailWorkerLaunch, TypeOK
  <2>2. token'[k] = token[k] \/ token'[k] = NoWorker
    BY <1>9, <1>a DEF FailWorkerLaunch, TypeOK
  <2>. QED BY <1>9, <2>1, <2>2, <1>c DEF FailWorkerLaunch, history
<1>10. ASSUME NEW w \in Worker, ClaimForExecution(w) PROVE DispatchedRow(k)'
  <2>1. CASE UNCHANGED phase
    <3>1. status'[k] \in {"absent", "queued"} => status'[k] = status[k]
      BY <1>10, <1>a DEF ClaimForExecution, EndedAs, TypeOK
    <3>2. token'[k] = token[k] \/ token'[k] = NoWorker
      BY <1>10, <1>a DEF ClaimForExecution, TypeOK
    <3>. QED BY <1>10, <2>1, <3>1, <3>2, <1>c DEF ClaimForExecution, history
  <2>2. CASE phase' # phase
    <3>1. /\ status[JobOf(w)] = "queued" /\ status' = [status EXCEPT ![JobOf(w)] = "running"]
          /\ phase' = [phase EXCEPT ![JobOf(w)] = "pending"] /\ token' = [token EXCEPT ![JobOf(w)] = NoWorker]
          /\ UNCHANGED <<cancelReq, pid, child, spawns, early>>
      BY <1>10, <2>2 DEF ClaimForExecution, history
    <3>. QED BY <3>1, <1>a DEF DispatchedRow, TypeOK
  <2>. QED BY <2>1, <2>2
<1>11. ASSUME NEW w \in Worker, CheckCancel(w) PROVE DispatchedRow(k)'
  <2>1. status'[k] \in {"absent", "queued"} => status'[k] = status[k]
    BY <1>11, <1>a DEF CheckCancel, TypeOK
  <2>. QED BY <1>11, <2>1, <1>c DEF CheckCancel, history
<1>12. ASSUME NEW w \in Worker, Admit(w) \/ AdmissionFails(w) \/ SpawnRejected(w) \/ Collect(w) \/ EffectRaises(w)
                                \/ ReleaseFence(w) \/ RecoverFence(w) \/ ResolveFence(w) PROVE DispatchedRow(k)'
  BY <1>12, <1>c DEF Admit, AdmissionFails, SpawnRejected, Collect, EffectRaises, ReleaseFence, RecoverFence,
                     ResolveFence, rowVars, history
<1>13. ASSUME NEW w \in Worker, MarkMayDispatch(w) PROVE DispatchedRow(k)'
  <2>1. UNCHANGED <<token, cancelReq, pid, child, spawns, early>>
    BY <1>13 DEF MarkMayDispatch, history
  <2>2. \/ JobOf(w) \notin cancelReq /\ phase' = [phase EXCEPT ![JobOf(w)] = "may_dispatch"] /\ UNCHANGED status
        \/ /\ UNCHANGED phase
           /\ status'[k] \in {"absent", "queued"} => status'[k] = status[k]
    BY <1>13, <1>a DEF MarkMayDispatch, TypeOK
  <2>3. CASE JobOf(w) \notin cancelReq /\ phase' = [phase EXCEPT ![JobOf(w)] = "may_dispatch"] /\ UNCHANGED status
    BY <2>1, <2>3, <1>a DEF DispatchedRow, TypeOK
  <2>4. CASE UNCHANGED phase /\ (status'[k] \in {"absent", "queued"} => status'[k] = status[k])
    BY <2>1, <2>4, <1>c
  <2>. QED BY <2>2, <2>3, <2>4
<1>14. ASSUME NEW w \in Worker, Spawn(w) PROVE DispatchedRow(k)'
  <2>1. /\ pc[w] = "dispatching" /\ child' = [child EXCEPT ![w] = "alive"]
        /\ spawns' = [spawns EXCEPT ![JobOf(w)] = @ + 1]
        /\ UNCHANGED <<status, token, cancelReq, pid, phase, early>>
    BY <1>14 DEF Spawn, At, rowVars
  <2>2. status[JobOf(w)] = "running" /\ spawns[JobOf(w)] = 0 /\ phase[JobOf(w)] = "may_dispatch" /\ JobOf(w) \in Job
    BY <2>1, WorkerJob DEF JobInv, NamedByRow, BeforeSpawn, Working
  <2>3. pid[k] # NoWorker => child'[pid[k]] # "none"
    BY <2>1, <1>a DEF DispatchedRow, TypeOK
  <2>4. spawns'[k] = IF k = JobOf(w) THEN 1 ELSE spawns[k]
    BY <2>1, <2>2, <1>a DEF TypeOK
  <2>. QED BY <2>1, <2>2, <2>3, <2>4, <1>a DEF DispatchedRow
<1>15. ASSUME NEW w \in Worker, RecordPid(w) PROVE DispatchedRow(k)'
  <2>1. pid'[k] = pid[k] \/ (pid'[k] = w /\ child[w] = "alive")
    BY <1>15, <1>a DEF RecordPid, ChildAlive, TypeOK
  <2>. QED BY <1>15, <2>1, <1>a DEF RecordPid, DispatchedRow, history
<1>16. ASSUME NEW w \in Worker, Terminate(w) \/ ChildExits(w) \/ WorkerDies(w) PROVE DispatchedRow(k)'
  <2>1. \A v \in Worker : child[v] # "none" => child'[v] # "none"
    BY <1>16, <1>a DEF Terminate, ChildExits, WorkerDies, TypeOK
  <2>. QED BY <1>16, <2>1, <1>c DEF Terminate, ChildExits, WorkerDies, rowVars, history
<1>17. ASSUME NEW w \in Worker, Publish(w) \/ PublishFailed(w) PROVE DispatchedRow(k)'
  <2>1. \A v \in Worker : child[v] # "none" => child'[v] # "none"
    BY <1>17, <1>a DEF Publish, PublishFailed, TypeOK
  <2>2. pc[w] = "report" => outcome[w] \in {"succeeded", "failed", "cancelled", "timed_out"}
    BY <1>a DEF TypeOK
  <2>3. status'[k] \in {"absent", "queued"} => status'[k] = status[k]
    BY <1>17, <2>2, <1>a DEF Publish, PublishFailed, At, TypeOK
  <2>. QED BY <1>17, <2>1, <2>3, <1>c DEF Publish, PublishFailed, history
<1>18. CASE UNCHANGED vars
  BY <1>18, <1>c DEF vars, rowVars, workerVars, history
<1>. QED BY <1>1, <1>2, <1>3, <1>4, <1>5, <1>6, <1>7, <1>8, <1>9, <1>10, <1>11, <1>12, <1>13, <1>14, <1>15, <1>16,
            <1>17, <1>18, ZenonT(30) DEF Next, WorkerStep
-----------------------------------------------------------------------------
\* Success is published by the worker the row names, once its request and its child are gone.
LEMMA SettledStep == JobInv /\ [Next]_vars => SuccessIsSettled'
<1> SUFFICES ASSUME JobInv, [Next]_vars PROVE SuccessIsSettled'
  OBVIOUS
<1>a. TypeOK /\ SuccessIsSettled /\ \A w \in Worker : JobOf(w) \in Job
  BY WorkerJob DEF JobInv
<1>b. \A w \in Worker : pc[w] \in Working => status[JobOf(w)] = "running"
  BY DEF JobInv, NamedByRow
<1>n. NoWorker \notin Worker
  BY BoundAssumption
\* A step that makes nothing succeed; requests and children only begin in a worker that works.
<1>c. ASSUME \A j \in Job : status'[j] = "succeeded" => status[j] = "succeeded",
             \A v \in Worker : HasFence(v)' => HasFence(v) \/ pc[v] \in Working,
             \A v \in Worker : child'[v] = "alive" => child[v] = "alive" \/ pc[v] \in Working
      PROVE  SuccessIsSettled'
  <2>1. SUFFICES ASSUME NEW v \in Worker, status'[JobOf(v)] = "succeeded"
                 PROVE  fence'[v] \notin {"active", "quarantined"} /\ child'[v] # "alive"
    BY DEF SuccessIsSettled, ChildAlive, JobOf
  <2>2. status[JobOf(v)] = "succeeded" /\ pc[v] \notin Working
    BY <2>1, <1>a, <1>b, <1>c
  <2>3. fence[v] \notin {"active", "quarantined"} /\ child[v] # "alive"
    BY <2>2, <1>a, <1>n DEF SuccessIsSettled, ChildAlive
  <2>. QED BY <2>2, <2>3, <1>c DEF HasFence
<1>1. ASSUME NEW j \in Job, Submit(j) \/ Cancel(j) \/ QueueDeadlinePasses(j) \/ ReadRow(j) \/ Reconcile(j)
                            \/ RecoverStaleLaunch(j) PROVE SuccessIsSettled'
  <2>1. \A i \in Job : status'[i] = "succeeded" => status[i] = "succeeded"
    BY <1>1, <1>a DEF Submit, Cancel, QueueDeadlinePasses, ReadRow, Reconcile, RecoverStaleLaunch, rowVars, TypeOK
  <2>2. UNCHANGED <<fence, child>>
    BY <1>1 DEF Submit, Cancel, QueueDeadlinePasses, ReadRow, Reconcile, RecoverStaleLaunch, workerVars
  <2>. QED BY <2>1, <2>2, <1>c DEF HasFence
<1>2. ASSUME NEW j \in Job, CancelOrphan(j) PROVE SuccessIsSettled'
  <2>1. \A i \in Job : status'[i] = "succeeded" => status[i] = "succeeded"
    BY <1>2, <1>a DEF CancelOrphan, TypeOK
  <2>2. UNCHANGED fence /\ \A v \in Worker : child'[v] = "alive" => child[v] = "alive"
    BY <1>2, <1>a DEF CancelOrphan, TypeOK
  <2>. QED BY <2>1, <2>2, <1>c DEF HasFence
<1>3. CASE ReserveWorkerLaunches
  <2>1. \A i \in Job : status'[i] = "succeeded" => status[i] = "succeeded"
    BY <1>3, <1>a, ReserveEffect
  <2>2. UNCHANGED <<fence, child>>
    BY <1>3, <1>a, ReserveEffect
  <2>. QED BY <2>1, <2>2, <1>c DEF HasFence
<1>4. ASSUME NEW w \in Worker, LaunchWorker(w) \/ FailWorkerLaunch(w) \/ RecordWorkerLaunch(w) \/ LauncherDies(w)
                               \/ ClaimForExecution(w) \/ CheckCancel(w) \/ AdmissionFails(w) PROVE SuccessIsSettled'
  <2>1. \A i \in Job : status'[i] = "succeeded" => status[i] = "succeeded"
    BY <1>4, <1>a DEF LaunchWorker, FailWorkerLaunch, RecordWorkerLaunch, LauncherDies, ClaimForExecution, EndedAs,
                      CheckCancel, AdmissionFails, rowVars, TypeOK
  <2>2. UNCHANGED <<fence, child>>
    BY <1>4 DEF LaunchWorker, FailWorkerLaunch, RecordWorkerLaunch, LauncherDies, ClaimForExecution, CheckCancel,
                AdmissionFails, workerVars
  <2>. QED BY <2>1, <2>2, <1>c DEF HasFence
<1>5. ASSUME NEW w \in Worker, Admit(w) \/ Spawn(w) PROVE SuccessIsSettled'
  <2>1. pc[w] \in Working /\ UNCHANGED status
    BY <1>5 DEF Admit, Spawn, At, Working, rowVars
  <2>2. \A v \in Worker : v # w => fence'[v] = fence[v] /\ child'[v] = child[v]
    BY <1>5, <1>a DEF Admit, Spawn, TypeOK
  <2>. QED BY <2>1, <2>2, <1>c DEF HasFence
<1>6. ASSUME NEW w \in Worker, MarkMayDispatch(w) \/ SpawnRejected(w) \/ EffectRaises(w) \/ ReleaseFence(w)
                               \/ RecoverFence(w) PROVE SuccessIsSettled'
  <2>1. UNCHANGED fence \/ \E s \in {"released", "quarantined"} : EndFence(w, s)
    BY <1>6 DEF MarkMayDispatch, SpawnRejected, EffectRaises, ReleaseFence, RecoverFence
  <2>2. \A v \in Worker : HasFence(v)' => HasFence(v)
    BY <2>1, <1>a DEF EndFence, HasFence, TypeOK
  <2>3. \A i \in Job : status'[i] = "succeeded" => status[i] = "succeeded"
    BY <1>6, <1>a DEF MarkMayDispatch, SpawnRejected, EffectRaises, ReleaseFence, RecoverFence, rowVars, TypeOK
  <2>4. UNCHANGED child
    BY <1>6 DEF MarkMayDispatch, SpawnRejected, EffectRaises, ReleaseFence, RecoverFence
  <2>. QED BY <2>2, <2>3, <2>4, <1>c
<1>7. ASSUME NEW w \in Worker, RecordPid(w) \/ Collect(w) \/ Terminate(w) \/ PublishFailed(w) \/ ChildExits(w)
                               \/ WorkerDies(w) PROVE SuccessIsSettled'
  <2>1. \A i \in Job : status'[i] = "succeeded" => status[i] = "succeeded"
    BY <1>7, <1>a DEF RecordPid, Collect, Terminate, PublishFailed, ChildExits, WorkerDies, rowVars, TypeOK
  <2>2. UNCHANGED fence
    BY <1>7 DEF RecordPid, Collect, Terminate, PublishFailed, ChildExits, WorkerDies
  <2>3. \A v \in Worker : child'[v] = "alive" => child[v] = "alive"
    BY <1>7, <1>a DEF RecordPid, Collect, Terminate, PublishFailed, ChildExits, WorkerDies, TypeOK
  <2>. QED BY <2>1, <2>2, <2>3, <1>c DEF HasFence
<1>8. ASSUME NEW w \in Worker, Publish(w) PROVE SuccessIsSettled'
  <2>1. pc[w] = "report" /\ status' = [status EXCEPT ![JobOf(w)] = outcome[w]] /\ UNCHANGED <<fence, child>>
    BY <1>8 DEF Publish, At
  <2>2. ~ HasFence(w) /\ child[w] # "alive" /\ wpid[JobOf(w)] = w
    BY <2>1 DEF JobInv, UnderFence, Collected, NamedByRow, Working
  <2>3. ASSUME NEW v \in Worker, status'[JobOf(v)] = "succeeded"
        PROVE  fence'[v] \notin {"active", "quarantined"} /\ child'[v] # "alive"
    <3>1. CASE JobOf(v) # JobOf(w)
      <4>1. status[JobOf(v)] = "succeeded"
        BY <2>1, <2>3, <3>1, <1>a DEF TypeOK
      <4>. QED BY <4>1, <2>1, <1>a, <1>n DEF SuccessIsSettled, ChildAlive
    <3>2. CASE v = w
      BY <2>1, <2>2, <3>2 DEF HasFence
    <3>3. CASE JobOf(v) = JobOf(w) /\ v # w
      <4>1. fence[v] = "none" /\ child[v] = "none"
        BY <2>2, <3>3 DEF JobInv, NamedByRow
      <4>. QED BY <4>1, <2>1
    <3>. QED BY <3>1, <3>2, <3>3
  <2>. QED BY <2>3 DEF SuccessIsSettled, ChildAlive, JobOf
<1>9. ASSUME NEW w \in Worker, ResolveFence(w) PROVE SuccessIsSettled'
  <2>1. \A v \in Worker : HasFence(v)' => HasFence(v)
    BY <1>9, <1>a DEF ResolveFence, HasFence, TypeOK
  <2>. QED BY <1>9, <2>1, <1>c DEF ResolveFence, rowVars
<1>10. CASE UNCHANGED vars
  BY <1>10, <1>c DEF vars, rowVars, workerVars, HasFence
<1>. QED BY <1>1, <1>2, <1>3, <1>4, <1>5, <1>6, <1>7, <1>8, <1>9, <1>10, ZenonT(30) DEF Next, WorkerStep
-----------------------------------------------------------------------------
(* The capacity, and what follows for the jobs.                            *)

\* Max of a difference that is not negative, as reserve_worker_launches takes it.
LEMMA MaxWithZero == \A n \in Nat : Max({n, 0}) = n
<1> TAKE n \in Nat
<1>1. \E x \in {n, 0} : \A y \in {n, 0} : x >= y
  OBVIOUS
<1>2. Max({n, 0}) \in {n, 0} /\ \A y \in {n, 0} : Max({n, 0}) >= y
  BY <1>1 DEF Max
<1>. QED BY <1>2

LEMMA MinBound == \A m, n \in Int : Min({m, n}) <= m
<1> TAKE m, n \in Int
<1>1. \E x \in {m, n} : \A y \in {m, n} : x =< y
  OBVIOUS
<1>2. \A y \in {m, n} : Min({m, n}) =< y
  BY <1>1 DEF Min
<1>. QED BY <1>2

LEMMA JobSets == \A S \in SUBSET Job : IsFiniteSet(S) /\ Cardinality(S) \in Nat
BY JobAssumption, FS_Subset, FS_CardinalityType

\* A step after which no more jobs run or are being launched stays within the capacity.
LEMMA Shrinks ==
    ASSUME CapacityBound, ActiveJobs' \subseteq ActiveJobs, Reserved' \subseteq Reserved
    PROVE  CapacityBound'
<1>1. ActiveJobs \in SUBSET Job /\ Reserved \in SUBSET Job
  BY DEF ActiveJobs, Reserved
<1>2. Cardinality(ActiveJobs') <= Cardinality(ActiveJobs) /\ Cardinality(Reserved') <= Cardinality(Reserved)
  BY <1>1, JobSets, FS_Subset
<1>3. /\ Cardinality(ActiveJobs') \in Nat /\ Cardinality(ActiveJobs) \in Nat
      /\ Cardinality(Reserved') \in Nat /\ Cardinality(Reserved) \in Nat
  BY <1>1, JobSets
<1>. QED BY <1>2, <1>3, BoundAssumption DEF CapacityBound

\* The scan hands out no more launches than there is room for.
LEMMA ReserveBound == JobInv /\ ReserveWorkerLaunches => CapacityBound'
<1> SUFFICES ASSUME JobInv, ReserveWorkerLaunches PROVE CapacityBound'
  OBVIOUS
<1> DEFINE ended == {j \in Job : status[j] = "queued" /\ j \in overdue \cup cancelReq}
           waiting == {j \in Job \ ended : /\ status[j] = "queued" /\ token[j] = NoWorker
                                           /\ \E w \in Worker : NextLaunch(j, w)}
           used == Cardinality(ActiveJobs) + Cardinality(Reserved \ ended)
           available == Max({MaxRunning - used, 0})
<1>a. TypeOK /\ CapacityBound
  BY DEF JobInv
<1>1. PICK S \in SUBSET waiting :
          /\ Cardinality(S) = Min({available, Cardinality(waiting)})
          /\ status' = [j \in Job |-> IF j \notin ended THEN status[j] ELSE EndedAs(j)]
          /\ token' = [j \in Job |-> IF j \in ended THEN NoWorker
                                     ELSE IF j \in S THEN CHOOSE w \in Worker : NextLaunch(j, w)
                                     ELSE token[j]]
  BY ZenonT(30) DEF ReserveWorkerLaunches, kSubset
<1>2. ended \in SUBSET Job /\ waiting \in SUBSET Job /\ \A j \in Job : EndedAs(j) \in {"cancelled", "timed_out"}
  BY DEF EndedAs
<1> HIDE DEF ended, waiting
<1>3. ActiveJobs' \subseteq ActiveJobs
  BY <1>1, <1>2 DEF ActiveJobs, Active
<1>4. Reserved' \subseteq (Reserved \ ended) \cup S
  BY <1>1, <1>2 DEF Reserved
<1>5. /\ ActiveJobs \in SUBSET Job /\ Reserved \in SUBSET Job /\ (Reserved \ ended) \in SUBSET Job
      /\ S \in SUBSET Job /\ ActiveJobs' \in SUBSET Job /\ Reserved' \in SUBSET Job
      /\ (Reserved \ ended) \cup S \in SUBSET Job /\ (Reserved \ ended) \cap S \in SUBSET Job
  BY <1>1, <1>2 DEF ActiveJobs, Reserved
<1>6. Cardinality(Reserved \ ended) <= Cardinality(Reserved) /\ Cardinality(ActiveJobs') <= Cardinality(ActiveJobs)
  BY <1>3, <1>5, JobSets, FS_Subset
<1>7. Cardinality(Reserved') <= Cardinality((Reserved \ ended) \cup S)
  BY <1>4, <1>5, JobSets, FS_Subset
<1>8. Cardinality((Reserved \ ended) \cup S)
        = Cardinality(Reserved \ ended) + Cardinality(S) - Cardinality((Reserved \ ended) \cap S)
  BY <1>5, JobSets, FS_Union, ZenonT(30)
<1>9. /\ Cardinality(ActiveJobs) \in Nat /\ Cardinality(Reserved) \in Nat /\ Cardinality(Reserved \ ended) \in Nat
      /\ Cardinality(S) \in Nat /\ Cardinality((Reserved \ ended) \cap S) \in Nat
      /\ Cardinality((Reserved \ ended) \cup S) \in Nat
      /\ Cardinality(ActiveJobs') \in Nat /\ Cardinality(Reserved') \in Nat /\ Cardinality(waiting) \in Nat
  BY <1>2, <1>5, JobSets
<1>10. MaxRunning - used \in Nat
  BY <1>a, <1>6, <1>9, BoundAssumption DEF CapacityBound
<1>11. available = MaxRunning - used
  BY <1>10, MaxWithZero
<1>b. available \in Int /\ Cardinality(waiting) \in Int
  BY <1>9, <1>10, <1>11
<1>d. Cardinality(S) = Min({available, Cardinality(waiting)})
  BY <1>1
<1> HIDE DEF available
<1>e. Min({available, Cardinality(waiting)}) <= available
  BY <1>b, MinBound
<1>12. Cardinality(S) <= available
  BY <1>d, <1>e
<1>. QED BY <1>6, <1>7, <1>8, <1>9, <1>11, <1>12, BoundAssumption DEF CapacityBound

\* A claim turns one launch under way into one running job.
LEMMA ClaimBound ==
    ASSUME JobInv, NEW w \in Worker, status[JobOf(w)] = "queued", token[JobOf(w)] = w,
           status' = [status EXCEPT ![JobOf(w)] = "running"], token' = [token EXCEPT ![JobOf(w)] = NoWorker]
    PROVE  CapacityBound'
<1>a. TypeOK /\ CapacityBound /\ JobOf(w) \in Job /\ w # NoWorker
  BY WorkerJob, BoundAssumption DEF JobInv
<1>1. ActiveJobs' = ActiveJobs \cup {JobOf(w)} /\ JobOf(w) \notin ActiveJobs
  BY <1>a DEF ActiveJobs, Active, TypeOK
<1>2. Reserved' = Reserved \ {JobOf(w)} /\ JobOf(w) \in Reserved
  BY <1>a DEF Reserved, TypeOK
<1>3. ActiveJobs \in SUBSET Job /\ Reserved \in SUBSET Job
  BY DEF ActiveJobs, Reserved
<1>4. Cardinality(ActiveJobs') = Cardinality(ActiveJobs) + 1
  BY <1>1, <1>3, JobSets, FS_AddElement
<1>5. Cardinality(Reserved') = Cardinality(Reserved) - 1
  BY <1>2, <1>3, JobSets, FS_RemoveElement
<1>6. Cardinality(ActiveJobs) \in Nat /\ Cardinality(Reserved) \in Nat
  BY <1>3, JobSets
<1>. QED BY <1>4, <1>5, <1>6, <1>a, BoundAssumption DEF CapacityBound

\* Every other step only ends jobs and launches.
LEMMA BoundStep == JobInv /\ [Next]_vars => CapacityBound'
<1> SUFFICES ASSUME JobInv, [Next]_vars PROVE CapacityBound'
  OBVIOUS
<1>a. TypeOK /\ CapacityBound /\ \A w \in Worker : JobOf(w) \in Job
  BY WorkerJob DEF JobInv
<1>c. ASSUME \A j \in Job : status'[j] \in Active => status[j] \in Active,
             \A j \in Job : status'[j] = "queued" /\ token'[j] # NoWorker => status[j] = "queued" /\ token[j] # NoWorker
      PROVE  CapacityBound'
  <2>1. ActiveJobs' \subseteq ActiveJobs
    BY <1>c DEF ActiveJobs
  <2>2. Reserved' \subseteq Reserved
    BY <1>c DEF Reserved
  <2>. QED BY <2>1, <2>2, <1>a, Shrinks
<1>1. ASSUME NEW j \in Job, Submit(j) PROVE CapacityBound'
  <2>1. token[j] = NoWorker
    BY <1>1 DEF Submit, JobInv, DispatchedRow
  <2>. QED BY <1>1, <2>1, <1>a, <1>c DEF Submit, TypeOK, Active
<1>2. ASSUME NEW j \in Job, Cancel(j) \/ CancelOrphan(j) PROVE CapacityBound'
  BY <1>2, <1>a, <1>c DEF Cancel, CancelOrphan, TypeOK, Active
<1>3. ASSUME NEW j \in Job, QueueDeadlinePasses(j) \/ ReadRow(j) PROVE CapacityBound'
  BY <1>3, <1>c DEF QueueDeadlinePasses, ReadRow, rowVars
<1>4. ASSUME NEW j \in Job, Reconcile(j) PROVE CapacityBound'
  <2>1. UNCHANGED token /\ \/ status[j] \in Active /\ status' = [status EXCEPT ![j] = "orphaned"]
                           \/ status' = [status EXCEPT ![j] = "interrupted"]
                           \/ status' = [status EXCEPT ![j] = "timed_out"]
    BY <1>4 DEF Reconcile, Active
  <2>. QED BY <2>1, <1>a, <1>c DEF TypeOK, Active
<1>5. ASSUME NEW j \in Job, RecoverStaleLaunch(j) PROVE CapacityBound'
  BY <1>5, <1>a, <1>c DEF RecoverStaleLaunch, TypeOK
<1>6. CASE ReserveWorkerLaunches
  BY <1>6, ReserveBound
<1>7. ASSUME NEW w \in Worker, LaunchWorker(w) \/ RecordWorkerLaunch(w) \/ LauncherDies(w) PROVE CapacityBound'
  BY <1>7, <1>c DEF LaunchWorker, RecordWorkerLaunch, LauncherDies, rowVars
<1>8. ASSUME NEW w \in Worker, FailWorkerLaunch(w) PROVE CapacityBound'
  BY <1>8, <1>a, <1>c DEF FailWorkerLaunch, TypeOK, Active
<1>9. ASSUME NEW w \in Worker, ClaimForExecution(w) PROVE CapacityBound'
  <2>1. \/ UNCHANGED <<status, token>>
        \/ status' = [status EXCEPT ![JobOf(w)] = EndedAs(JobOf(w))] /\ token' = [token EXCEPT ![JobOf(w)] = NoWorker]
        \/ /\ status[JobOf(w)] = "queued" /\ token[JobOf(w)] = w
           /\ status' = [status EXCEPT ![JobOf(w)] = "running"] /\ token' = [token EXCEPT ![JobOf(w)] = NoWorker]
    BY <1>9 DEF ClaimForExecution
  <2>2. CASE UNCHANGED <<status, token>>
    BY <2>2, <1>c
  <2>3. CASE status' = [status EXCEPT ![JobOf(w)] = EndedAs(JobOf(w))] /\ token' = [token EXCEPT ![JobOf(w)] = NoWorker]
    BY <2>3, <1>a, <1>c DEF EndedAs, TypeOK, Active
  <2>. QED BY <2>1, <2>2, <2>3, ClaimBound
<1>10. ASSUME NEW w \in Worker, CheckCancel(w) \/ MarkMayDispatch(w) PROVE CapacityBound'
  <2>1. UNCHANGED token /\ \/ UNCHANGED status
                           \/ status' = [status EXCEPT ![JobOf(w)] = "cancelled"]
                           \/ status' = [status EXCEPT ![JobOf(w)] = @]
    BY <1>10 DEF CheckCancel, MarkMayDispatch
  <2>. QED BY <2>1, <1>a, <1>c DEF TypeOK, Active
<1>11. ASSUME NEW w \in Worker, Publish(w) \/ PublishFailed(w) PROVE CapacityBound'
  <2>1. pc[w] = "report" => outcome[w] \in {"succeeded", "failed", "cancelled", "timed_out"}
    BY <1>a DEF TypeOK
  <2>2. UNCHANGED token /\ \E r \in {"succeeded", "failed", "cancelled", "timed_out"} :
                              status' = [status EXCEPT ![JobOf(w)] = r]
    BY <1>11, <2>1 DEF Publish, PublishFailed, At
  <2>. QED BY <2>2, <1>a, <1>c DEF TypeOK, Active
<1>12. ASSUME NEW w \in Worker, Admit(w) \/ AdmissionFails(w) \/ Spawn(w) \/ SpawnRejected(w) \/ RecordPid(w) \/ Collect(w)
                  \/ Terminate(w) \/ EffectRaises(w) \/ ReleaseFence(w) \/ ChildExits(w) \/ WorkerDies(w)
                  \/ RecoverFence(w) \/ ResolveFence(w) PROVE CapacityBound'
  <2>1. UNCHANGED <<status, token>>
    BY <1>12 DEF Admit, AdmissionFails, Spawn, SpawnRejected, RecordPid, Collect, Terminate, EffectRaises, ReleaseFence,
                 ChildExits, WorkerDies, RecoverFence, ResolveFence, rowVars
  <2>. QED BY <2>1, <1>c
<1>13. CASE UNCHANGED vars
  BY <1>13, <1>c DEF vars, rowVars
<1>. QED BY <1>1, <1>2, <1>3, <1>4, <1>5, <1>6, <1>7, <1>8, <1>9, <1>10, <1>11, <1>12, <1>13, ZenonT(30)
     DEF Next, WorkerStep
-----------------------------------------------------------------------------
LEMMA InitJobInv == Init => JobInv
<1> SUFFICES ASSUME Init PROVE JobInv
  OBVIOUS
<1>1. TypeOK
  BY DEF Init, TypeOK, Active, Terminal
<1>2. \A w \in Worker : NamedByRow(w) /\ BeforeSpawn(w) /\ UnderFence(w) /\ Collected(w)
  BY WorkerJob DEF Init, NamedByRow, BeforeSpawn, UnderFence, Collected, HasFence, Working
<1>3. \A j \in Job : DispatchedRow(j)
  BY DEF Init, DispatchedRow
<1>4. OneFence
  BY DEF Init, OneFence, HasFence
<1>5. ActiveJobs = {} /\ Reserved = {}
  BY DEF Init, ActiveJobs, Reserved, Active
<1>6. CapacityBound
  BY <1>5, FS_EmptySet, BoundAssumption DEF CapacityBound
<1>7. SuccessIsSettled
  BY WorkerJob DEF Init, SuccessIsSettled
<1>. QED BY <1>1, <1>2, <1>3, <1>4, <1>6, <1>7 DEF JobInv

LEMMA NextJobInv == JobInv /\ [Next]_vars => JobInv'
BY TypeStep, NamedStep, SpawnStep, FenceStep, RowStep, OneFenceStep, BoundStep, SettledStep DEF JobInv

\* JobInv contains what JobsSound says, but for three consequences of it.
LEMMA JobInvSound == JobInv => JobsSound
<1> SUFFICES ASSUME JobInv PROVE JobsSound
  OBVIOUS
<1>1. NeverReplays
  BY DEF JobInv, DispatchedRow, NeverReplays
<1>2. EarlyCancelWins
  <2> SUFFICES ASSUME NEW j \in early PROVE spawns[j] = 0
    BY DEF EarlyCancelWins
  <2>1. j \in Job /\ spawns[j] \in Nat
    BY DEF JobInv, TypeOK
  <2>2. phase[j] = "pending" /\ (spawns[j] > 0 => phase[j] = "may_dispatch")
    BY <2>1 DEF JobInv, DispatchedRow
  <2>. QED BY <2>1, <2>2
<1>3. ChildrenExclusive
  BY DEF JobInv, UnderFence, OneFence, ChildrenExclusive, ChildAlive
<1>. QED BY <1>1, <1>2, <1>3 DEF JobInv, JobsSound

(***************************************************************************)
(* For any jobs, launches, faults and limit: the queue of durable jobs of  *)
(* core/jobs.py, core/job_scheduler.py and scripts/job_worker.py spawns at *)
(* most one child for a job and none after an early cancellation, stays    *)
(* within max_running_jobs, keeps children with requests of their own      *)
(* apart, and publishes success only when request and child are gone.      *)
(***************************************************************************)
THEOREM JobsAlwaysSound == Spec => []JobsSound
BY InitJobInv, NextJobInv, JobInvSound, PTL DEF Spec

(***************************************************************************)
(* The terminal update of job_worker.run, which looks at nothing but the   *)
(* id, and every other step leave a terminal status as it is, except that  *)
(* cancel may turn an interrupted orphan into a cancelled one.             *)
(***************************************************************************)
THEOREM StatusesStay == Spec => [][TerminalStays]_vars
<1>1. JobInv /\ [Next]_vars => [TerminalStays]_vars
  <2> SUFFICES ASSUME JobInv, [Next]_vars, NEW k \in Job, status[k] \in Terminal,
                      ~(status'[k] = status[k] \/ (status[k] = "interrupted" /\ status'[k] = "cancelled"))
               PROVE  FALSE
    BY DEF TerminalStays
  <2>a. TypeOK
    BY DEF JobInv
  <2>b. \A w \in Worker : pc[w] \in Working => status[JobOf(w)] \notin Terminal
    BY DEF JobInv, NamedByRow, Terminal
  <2>1. ASSUME NEW j \in Job, Submit(j) \/ Cancel(j) \/ CancelOrphan(j) \/ QueueDeadlinePasses(j) \/ ReadRow(j)
                              \/ RecoverStaleLaunch(j) PROVE FALSE
    BY <2>1, <2>a DEF Submit, Cancel, CancelOrphan, QueueDeadlinePasses, ReadRow, RecoverStaleLaunch, rowVars, Active,
                      Terminal, TypeOK
  <2>2. ASSUME NEW j \in Job, Reconcile(j) PROVE FALSE
    <3>1. status[j] \notin Terminal /\ \E s \in {"orphaned", "interrupted", "timed_out"} : status' = [status EXCEPT ![j] = s]
      BY <2>2 DEF Reconcile, Terminal
    <3>. QED BY <3>1, <2>a DEF TypeOK
  <2>3. CASE ReserveWorkerLaunches
    BY <2>3, <2>a, ReserveEffect DEF Terminal
  <2>4. ASSUME NEW w \in Worker, FailWorkerLaunch(w) \/ ClaimForExecution(w) PROVE FALSE
    <3>1. UNCHANGED status \/ (status[JobOf(w)] = "queued" /\ \E s : status' = [status EXCEPT ![JobOf(w)] = s])
      BY <2>4 DEF FailWorkerLaunch, ClaimForExecution
    <3>. QED BY <3>1, <2>a DEF TypeOK, Terminal
  <2>5. ASSUME NEW w \in Worker, CheckCancel(w) \/ Publish(w) \/ PublishFailed(w) PROVE FALSE
    <3>1. pc[w] \in Working /\ (UNCHANGED status \/ \E s : status' = [status EXCEPT ![JobOf(w)] = s])
      BY <2>5 DEF CheckCancel, Publish, PublishFailed, At, Working
    <3>. QED BY <3>1, <2>a, <2>b DEF TypeOK
  <2>6. ASSUME NEW w \in Worker, MarkMayDispatch(w) PROVE FALSE
    <3>1. pc[w] \in Working /\ (UNCHANGED status \/ \E s : status' = [status EXCEPT ![JobOf(w)] = s])
      BY <2>6 DEF MarkMayDispatch, At, Working
    <3>. QED BY <3>1, <2>a, <2>b DEF TypeOK
  <2>7. ASSUME NEW w \in Worker, LaunchWorker(w) \/ RecordWorkerLaunch(w) \/ LauncherDies(w) \/ Admit(w)
                   \/ AdmissionFails(w) \/ Spawn(w) \/ SpawnRejected(w) \/ RecordPid(w) \/ Collect(w) \/ Terminate(w)
                   \/ EffectRaises(w) \/ ReleaseFence(w) \/ ChildExits(w) \/ WorkerDies(w) \/ RecoverFence(w)
                   \/ ResolveFence(w) PROVE FALSE
    <3>1. UNCHANGED status
      BY <2>7, ZenonT(30) DEF LaunchWorker, RecordWorkerLaunch, LauncherDies, Admit, AdmissionFails, Spawn, SpawnRejected, RecordPid,
                  Collect, Terminate, EffectRaises, ReleaseFence, ChildExits, WorkerDies, RecoverFence, ResolveFence, rowVars
    <3>. QED BY <3>1
  <2>8. CASE UNCHANGED vars
    BY <2>8 DEF vars, rowVars
  <2>. QED BY <2>1, <2>2, <2>3, <2>4, <2>5, <2>6, <2>7, <2>8, ZenonT(30) DEF Next, WorkerStep
<1>. QED BY <1>1, InitJobInv, NextJobInv, PTL DEF Spec
=============================================================================
