----------------------------- MODULE MCServices -----------------------------
(***************************************************************************)
(* Sequential workflows and durable jobs, each on its own instance: one of *)
(* them runs, the other stays where it begins.                             *)
(***************************************************************************)
EXTENDS SequentialWorkflow, JobQueue, TLC

VARIABLE serving

TheRest ==
    /\ IF serving = "workflow" THEN TRUE ELSE UNCHANGED sequentialVars
    /\ IF serving = "jobs" THEN TRUE ELSE UNCHANGED vars

\* Launchers that have nothing left to record: their worker was faster, or its job has ended.
Idle == {w \in unrecorded : status[JobOf(w)] # "queued" \/ token[JobOf(w)] # w}

\* Such a launcher changes nothing and stays idle, so its return is not
\* interleaved with the other steps but comes before them.
JobsNext ==
    \/ Idle = {} /\ Next
    \/ \E w \in Idle : RecordWorkerLaunch(w)

ServicesInit ==
    /\ serving \in {"workflow", "jobs"}
    /\ SequentialInit /\ Init

ServicesNext ==
    /\ \/ serving = "workflow" /\ SequentialNext
       \/ serving = "jobs" /\ JobsNext
    /\ TheRest
    /\ UNCHANGED serving

ServicesSpec == ServicesInit /\ [][ServicesNext]_<<serving, sequentialVars, vars>>

\* Jobs are interchangeable when both or neither are nested; so are executions.
Interchangeable == Permutations(Job) \cup Permutations(Run)
=============================================================================
