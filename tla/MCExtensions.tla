---------------------------- MODULE MCExtensions ----------------------------
(***************************************************************************)
(* What must eventually happen: the extensions, the supervised runtime, a  *)
(* sequential workflow and a durable job, each on its own instance.  One   *)
(* of them runs, the others stay where they begin, where no step that is   *)
(* fair is enabled.                                                        *)
(***************************************************************************)
EXTENDS ExtensionOwner, ExtensionCalls, ExtensionRegistry, SupervisedRuntime,
    SequentialWorkflow, JobQueue

VARIABLE serving

TheRest ==
    /\ IF serving = "owner" THEN TRUE ELSE UNCHANGED ownerVars
    /\ IF serving = "calls" THEN TRUE ELSE UNCHANGED callVars
    /\ IF serving = "registry" THEN TRUE ELSE UNCHANGED registryVars
    /\ IF serving = "supervisor" THEN TRUE ELSE UNCHANGED supervisedVars
    /\ IF serving = "workflow" THEN TRUE ELSE UNCHANGED sequentialVars
    /\ IF serving = "jobs" THEN TRUE ELSE UNCHANGED vars

ServicesInit ==
    /\ serving \in {"owner", "calls", "registry", "supervisor", "workflow", "jobs"}
    /\ OwnerInit /\ CallsInit /\ RegistryInit /\ SupervisedInit
    /\ SequentialInit /\ Init

ServicesNext ==
    /\ \/ serving = "owner" /\ OwnerNext
       \/ serving = "calls" /\ CallsNext
       \/ serving = "registry" /\ RegistryNext
       \/ serving = "supervisor" /\ SupervisedNext
       \/ serving = "workflow" /\ SequentialNext
       \/ serving = "jobs" /\ Next
    /\ TheRest
    /\ UNCHANGED serving

ServicesSpec ==
    /\ ServicesInit /\ [][ServicesNext]_<<serving, ownerVars, callVars, registryVars, supervisedVars, sequentialVars, vars>>
    /\ OwnerFairness /\ CallsFairness /\ RegistryFairness /\ SupervisedFairness
    /\ SequentialFairness /\ Fairness

\* The owners and the catalog together: what a caller is routed to is served
\* and has the schema its lease names (manager.py, registry.py).
ExtensionsSound == OwnerSound /\ RegistrySound

\* What no step may do: start after a stop, send without a valid lease, revive
\* a lease, end a runtime that answers, or change an outcome that is known.
NoForbiddenStep ==
    [][/\ StopsForGood /\ SentByLease /\ LeaseSpent /\ WatchdogPatience
       /\ KnownStays /\ TerminalStays]_<<serving, ownerVars, callVars, registryVars, supervisedVars, sequentialVars, vars>>

\* What must happen: stops and calls end, changes are announced, restarts are
\* served, workflows come to rest and queued jobs end.
ServicesEnd ==
    /\ StopEnds /\ CallsEnd /\ ChangesAnnounced /\ RestartServed /\ StopServed
    /\ SequentialRests /\ EveryJobEnds
=============================================================================
