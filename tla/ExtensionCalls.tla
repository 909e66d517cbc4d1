---------------------------- MODULE ExtensionCalls ---------------------------
(***************************************************************************)
(* Calls of an external provider's tools (guard_call_admission and         *)
(* execute_guarded_call of core/extensions/manager.py).  A call holds the  *)
(* lease of a catalog generation, waits for two semaphores, and a mutation *)
(* passes a durable barrier of the recovery journal before its request is  *)
(* sent.  Meanwhile the catalog, the route and the session may go and come *)
(* back, the deadline may pass at every await, and the journal may fail.   *)
(* The provider may execute a request long after its caller gave up.       *)
(***************************************************************************)
EXTENDS Integers, FiniteSets

CONSTANTS
    Call,           \* calls
    GlobalMax,      \* LIMITS.global_calls
    LocalMax,       \* calls of one extension
    UnresolvedMax,  \* external_mutation_limit of the journal
    CatalogMax      \* bound on the catalog generations

ASSUME CallsAssumption ==
    /\ IsFiniteSet(Call) /\ {GlobalMax, LocalMax, UnresolvedMax} \subseteq Nat
    /\ CatalogMax \in Nat \ {0}

VARIABLES
    cphase,          \* of a call
    mutates,        \* the tool of the call is not READ_ONLY
    lease,          \* generation of the catalog it holds a lease of
    entry,          \* journal: "none", "prepared", "may_dispatch", "not_dispatched", "uncertain", "succeeded"
    sent,           \* the request was handed to the session
    effect,         \* the provider executed it
    reported,        \* what the caller got
    globalFree,     \* _global_call_semaphore
    localFree,      \* call_semaphore of the owner
    cat,            \* current generation of the catalog
    catLive,        \* it is published, not retired
    routable        \* the owner is enabled, HEALTHY and has a session

callVars == <<cphase, mutates, lease, entry, sent, effect, reported, globalFree, localFree, cat, catLive, routable>>
semVars == <<globalFree, localFree>>
providerVars == <<cat, catLive, routable>>

CallsInit ==
    /\ cphase = [c \in Call |-> "idle"] /\ mutates = [c \in Call |-> FALSE] /\ lease = [c \in Call |-> 0]
    /\ entry = [c \in Call |-> "none"] /\ sent = [c \in Call |-> FALSE] /\ effect = [c \in Call |-> FALSE]
    /\ reported = [c \in Call |-> "none"]
    /\ globalFree = GlobalMax /\ localFree = LocalMax
    /\ cat = 1 /\ catLive = TRUE /\ routable = TRUE

\* is_lease_valid
LeaseValid(c) == catLive /\ lease[c] = cat
Eligible(c) == LeaseValid(c) /\ routable

Unresolved == {c \in Call : entry[c] \in {"prepared", "may_dispatch", "uncertain"}}
Capacity(c) == mutates[c] => Cardinality(Unresolved) < UnresolvedMax

\* The semaphores a call holds in a phase.
HoldsGlobal(p) == p \notin {"idle", "global", "end"}
HoldsLocal(p) == p \notin {"idle", "global", "local", "end"}

\* The call ends with o; it returns the semaphores its phase holds.
End(c, o) ==
    /\ cphase' = [cphase EXCEPT ![c] = "end"]
    /\ reported' = [reported EXCEPT ![c] = o]
    /\ globalFree' = globalFree + (IF HoldsGlobal(cphase[c]) THEN 1 ELSE 0)
    /\ localFree' = localFree + (IF HoldsLocal(cphase[c]) THEN 1 ELSE 0)
To(c, p) ==
    /\ cphase' = [cphase EXCEPT ![c] = p]
    /\ UNCHANGED <<reported, semVars>>

\* The caller has the lease of the published catalog (create_lease).
CreateCallLease(c, m) ==
    /\ cphase[c] = "idle" /\ lease[c] = 0 /\ catLive
    /\ lease' = [lease EXCEPT ![c] = cat]
    /\ mutates' = [mutates EXCEPT ![c] = m]
    /\ UNCHANGED <<cphase, entry, sent, effect, reported, semVars, providerVars>>

\* What a check of a mutation may say besides: the journal's lock is taken
\* without waiting, and a busy one counts as no capacity.
Busy(c) == mutates[c]

\* guard_call_admission up to its first wait.
Guard(c) ==
    /\ cphase[c] = "idle" /\ lease[c] # 0
    /\ \/ Eligible(c) /\ Capacity(c) /\ To(c, "global")
       \/ (~(Eligible(c) /\ Capacity(c)) \/ Busy(c)) /\ End(c, "rejected")
    /\ UNCHANGED <<mutates, lease, entry, sent, effect, providerVars>>

AcquireGlobal(c) ==
    /\ cphase[c] = "global" /\ globalFree > 0
    /\ globalFree' = globalFree - 1
    /\ cphase' = [cphase EXCEPT ![c] = "local"]
    /\ UNCHANGED <<mutates, lease, entry, sent, effect, reported, localFree, providerVars>>

\* A version of it that trusts the checks made before the wait.
AcquireTrusted(c) ==
    /\ cphase[c] = "local" /\ localFree > 0
    /\ localFree' = localFree - 1
    /\ cphase' = [cphase EXCEPT ![c] = IF mutates[c] THEN "begin" ELSE "calling"]
    /\ sent' = [sent EXCEPT ![c] = ~mutates[c]]
    /\ UNCHANGED <<reported, globalFree, mutates, lease, entry, effect, providerVars>>

\* The second semaphore, and the checks made again after the wait.  A read
\* is sent without another await.
AcquireLocal(c) ==
    /\ cphase[c] = "local" /\ localFree > 0
    /\ \/ /\ Eligible(c) /\ Capacity(c)
          /\ localFree' = localFree - 1
          /\ cphase' = [cphase EXCEPT ![c] = IF mutates[c] THEN "begin" ELSE "calling"]
          /\ sent' = [sent EXCEPT ![c] = ~mutates[c]]
          /\ UNCHANGED <<reported, globalFree>>
       \/ (~(Eligible(c) /\ Capacity(c)) \/ Busy(c)) /\ End(c, "rejected") /\ UNCHANGED sent
    /\ UNCHANGED <<mutates, lease, entry, effect, providerVars>>

\* begin(): the quota is checked again under the lock of the journal.
Begin(c) ==
    /\ cphase[c] = "begin"
    /\ \/ /\ Capacity(c)
          /\ entry' = [entry EXCEPT ![c] = "prepared"]
          /\ To(c, "prepared")
       \/ End(c, "rejected") /\ UNCHANGED entry
    /\ UNCHANGED <<mutates, lease, sent, effect, providerVars>>

\* The checks before the barrier: a call that is stale is recorded as not
\* dispatched, or, when that record fails, stays prepared.
Stale(c) ==
    /\ cphase[c] = "prepared" /\ ~(LeaseValid(c) /\ routable)
    /\ entry' \in {entry, [entry EXCEPT ![c] = "not_dispatched"]}
    /\ End(c, "rejected")
    /\ UNCHANGED <<mutates, lease, sent, effect, providerVars>>

\* A version of it that goes on when the journal fails.
CheckpointBestEffort(c) ==
    /\ cphase[c] = "prepared" /\ LeaseValid(c) /\ routable
    /\ entry' \in {entry, [entry EXCEPT ![c] = "may_dispatch"]}
    /\ To(c, "barrier")
    /\ UNCHANGED <<mutates, lease, sent, effect, providerVars>>

\* checkpoint_external_dispatch, and its failure.
Checkpoint(c) ==
    /\ cphase[c] = "prepared" /\ LeaseValid(c) /\ routable
    /\ \/ /\ entry' = [entry EXCEPT ![c] = "may_dispatch"]
          /\ To(c, "barrier")
       \/ End(c, "rejected") /\ UNCHANGED entry
    /\ UNCHANGED <<mutates, lease, sent, effect, providerVars>>

\* Past the barrier: the checks once more, then the request.
Dispatch(c) ==
    /\ cphase[c] = "barrier"
    /\ IF Eligible(c)
       THEN To(c, "calling") /\ sent' = [sent EXCEPT ![c] = TRUE]
       ELSE To(c, "record") /\ UNCHANGED sent
    /\ UNCHANGED <<mutates, lease, entry, effect, providerVars>>

\* The provider executes a request it has, whether or not it is awaited.
ProviderExecutes(c) ==
    /\ sent[c] /\ ~effect[c]
    /\ effect' = [effect EXCEPT ![c] = TRUE]
    /\ UNCHANGED <<cphase, mutates, lease, entry, sent, reported, semVars, providerVars>>

\* The answer of the provider: its result is good, or an error.
Answer(c, ok) ==
    /\ cphase[c] = "calling" /\ (ok => effect[c])
    /\ IF mutates[c] THEN To(c, IF ok THEN "finish" ELSE "record")
       ELSE End(c, IF ok THEN "ok" ELSE "failed")
    /\ UNCHANGED <<mutates, lease, entry, sent, effect, providerVars>>

\* _record_uncertain; when the journal fails the owner is degraded.
RecordCallUncertain(c) ==
    /\ cphase[c] = "record"
    /\ \/ entry' = [entry EXCEPT ![c] = "uncertain"] /\ UNCHANGED routable
       \/ UNCHANGED entry /\ routable' = FALSE
    /\ End(c, "uncertain")
    /\ UNCHANGED <<mutates, lease, sent, effect, cat, catLive>>

FinishCall(c) ==
    /\ cphase[c] = "finish"
    /\ \/ entry' = [entry EXCEPT ![c] = "succeeded"] /\ End(c, "ok") /\ UNCHANGED routable
       \/ UNCHANGED entry /\ End(c, "uncertain") /\ routable' = FALSE
    /\ UNCHANGED <<mutates, lease, sent, effect, cat, catLive>>

\* The deadline passes, or the caller is cancelled, at an await.  Past the
\* barrier the outcome is recorded first, shielded.
Expire(c) ==
    /\ cphase[c] \in {"global", "local", "begin", "prepared", "calling"}
    /\ IF cphase[c] = "calling"
       THEN IF mutates[c] THEN To(c, "record") ELSE End(c, "timeout")
       ELSE End(c, "rejected")
    /\ UNCHANGED <<mutates, lease, entry, sent, effect, providerVars>>

\* What the owner of the extension does meanwhile: the catalog is retired
\* with the session, degraded for a refresh, and published anew.
Retire ==
    /\ catLive /\ catLive' = FALSE /\ routable' = FALSE
    /\ UNCHANGED <<cphase, mutates, lease, entry, sent, effect, reported, semVars, cat>>
Degrade ==
    /\ routable /\ routable' = FALSE
    /\ UNCHANGED <<cphase, mutates, lease, entry, sent, effect, reported, semVars, cat, catLive>>
Republish ==
    /\ ~routable /\ cat < CatalogMax
    /\ cat' = cat + 1 /\ catLive' = TRUE /\ routable' = TRUE
    /\ UNCHANGED <<cphase, mutates, lease, entry, sent, effect, reported, semVars>>

CallStep(c) ==
    \/ Guard(c) \/ AcquireGlobal(c) \/ AcquireLocal(c) \/ Begin(c) \/ Stale(c) \/ Checkpoint(c) \/ Dispatch(c)
    \/ RecordCallUncertain(c) \/ FinishCall(c) \/ Expire(c)

CallsNext ==
    \/ Retire \/ Degrade \/ Republish
    \/ \E c \in Call :
           \/ CallStep(c) \/ ProviderExecutes(c)
           \/ \E m \in BOOLEAN : CreateCallLease(c, m) \/ Answer(c, m)

CallsSpec == CallsInit /\ [][CallsNext]_callVars
\* The event loop runs every call, and every await of it has a deadline.
CallsFairness == \A c \in Call : WF_callVars(CallStep(c))
CallsFairSpec == CallsSpec /\ CallsFairness
-----------------------------------------------------------------------------
\* The type of the calls' state.
CallsTypeOK ==
    /\ cphase \in [Call -> {"idle", "global", "local", "begin", "prepared", "barrier", "calling", "record", "finish", "end"}]
    /\ mutates \in [Call -> BOOLEAN] /\ sent \in [Call -> BOOLEAN] /\ effect \in [Call -> BOOLEAN]
    /\ lease \in [Call -> 0 .. CatalogMax]
    /\ entry \in [Call -> {"none", "prepared", "may_dispatch", "not_dispatched", "uncertain", "succeeded"}]
    /\ reported \in [Call -> {"none", "rejected", "ok", "failed", "timeout", "uncertain"}]
    /\ globalFree \in 0 .. GlobalMax /\ localFree \in 0 .. LocalMax
    /\ cat \in 1 .. CatalogMax /\ catLive \in BOOLEAN /\ routable \in BOOLEAN

\* A mutation a provider executed is in the journal as one that may have been
\* dispatched, so that a restart at any moment finds it, though its caller
\* was cancelled and the execution came later (checkpoint_external_dispatch
\* before _call_tool).
EffectIsDurable ==
    \A c \in Call : mutates[c] /\ effect[c] => entry[c] \in {"may_dispatch", "uncertain", "succeeded"}

\* What the caller of a mutation is told is so, for ever: after an error it
\* never executes, a success was executed and is recorded, and the rest is
\* said to be uncertain.
ReportsTrue ==
    \A c \in Call : mutates[c] =>
        /\ reported[c] \in {"rejected", "timeout", "failed"} => ~sent[c] /\ ~effect[c]
        /\ reported[c] = "ok" => effect[c] /\ entry[c] = "succeeded"

\* Every semaphore is held by the calls that run, whatever ended the others.
SlotsReturned ==
    /\ globalFree + Cardinality({c \in Call : HoldsGlobal(cphase[c])}) = GlobalMax
    /\ localFree + Cardinality({c \in Call : HoldsLocal(cphase[c])}) = LocalMax

\* The quota of unresolved mutations holds though each call checked it
\* before it waited (begin).
UnresolvedBound == Cardinality(Unresolved) <= UnresolvedMax

\* A request is sent to the catalog its lease names and to a routable owner,
\* whatever happened while the call waited.
SentByLease == \A c \in Call : sent'[c] /\ ~sent[c] => LeaseValid(c) /\ routable

\* A call that is under way ends.
CallsEnd == \A c \in Call : (cphase[c] # "idle") ~> (cphase[c] = "end")

\* Guarded calls are sound: effects are journalled, reports are true, slots
\* return, and the quota of unresolved mutations holds (call_tool).
CallsSound == CallsTypeOK /\ EffectIsDurable /\ ReportsTrue /\ SlotsReturned /\ UnresolvedBound

(***************************************************************************)
(* Why they hold: what the journal has of a call, and what was sent of it, *)
(* is known by its phase, and by its report once it has ended.             *)
(***************************************************************************)
CallOK(c) ==
    /\ cphase[c] \in {"idle", "global", "local", "begin"} => entry[c] = "none" /\ ~sent[c]
    /\ cphase[c] = "prepared" => entry[c] = "prepared" /\ ~sent[c]
    /\ cphase[c] = "barrier" => ~sent[c]
    /\ cphase[c] \in {"barrier", "record", "finish"} => entry[c] = "may_dispatch"
    /\ cphase[c] \in {"begin", "prepared", "barrier", "record", "finish"} => mutates[c]
    /\ cphase[c] = "calling" => sent[c] /\ (mutates[c] => entry[c] = "may_dispatch")
    /\ cphase[c] = "finish" => effect[c]
    /\ effect[c] => sent[c]
    /\ mutates[c] /\ sent[c] => entry[c] \in {"may_dispatch", "uncertain", "succeeded"}
    /\ cphase[c] # "end" => reported[c] = "none"
    /\ mutates[c] /\ reported[c] \in {"rejected", "timeout", "failed"} => ~sent[c]
    /\ mutates[c] /\ reported[c] = "ok" => effect[c] /\ entry[c] = "succeeded"

CallsInv == CallsTypeOK /\ (\A c \in Call : CallOK(c)) /\ SlotsReturned /\ UnresolvedBound
=============================================================================
