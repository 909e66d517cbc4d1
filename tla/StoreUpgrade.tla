---------------------------- MODULE StoreUpgrade ----------------------------
(***************************************************************************)
(* Opening the workflow database (core/workflow_store.py): the connections *)
(* a store borrows, and the migrations from any earlier schema, made by    *)
(* several processes that open at once and may die, while clients of an    *)
(* earlier program still use the file and a newer program may upgrade it.  *)
(*                                                                         *)
(* One workflow stands for the history, with its steps, operations and     *)
(* dependency edges; requests stand for claims of resources.               *)
(***************************************************************************)
EXTENDS Integers, FiniteSets

CONSTANTS
    Opener,         \* processes that open the store
    Request,        \* resource requests
    Policies,       \* fingerprints of the shared budgets
    StepCount,      \* steps of the workflow
    DeathsMax,      \* bound on deaths of openers
    Borrower        \* threads that use one store with a shared connection

SchemaVersion == 11
Newer == 12
Step == 1..StepCount
NoPolicy == "none"
NoOperation == "none"
StepStates == {"created", "running", "waiting", "failed", "uncertain", "reconciling", "completed", "cancelled"}
OperationStates == {"created", "uncertain", "waiting", "failed", "reconciling", "succeeded", "cancelled"}

VARIABLES
    schema,         \* PRAGMA user_version
    steps,          \* workflow_steps: the state of each step
    operations,     \* workflow_operations: state of the operation of a step, if there is one
    edges,          \* workflow_step_dependencies
    compatible,     \* workflows.execution_compatible; exact: there really is an exact payload
    exact,
    backfilled,     \* the key in workflow_maintenance
    requests,       \* workflow_resource_requests: state and policy
    unreleased,     \* some row of runtime_capacity_requests is not released
    busy,           \* history: requests under which an effect may be going on
    executed,       \* history: the workflow has been executed
    guard,          \* who holds the migration lock
    opener,         \* where a process is
    version         \* what it takes the schema for

upgradeVars == <<schema, steps, operations, edges, compatible, exact, backfilled, requests, unreleased, busy,
                 executed, guard, opener, version>>

Nothing == "nothing"
ASSUME UpgradeAssumption == StepCount \in Nat \ {0} /\ Nothing \notin Opener
NoRequest == [state |-> Nothing, policy |-> NoPolicy]

\* Databases that earlier programs have left: none at all, 0.8.0 (schema 6), and the later schemas.
UpgradeInit ==
    /\ schema \in {0, 6, 9, 10, 11}
    /\ steps \in [Step -> {"created", "running", "completed"}]
    /\ exact \in BOOLEAN /\ compatible = (exact /\ schema >= 2)
    /\ exact => schema >= 2
    /\ backfilled \in BOOLEAN /\ (backfilled => schema >= 6)
    /\ operations \in {[s \in Step |-> NoOperation],
                       [s \in Step |-> IF steps[s] = "running" THEN "uncertain"
                                       ELSE IF steps[s] = "completed" THEN "succeeded" ELSE "created"]}
    /\ operations[1] # NoOperation => schema >= 1
    /\ edges = IF schema >= 7 THEN {<<s, s - 1>> : s \in Step \ {1}} ELSE {}
    /\ requests = [r \in Request |-> NoRequest] /\ busy = {}
    /\ unreleased \in BOOLEAN /\ (unreleased => schema >= 9)
    /\ executed = FALSE /\ guard = Nothing
    /\ opener = [x \in Opener |-> "out"] /\ version = [x \in Opener |-> 0]

Died(x) == opener[x] = "dead"
database == <<schema, steps, operations, edges, compatible, exact, backfilled, requests, unreleased>>

(***************************************************************************)
(* The migrations; each is one transaction.                                *)
(***************************************************************************)

\* _migrate_v2: the new column of a row that was there before.
AddedCompatible == FALSE

\* _migrate_v7: a legacy workflow is a chain.
LegacyChain == {<<s, s - 1>> : s \in Step \ {1}}

\* A version of _migrate_v10 that releases the claims it cannot link.
QuarantineUnlinkedFreed(q) == IF q.state = "active" /\ unreleased THEN [q EXCEPT !.state = "released"] ELSE q

\* _migrate_v10: claims whose permits are not linked are kept for reconciliation.
QuarantineUnlinked(q) == IF q.state = "active" /\ unreleased THEN [q EXCEPT !.state = "quarantined"] ELSE q

\* _migrate_v11: claims with an unknown policy are kept for reconciliation, those not dispatched go.
FenceUnknownPolicy(q) ==
    CASE q.state = "active" -> [q EXCEPT !.state = "quarantined"]
      [] q.state = "pending" -> [q EXCEPT !.state = "released"]
      [] OTHER -> q

\* A column can be added only once; the other migrations create what is not there.
AddsColumns(v) == v \notin {1, 9}

\* _migrate_v1 ... _migrate_v11; between 3 and 8 the columns that are added change no row here.
Migrate(x) ==
    /\ opener[x] = "migrate" /\ version[x] < SchemaVersion
    /\ LET v == version[x] + 1 IN
       IF AddsColumns(v) /\ schema >= v
       THEN /\ opener' = [opener EXCEPT ![x] = "failed"] /\ guard' = Nothing
            /\ UNCHANGED <<schema, edges, compatible, requests, version>>
       ELSE /\ schema' = v /\ version' = [version EXCEPT ![x] = v]
            /\ compatible' = IF v = 2 THEN AddedCompatible ELSE compatible
            /\ edges' = IF v = 7 THEN edges \cup LegacyChain ELSE edges
            /\ requests' = [r \in Request |-> CASE v = 10 -> QuarantineUnlinked(requests[r])
                                                [] v = 11 -> FenceUnknownPolicy(requests[r])
                                                [] OTHER -> requests[r]]
            /\ UNCHANGED <<opener, guard>>
    /\ UNCHANGED <<steps, operations, exact, backfilled, unreleased, busy, executed>>

(***************************************************************************)
(* Opening.                                                                *)
(***************************************************************************)

\* exclusive_file_lock on the migration lock, without a deadline.
GuardFree == guard = Nothing

TakeGuard(x) ==
    /\ opener[x] = "out" /\ GuardFree
    /\ guard' = x /\ opener' = [opener EXCEPT ![x] = "locked"]
    /\ UNCHANGED <<database, busy, executed, version>>

\* The guard of _new_connection, and the same question after the migrations.
TooNew == schema > SchemaVersion

\* _new_connection with setup_wal, the base tables, and the version that is read once.
Connect(x) ==
    /\ opener[x] = "locked"
    /\ IF TooNew
       THEN /\ opener' = [opener EXCEPT ![x] = "failed"] /\ guard' = Nothing /\ UNCHANGED version
       ELSE /\ opener' = [opener EXCEPT ![x] = "migrate"] /\ version' = [version EXCEPT ![x] = schema]
            /\ UNCHANGED guard
    /\ UNCHANGED <<database, busy, executed>>

\* _STEP_OPERATION_STATES
StepOperationState(s) ==
    IF s = "completed" THEN "succeeded" ELSE IF s = "running" THEN "uncertain" ELSE s

\* _materialize_workflow: an operation for every step that has none.
Materialized == [s \in Step |-> IF operations[s] = NoOperation THEN StepOperationState(steps[s]) ELSE operations[s]]

\* The backfill of _initialize, in one transaction whether it is the first or completes what is missing;
\* the lock is left and the store is open.
Backfill(x) ==
    /\ opener[x] = "migrate" /\ version[x] >= SchemaVersion
    /\ operations' = Materialized /\ backfilled' = TRUE
    /\ opener' = [opener EXCEPT ![x] = "open"] /\ guard' = Nothing
    /\ UNCHANGED <<schema, steps, edges, compatible, exact, requests, unreleased, busy, executed, version>>

\* A process dies; its lock goes with it, an open transaction is rolled back.
DieOpening(x) ==
    /\ opener[x] \in {"locked", "migrate"}
    /\ Cardinality({y \in Opener : Died(y)}) < DeathsMax
    /\ opener' = [opener EXCEPT ![x] = "dead"] /\ guard' = IF guard = x THEN Nothing ELSE guard
    /\ UNCHANGED <<database, busy, executed, version>>

\* A program of a later version upgrades the file under the same lock.
NewerUpgrades ==
    /\ schema = SchemaVersion /\ guard = Nothing /\ schema' = Newer
    /\ UNCHANGED <<steps, operations, edges, compatible, exact, backfilled, requests, unreleased, busy, executed, guard,
                   opener, version>>

(***************************************************************************)
(* Clients of the database.                                                *)
(***************************************************************************)

\* resource_policy_insert and resource_policy_activate, for a row that becomes pending or active.
TriggersAllow(r, p, s) ==
    schema >= SchemaVersion =>
        /\ p # NoPolicy
        /\ s = "active" => \A o \in Request \ {r} : requests[o].state = "active" => requests[o].policy = p

\* A client inserts a request or activates one: one of an earlier program names no policy, one of this
\* program is an open store.
Ask(r, p, s) ==
    /\ schema >= 9
    /\ p = NoPolicy \/ \E x \in Opener : opener[x] = "open"
    /\ \/ requests[r].state = Nothing
       \/ s = "active" /\ requests[r].state = "pending" /\ requests[r].policy = p
    /\ TriggersAllow(r, p, s)
    /\ requests' = [requests EXCEPT ![r] = [state |-> s, policy |-> p]]
    /\ UNCHANGED <<schema, steps, operations, edges, compatible, exact, backfilled, unreleased, busy, executed, guard,
                   opener, version>>

\* Its owner dispatches under the request, and later gives it back if it is still active.
Dispatch(r) ==
    /\ requests[r].state = "active" /\ busy' = busy \cup {r}
    /\ UNCHANGED <<database, executed, guard, opener, version>>
Settle(r) ==
    /\ r \in busy /\ busy' = busy \ {r}
    /\ requests' = IF requests[r].state = "active" THEN [requests EXCEPT ![r].state = "released"] ELSE requests
    /\ UNCHANGED <<schema, steps, operations, edges, compatible, exact, backfilled, unreleased, executed, guard, opener,
                   version>>

\* execution_definition: only an exact durable payload is executed.
Executable == compatible

\* An open store executes a workflow of which nothing is uncertain.
Execute(x) ==
    /\ opener[x] = "open" /\ schema = SchemaVersion /\ ~executed /\ Executable
    /\ \A s \in Step : operations[s] \in {"created", "succeeded"}
    /\ executed' = TRUE
    /\ operations' = [s \in Step |-> IF operations[s] = "created" THEN "succeeded" ELSE operations[s]]
    /\ UNCHANGED <<schema, steps, edges, compatible, exact, backfilled, requests, unreleased, busy, guard, opener,
                   version>>

UpgradeNext ==
    \/ \E x \in Opener : TakeGuard(x) \/ Connect(x) \/ Migrate(x) \/ Backfill(x) \/ DieOpening(x) \/ Execute(x)
    \/ \E r \in Request : \/ \E p \in Policies \cup {NoPolicy}, s \in {"pending", "active"} : Ask(r, p, s)
                          \/ Dispatch(r) \/ Settle(r)
    \/ NewerUpgrades

UpgradeSpec == UpgradeInit /\ [][UpgradeNext]_upgradeVars

(***************************************************************************)
(* Properties of the upgrade.                                              *)
(***************************************************************************)

\* The types, and that only the holder of the lock is opening.
UpgradeTypeOK ==
    /\ schema \in 0..Newer /\ steps \in [Step -> StepStates]
    /\ operations \in [Step -> OperationStates \cup {NoOperation}]
    /\ edges \subseteq Step \X (0..StepCount) /\ compatible \in BOOLEAN
    /\ requests \in [Request -> [state : {Nothing, "pending", "active", "quarantined", "released"},
                                 policy : Policies \cup {NoPolicy}]]
    /\ opener \in [Opener -> {"out", "locked", "migrate", "open", "failed", "dead"}]
    /\ \A x \in Opener : opener[x] \in {"locked", "migrate"} => guard = x

\* A claim under which an effect may be going on is held or quarantined, whichever schemas the database
\* goes through meanwhile: an upgrade never gives it up (_migrate_v10, _migrate_v11).
ClaimsSurviveUpgrade == \A r \in busy : requests[r].state \in {"active", "quarantined"}

\* From schema 11 on, requests that are active together have one known policy, whatever earlier clients
\* had or still attempt (_migrate_v11 and its triggers).
PolicyKnown ==
    schema >= SchemaVersion =>
        \A r, o \in Request : requests[r].state = "active" /\ requests[o].state = "active" =>
            requests[r].policy # NoPolicy /\ requests[r].policy = requests[o].policy

\* Processes that open together or after one that died all succeed, unless the schema is newer: a
\* migration is never made twice and never skipped (_initialize).
OpensUnlessNewer ==
    \A x \in Opener : /\ opener[x] = "failed" => schema = Newer
                      /\ opener[x] = "open" => schema >= SchemaVersion

\* What the schema says has been migrated: the chain of a legacy workflow from 7 on, an operation for each
\* step once a store is open, and one that was interrupted stands as uncertain (_migrate_v7, _materialize_workflow).
HistoryMigrated ==
    /\ schema >= 7 => edges = LegacyChain
    /\ \A x \in Opener, s \in Step : opener[x] = "open" =>
          /\ operations[s] # NoOperation
          /\ steps[s] = "running" => operations[s] = "uncertain"
          /\ steps[s] = "completed" => operations[s] = "succeeded"

\* A workflow whose exact payload was never stored is not executed (_migrate_v2, execution_definition).
NeverGuesses == executed => exact

\* The schema never goes back, and a database that a newer program has upgraded is not touched by the
\* processes that open it (_new_connection, _initialize).
SchemaMovesOn ==
    /\ schema' >= schema
    /\ schema = Newer /\ opener' # opener => UNCHANGED database

(***************************************************************************)
(* The connection that a store shares among its threads (_ConnectionLease, *)
(* _connect with reuse_connection, close).                                 *)
(***************************************************************************)

VARIABLES
    depth,          \* how often each thread has taken the store's lock
    place,          \* where a thread is
    shared,         \* the shared connection: absent, or whether a transaction is open on it
    sealed          \* WorkflowStore._closed

borrowVars == <<depth, place, shared, sealed>>

BorrowInit ==
    /\ depth = [t \in Borrower |-> 0] /\ place = [t \in Borrower |-> "out"]
    /\ shared = "absent" /\ sealed = FALSE

FreeFor(t) == \A o \in Borrower \ {t} : depth[o] = 0

\* An operation enters with the store's lock, or goes to _connect at once.
EnterStore(t) ==
    /\ place[t] = "out"
    /\ \/ FreeFor(t) /\ depth' = [depth EXCEPT ![t] = 1]
       \/ UNCHANGED depth
    /\ place' = [place EXCEPT ![t] = "connect"] /\ UNCHANGED <<shared, sealed>>

\* _connect: the lease holds the lock; a sealed store refuses.
BorrowConnection(t) ==
    /\ place[t] = "connect" /\ FreeFor(t)
    /\ IF sealed
       THEN /\ depth' = [depth EXCEPT ![t] = 0] /\ place' = [place EXCEPT ![t] = "out"] /\ UNCHANGED shared
       ELSE /\ depth' = [depth EXCEPT ![t] = @ + 1] /\ place' = [place EXCEPT ![t] = "use"]
            /\ shared' = IF shared = "absent" THEN "idle" ELSE shared
    /\ UNCHANGED sealed

\* The operation begins a transaction; it commits, or it leaves with an exception.
BeginImmediate(t) ==
    /\ place[t] = "use" /\ shared = "idle" /\ shared' = "transaction"
    /\ UNCHANGED <<depth, place, sealed>>
EndUse(t) ==
    /\ place[t] = "use" /\ place' = [place EXCEPT ![t] = "return"]
    /\ \/ shared = "transaction" /\ shared' = "idle"
       \/ UNCHANGED shared
    /\ UNCHANGED <<depth, sealed>>

\* A version of the lease that returns the connection as it is.
ReturnedAsIs(c) == {c}

\* The connection after the lease: rolled back, or dropped when even that fails.
Returned(c) == IF c = "transaction" THEN {"idle", "absent"} ELSE {c}

\* _ConnectionLease.close, and the lock of the operation.
ReturnConnection(t) ==
    /\ place[t] = "return" /\ shared' \in Returned(shared)
    /\ depth' = [depth EXCEPT ![t] = 0] /\ place' = [place EXCEPT ![t] = "out"]
    /\ UNCHANGED sealed

\* The lock that close takes.
MayClose(t) == FreeFor(t)

\* WorkflowStore.close
CloseStore(t) ==
    /\ place[t] = "out" /\ MayClose(t)
    /\ sealed' = TRUE /\ shared' = "absent" /\ UNCHANGED <<depth, place>>

BorrowNext ==
    \E t \in Borrower :
        EnterStore(t) \/ BorrowConnection(t) \/ BeginImmediate(t) \/ EndUse(t) \/ ReturnConnection(t) \/ CloseStore(t)

BorrowSpec == BorrowInit /\ [][BorrowNext]_borrowVars

\* The database on disk and the connection in one process.
StoreSpec == UpgradeSpec /\ BorrowSpec

\* A thread that uses the shared connection is alone with it and finds it open, also while the store is
\* being closed; a sealed store has no connection (_connect, close).
ConnectionServed ==
    /\ \A t \in Borrower : place[t] = "use" => shared # "absent" /\ depth[t] > 0 /\ FreeFor(t)
    /\ sealed => shared = "absent"

\* No transaction outlives the operation that began it: whoever borrows next does not commit or extend the
\* writes of one that failed (_ConnectionLease.close).
NoInheritedTransaction ==
    (\A t \in Borrower : place[t] \in {"out", "connect"}) => shared # "transaction"

\* An upgrade keeps every fence: claims that were held are held or quarantined
\* after it, and no row is admitted under a policy nobody knows (_migrate_v10,
\* _migrate_v11).
UpgradeFenced == ClaimsSurviveUpgrade /\ PolicyKnown

\* A store that opens is whole: it opens unless a newer program wrote it, its
\* history is migrated with it, nothing without an exact payload is executed,
\* and the connection that is shared carries no transaction from one
\* borrower to the next nor is it closed under one.
StoreSound ==
    /\ UpgradeTypeOK /\ OpensUnlessNewer /\ HistoryMigrated /\ NeverGuesses
    /\ ConnectionServed /\ NoInheritedTransaction

(***************************************************************************)
(* Why they hold.  Whoever migrates has the lock and knows the schema, so  *)
(* no migration is repeated; an operation that was there before or that    *)
(* the backfill makes fits the state of its step.                          *)
(***************************************************************************)
UpgradeInv ==
    /\ UpgradeTypeOK /\ guard \in Opener \cup {Nothing} /\ version \in [Opener -> Nat] /\ busy \subseteq Request
    /\ \A x \in Opener : opener[x] = "migrate" => version[x] = schema /\ schema <= SchemaVersion
    /\ edges = IF schema >= 7 THEN LegacyChain ELSE {}
    /\ \A s \in Step : operations[s] # NoOperation =>
          /\ steps[s] = "running" => operations[s] = "uncertain"
          /\ steps[s] = "completed" => operations[s] = "succeeded"
    /\ OpensUnlessNewer /\ HistoryMigrated /\ UpgradeFenced

\* Only what has an exact payload is marked as compatible.
PayloadInv == (compatible => exact) /\ (executed => exact)

\* A thread at or after the use of the connection is the only one with the lock.
BorrowInv ==
    /\ depth \in [Borrower -> Nat] /\ place \in [Borrower -> {"out", "connect", "use", "return"}]
    /\ shared \in {"absent", "idle", "transaction"}
    /\ \A t \in Borrower : place[t] \in {"use", "return"} => depth[t] > 0 /\ FreeFor(t)
    /\ ConnectionServed /\ NoInheritedTransaction

=============================================================================
