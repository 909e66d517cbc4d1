-------------------------- MODULE ResourceAdmission --------------------------
(***************************************************************************)
(* The durable admission tables of core/workflow_store.py:                 *)
(* workflow_resource_requests (all-or-none resource claims with FIFO       *)
(* tickets, a policy fingerprint and a quarantine state) and               *)
(* runtime_capacity_requests (permits of one capacity category, optionally *)
(* children of a resource request).                                        *)
(*                                                                         *)
(* Each action is one BEGIN IMMEDIATE transaction of the store; its        *)
(* callers are the environment.  They call any operation at any time, with *)
(* one rule of use that all of them follow: a request or a permit is       *)
(* quarantined only by a caller that was admitted, never while pending     *)
(* (managed_resource_claims, RuntimeCapacityPermit.__exit__,               *)
(* _run_dag_attempt and job_worker.run all hold an admitted one).          *)
(***************************************************************************)
EXTENDS Integers, FiniteSets, SequencesExt

CONSTANTS
    Kind,           \* claim kinds ("fs", "git", "coordination", "http", ...)
    Part,           \* path or key components
    Request,        \* request ids
    Permit,         \* capacity admission ids of one category
    Policy,         \* runtime policy fingerprints of the calling processes
    Claims,         \* the canonical claims each request id is submitted with
    Limit,          \* capacity limit of the category
    MaxRecords,     \* SETTINGS.max_runtime_admission_records
    MaxTicket,      \* bound on the tickets a behaviour hands out
    NoParent        \* a permit that belongs to no resource request

(***************************************************************************)
(* The claim algebra of core/resource_claims.py: which claims overlap,     *)
(* which conflict, and which child claims a parent claim covers.           *)
(*                                                                         *)
(* A claim's key is the sequence of components of its normalised path (for *)
(* a file-like kind) or of its "/"-separated key (for every other kind).   *)
(* os.path.commonpath([l, r]) = l on component sequences says that l is a  *)
(* prefix of r; it fails on paths of different roots, whose first          *)
(* components differ, and the code then answers FALSE as IsPrefix does.    *)
(***************************************************************************)

\* One claim row (ResourceClaim): what is claimed, how, and how far down.
Claim == [kind : Kind, key : Seq(Part),
          mode : {"read", "write"}, scope : {"exact", "subtree"}]

\* _path_overlap, and the same rule on the parts of a key that is no path.
PathOverlap(first, second) ==
    \/ /\ first.scope = "exact" /\ second.scope = "exact"
       /\ first.key = second.key
    \/ /\ first.scope = "subtree" /\ second.scope = "subtree"
       /\ IsPrefix(first.key, second.key) \/ IsPrefix(second.key, first.key)
    \/ /\ first.scope = "subtree" /\ second.scope = "exact"
       /\ IsPrefix(first.key, second.key)
    \/ /\ first.scope = "exact" /\ second.scope = "subtree"
       /\ IsPrefix(second.key, first.key)

ClaimsOverlap(first, second) ==
    first.kind = second.kind /\ PathOverlap(first, second)

ClaimsConflict(first, second) ==
    /\ ClaimsOverlap(first, second)
    /\ first.mode = "write" \/ second.mode = "write"

ClaimSetsConflict(first, second) ==
    \E left \in first, right \in second : ClaimsConflict(left, right)

\* _claim_covers: may a nested action use `child` under the parent's claim?
ClaimCovers(outer, child) ==
    /\ outer.kind = child.kind
    /\ ~ (outer.mode = "read" /\ child.mode = "write")
    /\ IF outer.scope = "exact"
       THEN child.scope = "exact" /\ outer.key = child.key
       ELSE IsPrefix(outer.key, child.key)

\* validate_resource_capability's scope check over a whole request.
ClaimSetCovers(outers, children) ==
    \A child \in children : \E outer \in outers : ClaimCovers(outer, child)
-----------------------------------------------------------------------------
ASSUME ClaimsAssumption == Claims \in [Request -> SUBSET Claim]
ASSUME PolicyAssumption == Policy # {}
ASSUME LimitAssumption == Limit \in Nat \ {0}
ASSUME ParentAssumption == NoParent \notin Request
ASSUME FiniteAssumption == IsFiniteSet(Request) /\ IsFiniteSet(Permit)

VARIABLES
    state,          \* request id -> row state, "absent" when there is no row
    ticket,         \* request id -> ticket of its row
    policy,         \* request id -> policy_fingerprint of its row
    permit,         \* permit -> row state
    seat,           \* permit -> ticket of its row
    parent,         \* permit -> resource_request_id of its row
    nextTicket,     \* AUTOINCREMENT of workflow_resource_requests
    nextSeat        \* AUTOINCREMENT of runtime_capacity_requests

requestVars == <<state, ticket, policy, nextTicket>>
permitVars == <<permit, seat, parent, nextSeat>>
vars == <<requestVars, permitVars>>

RowState == {"absent", "pending", "active", "quarantined", "released"}

\* A held request fences its claims; a held permit occupies capacity.
Held == {r \in Request : state[r] \in {"active", "quarantined"}}
HeldPermits == {p \in Permit : permit[p] \in {"active", "quarantined"}}

Conflict(r, s) == ClaimSetsConflict(Claims[r], Claims[s])

\* Permits of request r whose row is not settled.
Children(r) == {p \in Permit : /\ parent[p] = r
                               /\ permit[p] \in {"pending", "active", "quarantined"}}

(***************************************************************************)
(* _make_admission_room: when the table is full, the oldest released rows  *)
(* leave it.  The result is the set of possible evictions: {} inside, or   *)
(* no element at all when the released rows do not suffice and the caller  *)
(* gets runtime_admission_storage_exhausted.                               *)
(***************************************************************************)
AdmissionRoom(row, age) ==
    LET rows == {x \in DOMAIN row : row[x] # "absent"}
        released == {x \in rows : row[x] = "released"}
        needed == Cardinality(rows) - MaxRecords + 1
    IN  IF Cardinality(rows) < MaxRecords
        THEN {{}}
        ELSE {gone \in SUBSET released :
                /\ Cardinality(gone) = needed
                /\ \A x \in gone, y \in released \ gone : age[x] < age[y]}

Init ==
    /\ state = [r \in Request |-> "absent"]
    /\ ticket = [r \in Request |-> 0]
    /\ policy = [r \in Request |-> CHOOSE q \in Policy : TRUE]
    /\ permit = [p \in Permit |-> "absent"]
    /\ seat = [p \in Permit |-> 0]
    /\ parent = [p \in Permit |-> NoParent]
    /\ nextTicket = 1
    /\ nextSeat = 1
-----------------------------------------------------------------------------
(***************************************************************************)
(* Resource requests                                                       *)
(***************************************************************************)

\* Mutant: quarantined requests no longer block.
BlockersActiveOnly(r, q, st, age) ==
    {x \in Request \ {r} :
        /\ policy[x] # q \/ Conflict(r, x)
        /\ st[x] = "active" \/ (st[x] = "pending" /\ age[x] < age[r])}

\* Mutant: younger waiting requests block too.
BlockersAnyAge(r, q, st, age) ==
    {x \in Request \ {r} : st[x] \in {"active", "quarantined", "pending"}
                             /\ (policy[x] # q \/ Conflict(r, x))}

(***************************************************************************)
(* The scan of the other rows: what keeps r, submitted under policy q,     *)
(* from being activated.  st and age are the table after r's row is in it. *)
(***************************************************************************)
Blockers(r, q, st, age) ==
    {x \in Request \ {r} :
        \/ st[x] = "active" /\ (policy[x] # q \/ Conflict(r, x))
        \/ st[x] = "quarantined" /\ Conflict(r, x)
        \/ /\ st[x] = "pending" /\ age[x] < age[r]
           /\ policy[x] # q \/ Conflict(r, x)}

\* reserve_resource_claims, first call with this id: the row is inserted, and
\* the evicted rows leave their (settled) permits (ON DELETE SET NULL).
Submit(r, q) ==
    /\ state[r] = "absent"
    /\ nextTicket <= MaxTicket
    /\ \E gone \in AdmissionRoom(state, ticket) :
         LET st == [x \in Request |-> IF x \in gone THEN "absent" ELSE state[x]]
             age == [ticket EXCEPT ![r] = nextTicket]
         IN  /\ state' = [st EXCEPT ![r] = IF Blockers(r, q, st, age) = {}
                                           THEN "active" ELSE "pending"]
             /\ ticket' = age
             /\ parent' = [p \in Permit |-> IF parent[p] \in gone THEN NoParent
                                            ELSE parent[p]]
    /\ policy' = [policy EXCEPT ![r] = q]
    /\ nextTicket' = nextTicket + 1
    /\ UNCHANGED <<permit, seat, nextSeat>>

\* reserve_resource_claims, a later poll of a pending row under the policy
\* it was submitted with.  Every other poll only reads.
Poll(r, q) ==
    /\ state[r] = "pending"
    /\ policy[r] = q
    /\ Blockers(r, q, state, ticket) = {}
    /\ state' = [state EXCEPT ![r] = "active"]
    /\ UNCHANGED <<ticket, policy, nextTicket, permitVars>>

ReserveResourceClaims(r, q) == Submit(r, q) \/ Poll(r, q)

\* Mutant: a release does not look for unsettled permits.
ReleaseIgnoringChildren(r) ==
    /\ state[r] \in {"active", "pending"}
    /\ state' = [state EXCEPT ![r] = "released"]
    /\ UNCHANGED <<ticket, policy, nextTicket, permitVars>>

ReleaseResourceRequest(r) ==
    /\ state[r] \in {"active", "pending"}
    /\ state' = [state EXCEPT ![r] = IF Children(r) # {} THEN "quarantined"
                                     ELSE "released"]
    /\ UNCHANGED <<ticket, policy, nextTicket, permitVars>>

\* Callers quarantine a request only once it has been admitted.
QuarantineResourceRequest(r) ==
    /\ state[r] = "active"
    /\ state' = [state EXCEPT ![r] = "quarantined"]
    /\ UNCHANGED <<ticket, policy, nextTicket, permitVars>>

\* An operator's recorded resolution of a quarantined request.
ResolveQuarantinedResourceRequest(r) ==
    /\ state[r] = "quarantined"
    /\ Children(r) = {}
    /\ state' = [state EXCEPT ![r] = "released"]
    /\ UNCHANGED <<ticket, policy, nextTicket, permitVars>>

\* Mutant: recovery quarantines requests that only waited.
RecoverQuarantinesAll(lost, settled) ==
    /\ \E r \in lost : state[r] \in {"pending", "active"}
    /\ \A r \in settled : Children(r) = {}
    /\ state' = [r \in Request |->
                   IF r \notin lost \/ state[r] \notin {"pending", "active"} THEN state[r]
                   ELSE IF r \in settled THEN "released"
                   ELSE "quarantined"]
    /\ UNCHANGED <<ticket, policy, nextTicket, permitVars>>

(***************************************************************************)
(* The request updates of recover_interrupted and _recover_dag_execution,  *)
(* for the requests `lost` whose owner is gone.  Pending rows never        *)
(* dispatched and are released, active rows keep their fence, except the   *)
(* ones of `settled` operations, which have no unsettled child.            *)
(***************************************************************************)
RecoverRequests(lost, settled) ==
    /\ \E r \in lost : state[r] \in {"pending", "active"}
    /\ \A r \in settled : Children(r) = {}
    /\ state' = [r \in Request |->
                   IF r \notin lost \/ state[r] \notin {"pending", "active"} THEN state[r]
                   ELSE IF state[r] = "pending" \/ r \in settled THEN "released"
                   ELSE "quarantined"]
    /\ UNCHANGED <<ticket, policy, nextTicket, permitVars>>
-----------------------------------------------------------------------------
(***************************************************************************)
(* Capacity permits (weight 1, as acquire_runtime_capacity asks for)       *)
(***************************************************************************)

\* _RESOURCE_CAPABILITY_SQL, as far as the admission tables decide it.
CapabilityLive(r, q) == state[r] = "active" /\ policy[r] = q

\* Mutant: quarantined permits weigh nothing.
CapacityFreeActiveOnly(p, st, age) ==
    /\ ~ \E x \in Permit \ {p} : st[x] = "pending" /\ age[x] < age[p]
    /\ Cardinality({x \in Permit : st[x] = "active"}) < Limit

\* May permit p be activated in the table st/age?
CapacityFree(p, st, age) ==
    /\ ~ \E x \in Permit \ {p} : st[x] = "pending" /\ age[x] < age[p]
    /\ Cardinality({x \in Permit : st[x] \in {"active", "quarantined"}}) < Limit

\* reserve_capacity, first call: the row is inserted under parent r.
SubmitCapacity(p, r, q) ==
    /\ permit[p] = "absent"
    /\ nextSeat <= MaxTicket
    /\ r # NoParent => CapabilityLive(r, q)
    /\ \E gone \in AdmissionRoom(permit, seat) :
         LET st == [x \in Permit |-> IF x \in gone THEN "absent" ELSE permit[x]]
             age == [seat EXCEPT ![p] = nextSeat]
         IN  /\ permit' = [st EXCEPT ![p] = IF CapacityFree(p, st, age)
                                            THEN "active" ELSE "pending"]
             /\ seat' = age
    /\ parent' = [parent EXCEPT ![p] = r]
    /\ nextSeat' = nextSeat + 1
    /\ UNCHANGED requestVars

\* reserve_capacity, a later poll; a dead parent capability raises first.
PollCapacity(p, q) ==
    /\ permit[p] = "pending"
    /\ parent[p] # NoParent => CapabilityLive(parent[p], q)
    /\ CapacityFree(p, permit, seat)
    /\ permit' = [permit EXCEPT ![p] = "active"]
    /\ UNCHANGED <<seat, parent, nextSeat, requestVars>>

ReserveCapacity(p, r, q) == SubmitCapacity(p, r, q) \/ PollCapacity(p, q)

ReleaseCapacity(p) ==
    /\ permit[p] \in {"active", "pending"}
    /\ permit' = [permit EXCEPT ![p] = "released"]
    /\ UNCHANGED <<seat, parent, nextSeat, requestVars>>

\* The child's cleanup is in doubt: the permit and its parent are fenced.
QuarantineCapacity(p) ==
    /\ permit[p] \in {"active", "quarantined"}
    /\ permit' = [permit EXCEPT ![p] = "quarantined"]
    /\ state' = [r \in Request |-> IF r = parent[p] /\ state[r] = "active"
                                   THEN "quarantined" ELSE state[r]]
    /\ UNCHANGED <<ticket, policy, nextTicket, seat, parent, nextSeat>>

\* release_process_capacity and release_dead_resource_capacity: the permits
\* of processes that are known to be dead.
ReleaseProcessCapacity(dead) ==
    /\ \E p \in dead : permit[p] \in {"active", "pending", "quarantined"}
    /\ permit' = [p \in Permit |->
                    IF p \in dead /\ permit[p] \in {"active", "pending", "quarantined"}
                    THEN "released" ELSE permit[p]]
    /\ UNCHANGED <<seat, parent, nextSeat, requestVars>>
-----------------------------------------------------------------------------
Next ==
    \/ \E r \in Request, q \in Policy : ReserveResourceClaims(r, q)
    \/ \E r \in Request : ReleaseResourceRequest(r)
    \/ \E r \in Request : QuarantineResourceRequest(r)
    \/ \E r \in Request : ResolveQuarantinedResourceRequest(r)
    \/ \E lost \in SUBSET Request : \E settled \in SUBSET lost :
         RecoverRequests(lost, settled)
    \/ \E p \in Permit, r \in Request \cup {NoParent}, q \in Policy :
         ReserveCapacity(p, r, q)
    \/ \E p \in Permit : ReleaseCapacity(p)
    \/ \E p \in Permit : QuarantineCapacity(p)
    \/ \E dead \in SUBSET Permit : ReleaseProcessCapacity(dead)

Spec == Init /\ [][Next]_vars
-----------------------------------------------------------------------------
(***************************************************************************)
(* Properties                                                              *)
(***************************************************************************)

\* Every column of the two tables holds a value of its type.
TypeOK ==
    /\ state \in [Request -> RowState]
    /\ ticket \in [Request -> Nat]
    /\ policy \in [Request -> Policy]
    /\ permit \in [Permit -> RowState]
    /\ seat \in [Permit -> Nat]
    /\ parent \in [Permit -> Request \cup {NoParent}]
    /\ nextTicket \in Nat
    /\ nextSeat \in Nat

(***************************************************************************)
(* Two requests that fence their claims never conflict: reservation        *)
(* activates a request only when no active or quarantined row conflicts,   *)
(* however admissions, quarantines, recoveries and evictions interleave.   *)
(***************************************************************************)
HeldExclusive ==
    \A r, s \in Held : r # s => ~ Conflict(r, s)

(***************************************************************************)
(* "A parent cannot release while a linked permit is unresolved": a permit *)
(* that is not settled always has its parent row in the table, fenced.     *)
(***************************************************************************)
ChildrenFenced ==
    \A r \in Request : Children(r) # {} => r \in Held

(***************************************************************************)
(* The active requests were all submitted under one runtime policy, so a   *)
(* process with other budgets never runs beside them.                      *)
(***************************************************************************)
OnePolicy ==
    \A r, s \in Request :
        state[r] = "active" /\ state[s] = "active" => policy[r] = policy[s]

\* No interleaving of reservations overcommits the category's capacity.
CapacityBound == Cardinality(HeldPermits) <= Limit

(***************************************************************************)
(* The queue cannot lock itself up: once every fence is gone, some pending *)
(* request can be admitted by a poll of its own owner, however policies    *)
(* and claims of the waiting requests are mixed.                           *)
(***************************************************************************)
SomeoneAdmissible ==
    (Held = {} /\ \E r \in Request : state[r] = "pending")
        => \E r \in Request : /\ state[r] = "pending"
                              /\ Blockers(r, policy[r], state, ticket) = {}

(***************************************************************************)
(* A fence ends in one way only: a held request leaves Held by being       *)
(* released, at a moment when no child of it is unsettled; the record      *)
(* quota never evicts it and a quarantined one is never active again.      *)
(***************************************************************************)
FenceEndsReleased ==
    [][\A r \in Held :
          /\ r \in Held' \/ (state'[r] = "released" /\ Children(r)' = {})
          /\ state[r] = "quarantined" => state'[r] # "active"]_vars

(***************************************************************************)
(* The tables implement the fence: seen through Held, every transaction    *)
(* adds one conflict-free request, ends some fences, or changes nothing.   *)
(***************************************************************************)
Fence == INSTANCE ResourceFence WITH held <- Held
ImplementsFence == Fence!Spec

(***************************************************************************)
(* Requests that are held together are compatible: no two of them conflict *)
(* and all that are active were admitted under one policy revision.        *)
(***************************************************************************)
HeldCompatible == HeldExclusive /\ OnePolicy
=============================================================================
