----------------------- MODULE ResourceAdmissionProofs -----------------------
(***************************************************************************)
(* Proofs about ResourceAdmission for every set of requests, permits and   *)
(* policies, every claim assignment, capacity limit and record quota.      *)
(*                                                                         *)
(* FenceStep is the centre: every transaction, seen through Held, is a     *)
(* step of ResourceFence.  It needs ChildrenFenced, because releasing a    *)
(* request with an unsettled child quarantines it, and a pending request   *)
(* that became quarantined would be fenced without any conflict check.     *)
(***************************************************************************)
EXTENDS ResourceAdmission, FiniteSetTheorems, WellFoundedInduction, TLAPS

\* Most leaves need no arithmetic: they are tried with Zenon first, then with SMT, then with Zenon for longer.
USE ZenonT(3), SMTT(60), ZenonT(30)

(***************************************************************************)
(* The claim algebra, for every set of kinds and keys.                     *)
(***************************************************************************)

(***************************************************************************)
(* A prefix agrees with the longer sequence position by position: the form *)
(* of IsPrefix the other proofs use.                                       *)
(***************************************************************************)
LEMMA PrefixPointwise ==
    ASSUME NEW S, NEW s \in Seq(S), NEW t \in Seq(S)
    PROVE  IsPrefix(s, t) <=> /\ Len(s) <= Len(t)
                              /\ \A i \in 1 .. Len(s) : s[i] = t[i]
  BY DEF IsPrefix

(***************************************************************************)
(* Prefixes compose, so a subtree inside a subtree is inside the outer one.*)
(***************************************************************************)
LEMMA PrefixTransitive ==
    ASSUME NEW S, NEW s \in Seq(S), NEW t \in Seq(S), NEW u \in Seq(S),
           IsPrefix(s, t), IsPrefix(t, u)
    PROVE  IsPrefix(s, u)
  BY PrefixPointwise

(***************************************************************************)
(* Two prefixes of one sequence are comparable.                            *)
(***************************************************************************)
LEMMA PrefixesComparable ==
    ASSUME NEW S, NEW s \in Seq(S), NEW t \in Seq(S), NEW u \in Seq(S),
           IsPrefix(s, u), IsPrefix(t, u)
    PROVE  IsPrefix(s, t) \/ IsPrefix(t, s)
  BY PrefixPointwise

(***************************************************************************)
(* claims_conflict does not depend on the order of its arguments, so the   *)
(* one-sided comparison of reserve_resource_claims (newcomer against every *)
(* other row) detects every conflict.                                      *)
(***************************************************************************)
THEOREM ConflictSymmetric ==
    \A A, B : ClaimSetsConflict(A, B) <=> ClaimSetsConflict(B, A)
  BY DEF ClaimSetsConflict, ClaimsConflict, ClaimsOverlap, PathOverlap
(***************************************************************************)
(* A nested action that passes _claim_covers is fenced by its parent: any  *)
(* third claim in conflict with the child already conflicts with the       *)
(* parent, so the child needs no request of its own.                       *)
(***************************************************************************)
LEMMA CoveredOverlap ==
    ASSUME NEW outer \in Claim, NEW child \in Claim, NEW other \in Claim,
           ClaimCovers(outer, child), ClaimsOverlap(child, other)
    PROVE  ClaimsOverlap(outer, other)
<1> USE DEF Claim, ClaimsOverlap
<1>1. outer.kind = other.kind
  BY DEF ClaimCovers
<1>2. CASE outer.scope = "exact"
  BY <1>1, <1>2 DEF ClaimCovers, PathOverlap
<1>3. CASE outer.scope = "subtree"
  <2>1. IsPrefix(outer.key, child.key)
    BY <1>3 DEF ClaimCovers
  <2>2. CASE other.scope = "exact"
    <3>1. child.key = other.key \/ IsPrefix(child.key, other.key)
      BY <2>2 DEF PathOverlap
    <3>2. IsPrefix(outer.key, other.key)
      BY <2>1, <3>1, PrefixTransitive
    <3> QED BY <1>1, <1>3, <2>2, <3>2 DEF PathOverlap
  <2>3. CASE other.scope = "subtree"
    <3>1. IsPrefix(child.key, other.key) \/ IsPrefix(other.key, child.key)
      BY <2>3 DEF PathOverlap
    <3>2. IsPrefix(outer.key, other.key) \/ IsPrefix(other.key, outer.key)
      BY <2>1, <3>1, PrefixTransitive, PrefixesComparable
    <3> QED BY <1>1, <1>3, <2>3, <3>2 DEF PathOverlap
  <2> QED BY <2>2, <2>3
<1> QED BY <1>2, <1>3

(***************************************************************************)
(* validate_resource_capability is sound: when a live parent request       *)
(* covers the claims of a nested call, every request in conflict with the  *)
(* nested claims is in conflict with the parent's, and so is kept out by   *)
(* the parent's own row.                                                   *)
(***************************************************************************)
THEOREM CapabilityScopeSound ==
    ASSUME NEW P \in SUBSET Claim, NEW C \in SUBSET Claim, NEW O \in SUBSET Claim,
           ClaimSetCovers(P, C), ClaimSetsConflict(C, O)
    PROVE  ClaimSetsConflict(P, O)
<1>1. PICK child \in C, other \in O : ClaimsConflict(child, other)
  BY DEF ClaimSetsConflict
<1>2. PICK outer \in P : ClaimCovers(outer, child)
  BY DEF ClaimSetCovers
<1>3. ClaimsOverlap(outer, other)
  BY <1>1, <1>2, CoveredOverlap DEF ClaimsConflict
<1>4. outer.mode = "write" \/ other.mode = "write"
  BY <1>1, <1>2 DEF ClaimsConflict, ClaimCovers, Claim
<1> QED BY <1>3, <1>4 DEF ClaimSetsConflict, ClaimsConflict
-----------------------------------------------------------------------------
\* What a claim is about: its key, and with scope "subtree" everything below it.
Footprint(claim) == {key \in Seq(Part) : IF claim.scope = "exact" THEN key = claim.key ELSE IsPrefix(claim.key, key)}

\* A key is a prefix of itself.
LEMMA PrefixReflexive ==
    ASSUME NEW S, NEW s \in Seq(S)
    PROVE  IsPrefix(s, s)
  BY PrefixPointwise

(***************************************************************************)
(* The four cases of _path_overlap say exactly that two claims have a key  *)
(* in common: nothing that two claims share is missed, and claims that     *)
(* share nothing are never kept apart, for keys of any length.             *)
(***************************************************************************)
THEOREM OverlapIsSharedKey ==
    ASSUME NEW first \in Claim, NEW second \in Claim
    PROVE  ClaimsOverlap(first, second)
             <=> first.kind = second.kind /\ Footprint(first) \cap Footprint(second) # {}
<1> USE DEF Claim
<1>1. first.key \in Seq(Part) /\ second.key \in Seq(Part)
  OBVIOUS
<1>2. first.key \in Footprint(first) /\ second.key \in Footprint(second)
  BY <1>1, PrefixReflexive DEF Footprint
<1>3. ASSUME PathOverlap(first, second) PROVE Footprint(first) \cap Footprint(second) # {}
  <2>1. second.key \in Footprint(first) \/ first.key \in Footprint(second)
    BY <1>1, <1>3 DEF PathOverlap, Footprint
  <2> QED BY <1>2, <2>1
<1>4. ASSUME NEW key \in Footprint(first) \cap Footprint(second) PROVE PathOverlap(first, second)
  <2>1. key \in Seq(Part)
    BY DEF Footprint
  <2>2. CASE first.scope = "exact" \/ second.scope = "exact"
    BY <2>1, <2>2 DEF Footprint, PathOverlap
  <2>3. CASE first.scope = "subtree" /\ second.scope = "subtree"
    <3>1. IsPrefix(first.key, key) /\ IsPrefix(second.key, key)
      BY <2>3 DEF Footprint
    <3>2. IsPrefix(first.key, second.key) \/ IsPrefix(second.key, first.key)
      BY <1>1, <2>1, <3>1, PrefixesComparable
    <3> QED BY <2>3, <3>2 DEF PathOverlap
  <2> QED BY <2>2, <2>3
<1> QED BY <1>3, <1>4 DEF ClaimsOverlap

(***************************************************************************)
(* _claim_covers lets a nested action touch only what its parent's claim   *)
(* is about, and write only where the parent writes.                       *)
(***************************************************************************)
THEOREM CoveredInside ==
    ASSUME NEW outer \in Claim, NEW child \in Claim, ClaimCovers(outer, child)
    PROVE  /\ Footprint(child) \subseteq Footprint(outer)
           /\ child.mode = "write" => outer.mode = "write"
<1> USE DEF Claim
<1>1. ASSUME NEW key \in Footprint(child) PROVE key \in Footprint(outer)
  <2>1. key \in Seq(Part) /\ child.key \in Seq(Part) /\ outer.key \in Seq(Part)
    BY DEF Footprint
  <2>2. CASE outer.scope = "exact"
    BY <2>2 DEF ClaimCovers, Footprint
  <2>3. CASE outer.scope = "subtree"
    <3>1. IsPrefix(outer.key, child.key)
      BY <2>3 DEF ClaimCovers
    <3>2. key = child.key \/ IsPrefix(child.key, key)
      BY DEF Footprint
    <3>3. IsPrefix(outer.key, key)
      BY <2>1, <3>1, <3>2, PrefixTransitive
    <3> QED BY <2>1, <2>3, <3>3 DEF Footprint
  <2> QED BY <2>2, <2>3
<1>2. child.mode = "write" => outer.mode = "write"
  BY DEF ClaimCovers
<1> QED BY <1>1, <1>2
-----------------------------------------------------------------------------
(***************************************************************************)
(* Admission                                                               *)
(***************************************************************************)

\* Only released rows are ever evicted.
LEMMA RoomReleased ==
    ASSUME NEW row, NEW age, NEW gone \in AdmissionRoom(row, age), NEW x \in gone
    PROVE  x \in DOMAIN row /\ row[x] = "released"
BY DEF AdmissionRoom
-----------------------------------------------------------------------------
\* Every column of the two tables keeps its type in every transaction.
THEOREM TypeCorrect == Spec => []TypeOK
<1>1. Init => TypeOK
  BY PolicyAssumption DEF Init, TypeOK, RowState
<1>2. TypeOK /\ [Next]_vars => TypeOK'
  <2> SUFFICES ASSUME TypeOK, [Next]_vars PROVE TypeOK'
    OBVIOUS
  <2> USE DEF TypeOK, RowState
  <2>1. ASSUME NEW r \in Request, NEW q \in Policy, Submit(r, q)
        PROVE  TypeOK'
    BY <2>1 DEF Submit, requestVars, permitVars
  <2>2. ASSUME NEW r \in Request, NEW q \in Policy, Poll(r, q)
        PROVE  TypeOK'
    BY <2>2 DEF Poll, requestVars, permitVars
  <2>3. ASSUME NEW r \in Request, ReleaseResourceRequest(r)
        PROVE  TypeOK'
    BY <2>3 DEF ReleaseResourceRequest, requestVars, permitVars
  <2>4. ASSUME NEW r \in Request, QuarantineResourceRequest(r)
        PROVE  TypeOK'
    BY <2>4 DEF QuarantineResourceRequest, requestVars, permitVars
  <2>5. ASSUME NEW r \in Request, ResolveQuarantinedResourceRequest(r)
        PROVE  TypeOK'
    BY <2>5 DEF ResolveQuarantinedResourceRequest, requestVars, permitVars
  <2>6. ASSUME NEW lost \in SUBSET Request, NEW settled \in SUBSET lost, RecoverRequests(lost, settled)
        PROVE  TypeOK'
    BY <2>6 DEF RecoverRequests, requestVars, permitVars
  <2>7. ASSUME NEW p \in Permit, NEW r \in Request \cup {NoParent}, NEW q \in Policy, SubmitCapacity(p, r, q)
        PROVE  TypeOK'
    BY <2>7 DEF SubmitCapacity, requestVars, permitVars
  <2>8. ASSUME NEW p \in Permit, NEW q \in Policy, PollCapacity(p, q)
        PROVE  TypeOK'
    BY <2>8 DEF PollCapacity, requestVars, permitVars
  <2>9. ASSUME NEW p \in Permit, ReleaseCapacity(p)
        PROVE  TypeOK'
    BY <2>9 DEF ReleaseCapacity, requestVars, permitVars
  <2>10. ASSUME NEW p \in Permit, QuarantineCapacity(p)
        PROVE  TypeOK'
    BY <2>10 DEF QuarantineCapacity, requestVars, permitVars
  <2>11. ASSUME NEW dead \in SUBSET Permit, ReleaseProcessCapacity(dead)
        PROVE  TypeOK'
    BY <2>11 DEF ReleaseProcessCapacity, requestVars, permitVars
  <2>12. CASE UNCHANGED vars
    BY <2>12 DEF vars, requestVars, permitVars
  <2> QED
    BY <2>1, <2>2, <2>3, <2>4, <2>5, <2>6, <2>7, <2>8, <2>9, <2>10, <2>11, <2>12, ZenonT(30)
    DEF Next, ReserveResourceClaims, ReserveCapacity
<1> QED
  BY <1>1, <1>2, PTL DEF Spec
-----------------------------------------------------------------------------
\* A step keeps every unsettled permit under a fenced parent.
LEMMA ChildrenStep ==
    ASSUME TypeOK, ChildrenFenced, [Next]_vars
    PROVE  ChildrenFenced'
<1> USE DEF TypeOK, RowState, ChildrenFenced, Children, Held
<1>1. ASSUME NEW r \in Request, NEW q \in Policy, Submit(r, q)
      PROVE  ChildrenFenced'
  BY <1>1, RoomReleased DEF Submit, requestVars, permitVars
<1>2. ASSUME NEW r \in Request, NEW q \in Policy, Poll(r, q)
      PROVE  ChildrenFenced'
  BY <1>2, ParentAssumption DEF Poll, requestVars, permitVars
<1>3. ASSUME NEW r \in Request, ReleaseResourceRequest(r)
      PROVE  ChildrenFenced'
  BY <1>3, ParentAssumption DEF ReleaseResourceRequest, requestVars, permitVars
<1>4. ASSUME NEW r \in Request, QuarantineResourceRequest(r)
      PROVE  ChildrenFenced'
  BY <1>4, ParentAssumption DEF QuarantineResourceRequest, requestVars, permitVars
<1>5. ASSUME NEW r \in Request, ResolveQuarantinedResourceRequest(r)
      PROVE  ChildrenFenced'
  BY <1>5, ParentAssumption DEF ResolveQuarantinedResourceRequest, requestVars, permitVars
<1>6. ASSUME NEW lost \in SUBSET Request, NEW settled \in SUBSET lost, RecoverRequests(lost, settled)
      PROVE  ChildrenFenced'
  BY <1>6, ParentAssumption DEF RecoverRequests, requestVars, permitVars
<1>7. ASSUME NEW p \in Permit, NEW r \in Request \cup {NoParent}, NEW q \in Policy, SubmitCapacity(p, r, q)
      PROVE  ChildrenFenced'
  BY <1>7, RoomReleased, ParentAssumption DEF SubmitCapacity, CapabilityLive, requestVars, permitVars
<1>8. ASSUME NEW p \in Permit, NEW q \in Policy, PollCapacity(p, q)
      PROVE  ChildrenFenced'
  BY <1>8, ParentAssumption DEF PollCapacity, CapabilityLive, requestVars, permitVars
<1>9. ASSUME NEW p \in Permit, ReleaseCapacity(p)
      PROVE  ChildrenFenced'
  BY <1>9, ParentAssumption DEF ReleaseCapacity, requestVars, permitVars
<1>10. ASSUME NEW p \in Permit, QuarantineCapacity(p)
      PROVE  ChildrenFenced'
  BY <1>10, ParentAssumption DEF QuarantineCapacity, requestVars, permitVars
<1>11. ASSUME NEW dead \in SUBSET Permit, ReleaseProcessCapacity(dead)
      PROVE  ChildrenFenced'
  BY <1>11, ParentAssumption DEF ReleaseProcessCapacity, requestVars, permitVars
<1>12. CASE UNCHANGED vars
  BY <1>12 DEF vars, requestVars, permitVars
<1> QED
  BY <1>1, <1>2, <1>3, <1>4, <1>5, <1>6, <1>7, <1>8, <1>9, <1>10, <1>11, <1>12, ZenonT(30)
  DEF Next, ReserveResourceClaims, ReserveCapacity

(***************************************************************************)
(* A permit that is not settled always has a fenced parent row: a parent   *)
(* cannot be released while a linked permit is unresolved.                 *)
(***************************************************************************)
THEOREM ChildrenAlwaysFenced == Spec => []ChildrenFenced
<1>1. Init => ChildrenFenced
  BY DEF Init, ChildrenFenced, Children
<1>2. TypeOK /\ ChildrenFenced /\ [Next]_vars => ChildrenFenced'
  BY ChildrenStep
<1> QED
  BY <1>1, <1>2, TypeCorrect, PTL DEF Spec
-----------------------------------------------------------------------------
\* Seen through Held, a transaction is a step of the abstract fence.
LEMMA FenceStep ==
    ASSUME TypeOK, ChildrenFenced, [Next]_vars
    PROVE  [Fence!Next]_Held
<1> USE DEF TypeOK, RowState, Held
<1>a. ASSUME Held' \subseteq Held PROVE [Fence!Next]_Held
  <2> DEFINE gone == Held \ Held'
  <2>1. gone \in SUBSET Request
    OBVIOUS
  <2>2. Held' = Held \ gone
    BY <1>a
  <2> HIDE DEF gone
  <2> QED
    BY <2>1, <2>2 DEF Fence!Next, Fence!Release
<1>1. ASSUME NEW r \in Request, NEW q \in Policy, Submit(r, q)
      PROVE  [Fence!Next]_Held
  <2>1. PICK gone \in AdmissionRoom(state, ticket) :
          LET st == [x \in Request |-> IF x \in gone THEN "absent" ELSE state[x]]
              age == [ticket EXCEPT ![r] = nextTicket]
          IN  state' = [st EXCEPT ![r] = IF Blockers(r, q, st, age) = {}
                                         THEN "active" ELSE "pending"]
    BY <1>1, ZenonT(30) DEF Submit
  <2> DEFINE st == [x \in Request |-> IF x \in gone THEN "absent" ELSE state[x]]
             age == [ticket EXCEPT ![r] = nextTicket]
  <2>2. \A x \in Request : x \in Held <=> st[x] \in {"active", "quarantined"}
    BY RoomReleased
  <2>3. CASE Blockers(r, q, st, age) = {}
    <3>0. state' = [st EXCEPT ![r] = "active"]
      BY <2>1, <2>3
    <3>a. st \in [Request -> RowState]
      OBVIOUS
    <3>b. state[r] = "absent"
      BY <1>1 DEF Submit
    <3>1. r \notin Held /\ Held' = Held \cup {r}
      <4> HIDE DEF st
      <4>1. \A x \in Request : state'[x] = IF x = r THEN "active" ELSE st[x]
        BY <3>0, <3>a
      <4> QED
        BY <2>2, <3>b, <4>1
    <3>2. \A s \in Held : ~ Conflict(r, s)
      BY <2>2, <2>3, <3>1, ZenonT(30) DEF Blockers
    <3> QED
      BY <3>1, <3>2 DEF Fence!Next, Fence!Acquire
  <2>4. CASE Blockers(r, q, st, age) # {}
    BY <1>1, <1>a, <2>1, <2>2, <2>4, ZenonT(30) DEF Submit
  <2> QED
    BY <2>3, <2>4, ZenonT(30)
<1>2. ASSUME NEW r \in Request, NEW q \in Policy, Poll(r, q)
      PROVE  [Fence!Next]_Held
  <2>1. r \notin Held /\ Held' = Held \cup {r}
    BY <1>2 DEF Poll
  <2>2. \A s \in Held : ~ Conflict(r, s)
    BY <1>2, <2>1 DEF Poll, Blockers
  <2> QED
    BY <2>1, <2>2 DEF Fence!Next, Fence!Acquire
<1>3. ASSUME NEW r \in Request, ReleaseResourceRequest(r)
      PROVE  [Fence!Next]_Held
  BY <1>3, <1>a DEF ReleaseResourceRequest, ChildrenFenced
<1>4. ASSUME NEW r \in Request, QuarantineResourceRequest(r)
      PROVE  [Fence!Next]_Held
  BY <1>4, <1>a DEF QuarantineResourceRequest, requestVars, permitVars
<1>5. ASSUME NEW r \in Request, ResolveQuarantinedResourceRequest(r)
      PROVE  [Fence!Next]_Held
  BY <1>5, <1>a DEF ResolveQuarantinedResourceRequest, requestVars, permitVars
<1>6. ASSUME NEW lost \in SUBSET Request, NEW settled \in SUBSET lost, RecoverRequests(lost, settled)
      PROVE  [Fence!Next]_Held
  BY <1>6, <1>a, ZenonT(30) DEF RecoverRequests, requestVars, permitVars
<1>7. ASSUME NEW p \in Permit, NEW r \in Request \cup {NoParent}, NEW q \in Policy, SubmitCapacity(p, r, q)
      PROVE  [Fence!Next]_Held
  BY <1>7, <1>a DEF SubmitCapacity, requestVars, permitVars
<1>8. ASSUME NEW p \in Permit, NEW q \in Policy, PollCapacity(p, q)
      PROVE  [Fence!Next]_Held
  BY <1>8, <1>a DEF PollCapacity, requestVars, permitVars
<1>9. ASSUME NEW p \in Permit, ReleaseCapacity(p)
      PROVE  [Fence!Next]_Held
  BY <1>9, <1>a DEF ReleaseCapacity, requestVars, permitVars
<1>10. ASSUME NEW p \in Permit, QuarantineCapacity(p)
      PROVE  [Fence!Next]_Held
  BY <1>10, <1>a DEF QuarantineCapacity, requestVars, permitVars
<1>11. ASSUME NEW dead \in SUBSET Permit, ReleaseProcessCapacity(dead)
      PROVE  [Fence!Next]_Held
  BY <1>11, <1>a DEF ReleaseProcessCapacity, requestVars, permitVars
<1>12. CASE UNCHANGED vars
  BY <1>12 DEF vars, requestVars, permitVars
<1> QED
  BY <1>1, <1>2, <1>3, <1>4, <1>5, <1>6, <1>7, <1>8, <1>9, <1>10, <1>11, <1>12, ZenonT(30)
  DEF Next, ReserveResourceClaims, ReserveCapacity

(***************************************************************************)
(* The admission tables implement the abstract fence.                      *)
(***************************************************************************)
THEOREM AdmissionImplementsFence == Spec => ImplementsFence
<1>1. Init => Fence!Init
  BY DEF Init, Fence!Init, Held
<1>2. TypeOK /\ ChildrenFenced /\ [Next]_vars => [Fence!Next]_Held
  BY FenceStep
<1> QED
  BY <1>1, <1>2, TypeCorrect, ChildrenAlwaysFenced, PTL
  DEF Spec, ImplementsFence, Fence!Spec

(***************************************************************************)
(* Two requests that fence their claims never conflict, whatever the       *)
(* interleaving of reservations, releases, quarantines and recoveries.     *)
(***************************************************************************)
THEOREM MutualExclusion == Spec => []HeldExclusive
<1>1. Init => HeldExclusive
  BY DEF Init, HeldExclusive, Held
<1>2. HeldExclusive /\ [Fence!Next]_Held => HeldExclusive'
  <2> SUFFICES ASSUME HeldExclusive, [Fence!Next]_Held PROVE HeldExclusive'
    OBVIOUS
  <2>1. \A r, s : Conflict(r, s) <=> Conflict(s, r)
    BY ConflictSymmetric DEF Conflict
  <2>2. ASSUME NEW r \in Request, Fence!Acquire(r) PROVE HeldExclusive'
    BY <2>1, <2>2 DEF HeldExclusive, Fence!Acquire
  <2>3. ASSUME NEW gone, Fence!Release(gone) PROVE HeldExclusive'
    BY <2>3 DEF HeldExclusive, Fence!Release
  <2>4. CASE Held' = Held
    BY <2>4 DEF HeldExclusive
  <2> QED
    BY <2>2, <2>3, <2>4 DEF Fence!Next
<1>3. TypeOK /\ ChildrenFenced /\ [Next]_vars => [Fence!Next]_Held
  BY FenceStep
<1> QED
  BY <1>1, <1>2, <1>3, TypeCorrect, ChildrenAlwaysFenced, PTL DEF Spec
-----------------------------------------------------------------------------
\* A request joins the active ones only beside requests of its own policy, and the policy of a row
\* changes only when the row is inserted.
LEMMA PolicyStep ==
    ASSUME TypeOK, OnePolicy, [Next]_vars
    PROVE  OnePolicy'
<1> USE DEF TypeOK, RowState, OnePolicy
<1>1. ASSUME NEW r \in Request, NEW q \in Policy, Submit(r, q)
      PROVE  OnePolicy'
  <2>1. PICK gone \in AdmissionRoom(state, ticket) :
          LET st == [x \in Request |-> IF x \in gone THEN "absent" ELSE state[x]]
              age == [ticket EXCEPT ![r] = nextTicket]
          IN  state' = [st EXCEPT ![r] = IF Blockers(r, q, st, age) = {}
                                         THEN "active" ELSE "pending"]
    BY <1>1, ZenonT(30) DEF Submit
  <2> DEFINE st == [x \in Request |-> IF x \in gone THEN "absent" ELSE state[x]]
             age == [ticket EXCEPT ![r] = nextTicket]
  <2>2. policy' = [policy EXCEPT ![r] = q]
    BY <1>1 DEF Submit
  <2>3. \A x \in Request : state'[x] = "active" /\ x # r => state[x] = "active" /\ st[x] = "active"
    BY <2>1
  <2>4. CASE Blockers(r, q, st, age) = {}
    <3>1. \A x \in Request \ {r} : st[x] = "active" => policy[x] = q
      <4> HIDE DEF st, age
      <4> QED BY <2>4 DEF Blockers
    <3>2. \A x \in Request : state'[x] = "active" => policy'[x] = q
      BY <2>2, <2>3, <3>1
    <3> QED BY <3>2
  <2>5. CASE Blockers(r, q, st, age) # {}
    <3>1. state'[r] # "active"
      BY <2>1, <2>5
    <3> QED BY <2>2, <2>3, <3>1
  <2> QED BY <2>4, <2>5, ZenonT(30)
<1>2. ASSUME NEW r \in Request, NEW q \in Policy, Poll(r, q)
      PROVE  OnePolicy'
  <2>1. \A x \in Request \ {r} : state[x] = "active" => policy[x] = policy[r]
    BY <1>2 DEF Poll, Blockers
  <2> QED BY <1>2, <2>1 DEF Poll
<1>3. ASSUME policy' = policy,
             \A x \in Request : state'[x] = "active" => state[x] = "active"
      PROVE  OnePolicy'
  BY <1>3
<1>4. ASSUME NEW r \in Request,
             ReleaseResourceRequest(r) \/ QuarantineResourceRequest(r) \/ ResolveQuarantinedResourceRequest(r)
      PROVE  OnePolicy'
  BY <1>3, <1>4 DEF ReleaseResourceRequest, QuarantineResourceRequest, ResolveQuarantinedResourceRequest
<1>5. ASSUME NEW lost \in SUBSET Request, NEW settled \in SUBSET lost, RecoverRequests(lost, settled)
      PROVE  OnePolicy'
  BY <1>3, <1>5 DEF RecoverRequests
<1>6. ASSUME NEW p \in Permit, QuarantineCapacity(p)
      PROVE  OnePolicy'
  BY <1>3, <1>6 DEF QuarantineCapacity
<1>7. CASE UNCHANGED requestVars
  BY <1>3, <1>7 DEF requestVars
<1> QED
  BY <1>1, <1>2, <1>4, <1>5, <1>6, <1>7, ZenonT(30)
  DEF Next, vars, ReserveResourceClaims, ReserveCapacity, SubmitCapacity, PollCapacity, ReleaseCapacity,
      ReleaseProcessCapacity

(***************************************************************************)
(* Requests that are held together are compatible, for any number of       *)
(* processes with any budgets: no two of them conflict, and all that are   *)
(* active were admitted under one policy (reserve_resource_claims).        *)
(***************************************************************************)
THEOREM AlwaysCompatible == Spec => []HeldCompatible
<1>1. Init => OnePolicy
  BY DEF Init, OnePolicy
<1>2. TypeOK /\ OnePolicy /\ [Next]_vars => OnePolicy'
  BY PolicyStep
<1>3. Spec => []OnePolicy
  BY <1>1, <1>2, TypeCorrect, PTL DEF Spec
<1>4. HeldExclusive /\ OnePolicy => HeldCompatible
  BY DEF HeldCompatible
<1> QED
  BY <1>3, <1>4, MutualExclusion, PTL
-----------------------------------------------------------------------------
\* A step that adds no held permit keeps the bound; so does one that adds a permit while there is room.
LEMMA BoundStep ==
    ASSUME TypeOK, CapacityBound, [Next]_vars
    PROVE  CapacityBound'
<1> USE DEF TypeOK, RowState
<1>0. IsFiniteSet(HeldPermits) /\ Cardinality(HeldPermits) \in Nat
  <2>1. HeldPermits \in SUBSET Permit
    BY DEF HeldPermits
  <2> QED BY <2>1, FiniteAssumption, FS_Subset, FS_CardinalityType
<1>a. ASSUME HeldPermits' \subseteq HeldPermits PROVE CapacityBound'
  <2>1. Cardinality(HeldPermits') \in Nat /\ Cardinality(HeldPermits') <= Cardinality(HeldPermits)
    BY <1>0, <1>a, FS_Subset, FS_CardinalityType
  <2> QED BY <1>0, <2>1, LimitAssumption DEF CapacityBound
<1>b. ASSUME NEW p, HeldPermits' = HeldPermits \cup {p}, Cardinality(HeldPermits) < Limit
      PROVE  CapacityBound'
  <2>1. \/ Cardinality(HeldPermits') = Cardinality(HeldPermits)
        \/ Cardinality(HeldPermits') = Cardinality(HeldPermits) + 1
    BY <1>0, <1>b, FS_AddElement
  <2> QED BY <1>0, <1>b, <2>1, LimitAssumption DEF CapacityBound
<1>1. ASSUME NEW p \in Permit, NEW r \in Request \cup {NoParent}, NEW q \in Policy, SubmitCapacity(p, r, q)
      PROVE  CapacityBound'
  <2>1. PICK gone \in AdmissionRoom(permit, seat) :
          LET st == [x \in Permit |-> IF x \in gone THEN "absent" ELSE permit[x]]
              age == [seat EXCEPT ![p] = nextSeat]
          IN  permit' = [st EXCEPT ![p] = IF CapacityFree(p, st, age) THEN "active" ELSE "pending"]
    BY <1>1, ZenonT(30) DEF SubmitCapacity
  <2> DEFINE st == [x \in Permit |-> IF x \in gone THEN "absent" ELSE permit[x]]
             age == [seat EXCEPT ![p] = nextSeat]
  <2>2. {x \in Permit : st[x] \in {"active", "quarantined"}} = HeldPermits
    BY RoomReleased DEF HeldPermits
  <2>3. \A x \in Permit : x # p => permit'[x] = st[x]
    BY <2>1
  <2>4. permit[p] = "absent"
    BY <1>1 DEF SubmitCapacity
  <2>5. p \notin HeldPermits
    BY <2>4 DEF HeldPermits
  <2>6. CASE CapacityFree(p, st, age)
    <3>1. permit'[p] = "active"
      BY <2>1, <2>6
    <3>2. Cardinality(HeldPermits) < Limit
      <4> HIDE DEF st, age
      <4> QED BY <2>2, <2>6 DEF CapacityFree
    <3>3. HeldPermits' = HeldPermits \cup {p}
      <4> HIDE DEF st, age
      <4> QED BY <2>2, <2>3, <3>1 DEF HeldPermits
    <3> QED BY <1>b, <3>2, <3>3
  <2>7. CASE ~ CapacityFree(p, st, age)
    <3>1. permit'[p] = "pending"
      BY <2>1, <2>7
    <3>2. HeldPermits' \subseteq HeldPermits
      <4> HIDE DEF st, age
      <4> QED BY <2>2, <2>3, <3>1 DEF HeldPermits
    <3> QED BY <1>a, <3>2
  <2> QED BY <2>6, <2>7, ZenonT(30)
<1>2. ASSUME NEW p \in Permit, NEW q \in Policy, PollCapacity(p, q)
      PROVE  CapacityBound'
  <2>1. HeldPermits' = HeldPermits \cup {p}
    BY <1>2 DEF PollCapacity, HeldPermits
  <2>2. Cardinality(HeldPermits) < Limit
    BY <1>2 DEF PollCapacity, CapacityFree, HeldPermits
  <2> QED BY <1>b, <2>1, <2>2
<1>3. ASSUME NEW p \in Permit, ReleaseCapacity(p) \/ QuarantineCapacity(p)
      PROVE  CapacityBound'
  BY <1>a, <1>3 DEF ReleaseCapacity, QuarantineCapacity, HeldPermits
<1>4. ASSUME NEW dead \in SUBSET Permit, ReleaseProcessCapacity(dead)
      PROVE  CapacityBound'
  BY <1>a, <1>4 DEF ReleaseProcessCapacity, HeldPermits
<1>5. CASE permit' = permit
  BY <1>a, <1>5 DEF HeldPermits
<1> QED
  BY <1>1, <1>2, <1>3, <1>4, <1>5, ZenonT(30)
  DEF Next, vars, permitVars, ReserveResourceClaims, ReserveCapacity, Submit, Poll, ReleaseResourceRequest,
      QuarantineResourceRequest, ResolveQuarantinedResourceRequest, RecoverRequests

(***************************************************************************)
(* The permits in use never exceed the limit of their category, whatever   *)
(* processes reserve, die, quarantine and recover (reserve_capacity).      *)
(***************************************************************************)
THEOREM NeverOvercommitted == Spec => []CapacityBound
<1>1. Init => CapacityBound
  <2>1. ASSUME Init PROVE HeldPermits = {}
    BY <2>1 DEF Init, HeldPermits
  <2> QED BY <2>1, FS_EmptySet, LimitAssumption DEF CapacityBound
<1>2. TypeOK /\ CapacityBound /\ [Next]_vars => CapacityBound'
  BY BoundStep
<1> QED
  BY <1>1, <1>2, TypeCorrect, PTL DEF Spec
-----------------------------------------------------------------------------
(***************************************************************************)
(* The line of waiting requests never blocks itself: the oldest of them is *)
(* admissible as soon as nothing is held, however claims and policies are  *)
(* mixed and in whatever order the tickets were given                      *)
(* (reserve_resource_claims).                                              *)
(***************************************************************************)
THEOREM QueueNeverStuck == Spec => []SomeoneAdmissible
<1>1. TypeOK => SomeoneAdmissible
  <2> SUFFICES ASSUME TypeOK, Held = {}, NEW first \in Request, state[first] = "pending"
               PROVE  \E r \in Request : state[r] = "pending" /\ Blockers(r, policy[r], state, ticket) = {}
    BY DEF SomeoneAdmissible
  <2> DEFINE waiting == {ticket[r] : r \in {x \in Request : state[x] = "pending"}}
  <2>1. waiting \subseteq Nat /\ waiting # {}
    BY DEF TypeOK
  <2>2. PICK least \in waiting : \A n \in waiting : ~ (<<n, least>> \in OpToRel(<, Nat))
    <3> HIDE DEF waiting
    <3> QED BY <2>1, NatLessThanWellFounded, WFMin, ZenonT(30)
  <2>3. \A n \in waiting : ~ (n < least)
    BY <2>1, <2>2 DEF OpToRel
  <2>4. PICK r \in Request : state[r] = "pending" /\ ticket[r] = least
    BY <2>2
  <2>5. Blockers(r, policy[r], state, ticket) = {}
    <3>1. \A x \in Request : state[x] = "pending" => ~ (ticket[x] < ticket[r])
      BY <2>3, <2>4
    <3>2. \A x \in Request : state[x] \notin {"active", "quarantined"}
      BY DEF Held
    <3> QED BY <3>1, <3>2 DEF Blockers
  <2> QED BY <2>4, <2>5
<1> QED
  BY <1>1, TypeCorrect, PTL
-----------------------------------------------------------------------------
(***************************************************************************)
(* A fence ends only by the release of its request, when no child of it is *)
(* unsettled: eviction never takes a held row and a quarantined one never  *)
(* becomes active again (_make_admission_room, release_resource_request,   *)
(* resolve_quarantined_resource_request).                                  *)
(***************************************************************************)
THEOREM FencesEndReleased == Spec => FenceEndsReleased
<1> DEFINE EndsWell == \A r \in Held :
                          /\ r \in Held' \/ (state'[r] = "released" /\ Children(r)' = {})
                          /\ state[r] = "quarantined" => state'[r] # "active"
<1>1. TypeOK /\ ChildrenFenced /\ [Next]_vars => [EndsWell]_vars
  <2> SUFFICES ASSUME TypeOK, ChildrenFenced, Next PROVE EndsWell
    OBVIOUS
  <2> USE DEF TypeOK, RowState, Held
  <2>a. ASSUME \A r \in Held : state'[r] = state[r] \/ state'[r] = "quarantined" PROVE EndsWell
    BY <2>a
  <2>b. ASSUME UNCHANGED permitVars,
               \A r \in Held : \/ state'[r] \in {state[r], "quarantined"}
                               \/ state'[r] = "released" /\ Children(r) = {}
        PROVE  EndsWell
    BY <2>b DEF permitVars, Children
  <2>1. ASSUME NEW r \in Request, NEW q \in Policy, Submit(r, q) PROVE EndsWell
    BY <2>1, <2>a, RoomReleased DEF Submit
  <2>2. ASSUME NEW r \in Request, NEW q \in Policy, Poll(r, q) PROVE EndsWell
    BY <2>2, <2>a DEF Poll
  <2>3. ASSUME NEW r \in Request,
               ReleaseResourceRequest(r) \/ QuarantineResourceRequest(r) \/ ResolveQuarantinedResourceRequest(r)
        PROVE  EndsWell
    <3>1. UNCHANGED permitVars
      BY <2>3 DEF ReleaseResourceRequest, QuarantineResourceRequest, ResolveQuarantinedResourceRequest
    <3>2. \A x \in Held : \/ state'[x] \in {state[x], "quarantined"}
                          \/ state'[x] = "released" /\ Children(x) = {}
      BY <2>3 DEF ReleaseResourceRequest, QuarantineResourceRequest, ResolveQuarantinedResourceRequest
    <3> QED BY <2>b, <3>1, <3>2
  <2>4. ASSUME NEW lost \in SUBSET Request, NEW settled \in SUBSET lost, RecoverRequests(lost, settled)
        PROVE  EndsWell
    <3>1. UNCHANGED permitVars
      BY <2>4 DEF RecoverRequests
    <3>2. \A x \in Held : \/ state'[x] \in {state[x], "quarantined"}
                          \/ state'[x] = "released" /\ Children(x) = {}
      BY <2>4 DEF RecoverRequests
    <3> QED BY <2>b, <3>1, <3>2
  <2>5. ASSUME NEW p \in Permit, QuarantineCapacity(p) PROVE EndsWell
    BY <2>5, <2>a DEF QuarantineCapacity
  <2>6. CASE UNCHANGED requestVars
    BY <2>6, <2>a DEF requestVars
  <2> QED
    BY <2>1, <2>2, <2>3, <2>4, <2>5, <2>6, ZenonT(30)
    DEF Next, ReserveResourceClaims, ReserveCapacity, SubmitCapacity, PollCapacity, ReleaseCapacity,
        ReleaseProcessCapacity
<1> QED
  BY <1>1, TypeCorrect, ChildrenAlwaysFenced, PTL DEF Spec, FenceEndsReleased
=============================================================================
