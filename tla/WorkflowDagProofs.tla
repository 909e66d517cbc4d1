-------------------------- MODULE WorkflowDagProofs --------------------------
(***************************************************************************)
(* WorkflowDag for any set of steps, executions and attempts, any          *)
(* dependency graph and any number of crashes, expiries and resumes: its   *)
(* types and its dispatch barrier, one lemma per actor with one step per   *)
(* action, then its fences: final outcomes stay, dependencies come first,  *)
(* and nothing acts without a row that keeps conflicting steps out.        *)
(***************************************************************************)
EXTENDS WorkflowDag, TLAPS

\* Most leaves need no arithmetic: they are tried with Zenon first, then with SMT, then with Zenon for longer.
USE ZenonT(3), SMTT(60), ZenonT(30)

\* An attempt belongs to an operation of the workflow.
LEMMA OpOfAttempt == \A a \in Attempt : OpOf(a) \in Op
  BY DEF Attempt, OpOf

\* The freshly queued workflow is well typed.
LEMMA InitType == Init => TypeOK
<1> SUFFICES ASSUME Init PROVE TypeOK
  OBVIOUS
<1>1. cancelled \in BOOLEAN /\ live \in BOOLEAN /\ ref \in [Op -> BOOLEAN]
  BY ZenonT(30) DEF Init
<1>. QED BY <1>1 DEF Init, TypeOK, Settled, Unreleased, Ended, Places

\* A coordinator step keeps every row and thread well typed.
LEMMA CoordinatorType ==
  ASSUME TypeOK, NEW x \in Exec, Coordinator(x)
  PROVE  TypeOK'
<1> USE OpOfAttempt DEF TypeOK, Settled, Unreleased, Ended, Places, Goto, wfVars, opVars,
        threadVars, boundVars
<1>1. CASE ReadQueued(x) BY <1>1 DEF ReadQueued
<1>2. CASE AcquireLease(x)
  <2>1. CASE lease = NoExec \/ ~ live
    <3>1. /\ lease' = x /\ live' = TRUE /\ ex' = [ex EXCEPT ![x] = "leased"]
          /\ UNCHANGED <<wf, cancelled, opVars, threadVars, todo, stop, boundVars>>
      BY <1>2, <2>1 DEF AcquireLease
    <3>2. live' \in BOOLEAN
      BY <3>1, ZenonT(30)
    <3>. QED BY <3>1, <3>2
  <2>2. CASE ~ (lease = NoExec \/ ~ live) BY <1>2, <2>2 DEF AcquireLease
  <2>. QED BY <2>1, <2>2
<1>3. CASE StartRunning(x) BY <1>3 DEF StartRunning
<1>4. ASSUME NEW expired \in BOOLEAN, Observe(x, expired) PROVE TypeOK'
  BY <1>4 DEF Observe
<1>5. ASSUME NEW o \in Op, FootprintFails(x, o) PROVE TypeOK'
  <2>1. CASE st' = [st EXCEPT ![o] = "failed"] /\ tries' = [tries EXCEPT ![o] = @ + 1]
             /\ proof' = [proof EXCEPT ![o] = "no_dispatch"]
             /\ stop' = [stop EXCEPT ![x] = "reason"] /\ ex' = ex
    BY <1>5, <2>1 DEF FootprintFails
  <2>2. CASE Goto(x, "drain") /\ UNCHANGED <<st, tries, proof, stop>>
    BY <1>5, <2>2 DEF FootprintFails
  <2>. QED BY <1>5, <2>1, <2>2 DEF FootprintFails
<1>6. ASSUME NEW o \in Op, ReserveRaises(x, o) PROVE TypeOK'
  BY <1>6 DEF ReserveRaises
<1>7. ASSUME NEW o \in Op, Reserve(x, o) PROVE TypeOK'
  <2>1. PICK a \in AttemptsOf(o) :
             /\ owner' = [owner EXCEPT ![a] = x]
             /\ at' = [at EXCEPT ![a] = "wait"]
             /\ fin' = [fin EXCEPT ![a] = "none"]
             /\ \/ row' = [row EXCEPT ![a] = "active"] /\ Goto(x, "claim") /\ todo' = todo
                \/ /\ row' = [row EXCEPT ![a] = IF a \in Waits(x) THEN row[a] ELSE "pending"]
                   /\ todo' = [todo EXCEPT ![x] = @ \ {o}] /\ ex' = ex
    BY <1>7, ZenonT(30) DEF Reserve
  <2>2. a \in Attempt
    BY DEF AttemptsOf
  <2>3. row' \in [Attempt -> {"none", "released"} \cup Unreleased]
    BY <2>1, <2>2
  <2>4. \A b \in Attempt : at'[b] = "settling" => fin'[b] # "none"
    BY <2>1, <2>2
  <2>5. ex' \in [Exec -> Places] /\ todo' \in [Exec -> SUBSET Op]
    BY <2>1
  <2>. QED BY <1>7, <2>1, <2>2, <2>3, <2>4, <2>5, ZenonT(30) DEF Reserve
<1>8. CASE ClaimReady(x)
  <2>1. PICK a \in Waits(x) :
             \/ /\ row' = [row EXCEPT ![a] = IF @ = "quarantined" THEN @ ELSE "released"]
                /\ at' = [at EXCEPT ![a] = "done"]
                /\ todo' = [todo EXCEPT ![x] = @ \ {OpOf(a)}]
                /\ Goto(x, "admit")
                /\ UNCHANGED <<token, phase, admission>>
             \/ Goto(x, "drain") /\ UNCHANGED <<row, at, todo, token, phase, admission>>
             \/ /\ admission' = [admission EXCEPT ![OpOf(a)] = a]
                /\ token' = [token EXCEPT ![OpOf(a)] = a]
                /\ phase' = [phase EXCEPT ![OpOf(a)] = "reserved"]
                /\ Goto(x, "bind")
                /\ UNCHANGED <<row, at, todo>>
    BY <1>8, ZenonT(30) DEF ClaimReady
  <2>2. a \in Attempt
    BY DEF Waits
  <2>3. UNCHANGED <<wfVars, st, tries, proof, ref, dispatched, owner, fin, child, stop, boundVars>>
    BY <1>8 DEF ClaimReady
  <2>4. row' \in [Attempt -> {"none", "released"} \cup Unreleased]
    BY <2>1, <2>2
  <2>5. at' \in [Attempt -> {"free", "wait", "start", "prepared", "acting", "settling",
                              "release", "done", "dead"} \cup Ended]
    BY <2>1, <2>2
  <2>6. \A b \in Attempt : at'[b] = "settling" => fin'[b] # "none"
    <3>1. \A b \in Attempt : at'[b] = "settling" => at[b] = "settling"
      BY <2>1, <2>2
    <3>. QED BY <3>1, <2>3
  <2>7. ex' \in [Exec -> Places] /\ todo' \in [Exec -> SUBSET Op]
    <3>1. \E place \in {"admit", "drain", "bind"} : ex' = [ex EXCEPT ![x] = place]
      BY <2>1
    <3>2. todo' = todo \/ todo' = [todo EXCEPT ![x] = @ \ {OpOf(a)}]
      BY <2>1
    <3>3. ex' \in [Exec -> Places]
      BY <3>1
    <3>4. todo' \in [Exec -> SUBSET Op]
      BY <3>2
    <3>. QED BY <3>3, <3>4
  <2>8. token' \in [Op -> Attempt \cup {NoAttempt}]
    BY <2>1, <2>2
  <2>9. admission' \in [Op -> Attempt \cup {NoAttempt}]
    BY <2>1, <2>2
  <2>10. phase' \in [Op -> {"none", "reserved", "prepared", "may_dispatch", "settled"}]
    BY <2>1, <2>2
  <2>. QED BY <2>3, <2>4, <2>5, <2>6, <2>7, <2>8, <2>9, <2>10
<1>9. CASE BindAndSubmit(x)
  <2>1. PICK a \in Waits(x) :
             \/ /\ at' = [at EXCEPT ![a] = "start"]
                /\ todo' = [todo EXCEPT ![x] = @ \ {OpOf(a)}]
                /\ Goto(x, "admit")
             \/ Goto(x, "drain") /\ UNCHANGED <<at, todo>>
    BY <1>9, ZenonT(30) DEF BindAndSubmit
  <2>2. a \in Attempt
    BY DEF Waits
  <2>3. UNCHANGED <<wfVars, opVars, row, owner, fin, child, stop, boundVars>>
    BY <1>9 DEF BindAndSubmit
  <2>4. at' \in [Attempt -> {"free", "wait", "start", "prepared", "acting", "settling",
                              "release", "done", "dead"} \cup Ended]
    BY <2>1, <2>2
  <2>5. \A b \in Attempt : at'[b] = "settling" => fin'[b] # "none"
    <3>1. \A b \in Attempt : at'[b] = "settling" => at[b] = "settling"
      BY <2>1, <2>2
    <3>. QED BY <3>1, <2>3
  <2>6. ex' \in [Exec -> Places] /\ todo' \in [Exec -> SUBSET Op]
    <3>1. \E place \in {"admit", "drain"} : ex' = [ex EXCEPT ![x] = place]
      BY <2>1
    <3>2. todo' = todo \/ todo' = [todo EXCEPT ![x] = @ \ {OpOf(a)}]
      BY <2>1
    <3>3. ex' \in [Exec -> Places]
      BY <3>1
    <3>4. todo' \in [Exec -> SUBSET Op]
      BY <3>2
    <3>. QED BY <3>3, <3>4
  <2>. QED BY <2>3, <2>4, <2>5, <2>6
<1>10. CASE Await(x) BY <1>10 DEF Await
<1>11. CASE Conclude(x)
  <2>1. Aggregate(st, admission, row, stop[x] = "no")
          \in {"running", "cancelling", "uncertain", "failed", "cancelled", "completed", "paused"}
    BY DEF Aggregate
  <2>. QED BY <1>11, <2>1 DEF Conclude
<1>12. CASE Drain(x) BY <1>12 DEF Drain
<1>13. CASE ReleaseWaits(x) BY <1>13 DEF ReleaseWaits
<1>14. CASE ReleaseLease(x) BY <1>14 DEF ReleaseLease, Forget
<1>. QED BY <1>1, <1>2, <1>3, <1>4, <1>5, <1>6, <1>7, <1>8, <1>9, <1>10, <1>11, <1>12,
            <1>13, <1>14, ZenonT(30) DEF Coordinator

\* So does a step of an attempt thread.
LEMMA ThreadType ==
  ASSUME TypeOK, NEW a \in Attempt, ThreadStep(a)
  PROVE  TypeOK'
<1> USE OpOfAttempt DEF TypeOK, Settled, Unreleased, Ended, Places, Thread, wfVars, opVars,
        threadVars, execVars, boundVars
<1>1. CASE Prepare(a) BY <1>1 DEF Prepare
<1>2. CASE MayDispatch(a) BY <1>2 DEF MayDispatch
<1>3. CASE AbortBeforeDispatch(a) BY <1>3 DEF AbortBeforeDispatch
<1>4. CASE PersistExternalRef(a) BY <1>4 DEF PersistExternalRef
<1>5. CASE TakeCapacity(a) BY <1>5 DEF TakeCapacity
<1>6. CASE ReturnCapacity(a) BY <1>6 DEF ReturnCapacity
<1>7. CASE FinishAction(a) BY <1>7 DEF FinishAction
<1>8. CASE Complete(a)
  <2>1. /\ Recorded(a, fin[a]) \in {"succeeded", "failed", "uncertain", "cancelled"}
        /\ Proved(a, fin[a]) \in {"retry_safe", "dispatched", "no_dispatch"}
    BY <1>8 DEF Recorded, Proved, Complete
  <2>2. /\ st' = [st EXCEPT ![OpOf(a)] = Recorded(a, fin[a])]
        /\ proof' = [proof EXCEPT ![OpOf(a)] = Proved(a, fin[a])]
        /\ phase' = [phase EXCEPT ![OpOf(a)] = "settled"]
        /\ admission' = [admission EXCEPT ![OpOf(a)] = NoAttempt]
    BY <1>8 DEF Complete
  <2>3. /\ fin' = [fin EXCEPT ![a] = Recorded(a, fin[a])]
        /\ at' = [at EXCEPT ![a] = "release"]
    BY <1>8 DEF Complete
  <2>4. UNCHANGED <<wfVars, token, tries, ref, dispatched, row, owner, child, execVars, boundVars>>
    BY <1>8 DEF Complete
  <2>5. /\ st' \in [Op -> Settled \cup {"created", "running", "uncertain"}]
        /\ proof' \in [Op -> {"none", "no_dispatch", "retry_safe", "dispatched"}]
    BY <2>1, <2>2
  <2>6. /\ phase' \in [Op -> {"none", "reserved", "prepared", "may_dispatch", "settled"}]
        /\ admission' \in [Op -> Attempt \cup {NoAttempt}]
    BY <2>2
  <2>. QED BY <2>1, <2>3, <2>4, <2>5, <2>6
<1>9. CASE LoseOwnership(a)
  <2>1. /\ row' = row \/ row' = [row EXCEPT ![a] = "quarantined"]
        /\ \E place \in Ended : at' = [at EXCEPT ![a] = place]
        /\ fin' = [fin EXCEPT ![a] = "none"]
    BY <1>9, ZenonT(30) DEF LoseOwnership
  <2>2. UNCHANGED <<wfVars, opVars, owner, child, execVars, boundVars>>
    BY <1>9 DEF LoseOwnership
  <2>. QED BY <2>1, <2>2
<1>10. CASE SettleResource(a)
  <2>1. row' = row \/ \E state \in {"released", "quarantined"} : row' = [row EXCEPT ![a] = state]
    BY <1>10, ZenonT(30) DEF SettleResource
  <2>2. /\ \E place \in Ended : at' = [at EXCEPT ![a] = place]
        /\ fin' = [fin EXCEPT ![a] = "none"]
    BY <1>10, ZenonT(30) DEF SettleResource
  <2>3. UNCHANGED <<wfVars, opVars, owner, child, execVars, boundVars>>
    BY <1>10, ZenonT(30) DEF SettleResource
  <2>4. row' \in [Attempt -> {"none", "released"} \cup Unreleased]
    BY <2>1
  <2>5. /\ at' \in [Attempt -> {"free", "wait", "start", "prepared", "acting", "settling",
                               "release", "done", "dead"} \cup Ended]
        /\ \A b \in Attempt : at'[b] = "settling" => at[b] = "settling" /\ b # a
    BY <2>2
  <2>6. /\ fin' \in [Attempt -> {"none", "succeeded", "failed", "retry", "uncertain", "cancelled"}]
        /\ \A b \in Attempt : b # a => fin'[b] = fin[b]
    BY <2>2
  <2>. QED BY <2>3, <2>4, <2>5, <2>6
<1>. QED BY <1>1, <1>2, <1>3, <1>4, <1>5, <1>6, <1>7, <1>8, <1>9, <1>10, ZenonT(30) DEF ThreadStep

\* The workflow state computed from settled steps is a workflow state.
LEMMA AggregateType ==
  ASSUME NEW states, NEW admissions, NEW rows, NEW keep
  PROVE  Aggregate(states, admissions, rows, keep)
           \in {"running", "cancelling", "uncertain", "failed", "cancelled", "completed", "paused"}
BY DEF Aggregate

\* So do crashes, expired leases, cancellation and the operator's resolutions.
LEMMA EnvironmentType ==
  ASSUME TypeOK,
         (\E x \in Exec : Crash(x)) \/ ExpireLease \/ RecoverInterrupted \/ Operator
  PROVE  TypeOK'
<1> USE OpOfAttempt DEF TypeOK, Settled, Unreleased, Ended, Places, wfVars, opVars, threadVars,
        execVars, boundVars
<1>1. ASSUME NEW x \in Exec, Crash(x) PROVE TypeOK'
  <2>1. UNCHANGED <<wfVars, opVars, row, owner, child, expiries, resumes>>
    BY <1>1, ZenonT(30) DEF Crash
  <2>c. crashes' \in Nat
    BY <1>1 DEF Crash
  <2>2. \A a \in Attempt : (at'[a] = at[a] /\ fin'[a] = fin[a]) \/ at'[a] = "dead"
    BY <1>1 DEF Crash
  <2>3. at' \in [Attempt -> {"free", "wait", "start", "prepared", "acting", "settling",
                              "release", "done", "dead"} \cup Ended]
    BY <1>1 DEF Crash
  <2>4. fin' \in [Attempt -> {"none", "succeeded", "failed", "retry", "uncertain", "cancelled"}]
    BY <1>1 DEF Crash
  <2>5. /\ ex' \in [Exec -> Places] /\ todo' \in [Exec -> SUBSET Op]
        /\ stop' \in [Exec -> {"no", "reason", "signal"}]
    <3>1. /\ ex' = [ex EXCEPT ![x] = "dead"] /\ todo' = [todo EXCEPT ![x] = {}]
          /\ stop' = [stop EXCEPT ![x] = "no"]
      BY <1>1, ZenonT(30) DEF Crash, Goto, Forget
    <3>. QED BY <3>1
  <2>6. \A a \in Attempt : at'[a] = "settling" => fin'[a] # "none"
    BY <2>2
  <2>. QED BY <2>1, <2>c, <2>3, <2>4, <2>5, <2>6
<1>2. CASE ExpireLease
  <2>1. live' = FALSE /\ live' \in BOOLEAN
    BY <1>2, ZenonT(30) DEF ExpireLease
  <2>. QED BY <1>2, <2>1 DEF ExpireLease
<1>3. CASE RecoverInterrupted
  <2>1. live' = FALSE /\ live' \in BOOLEAN
    BY <1>3, ZenonT(30) DEF RecoverInterrupted
  <2>2. \A o \in Op : RecoveredState(o) \in Settled \cup {"created", "running", "uncertain"}
    BY DEF RecoveredState
  <2>3. \A a \in Attempt : RecoveredRow(a) \in {"none", "released"} \cup Unreleased
    BY DEF RecoveredRow
  <2>4. wf' \in {"running", "cancelling", "uncertain", "failed", "cancelled", "completed", "paused"}
    BY <1>3, AggregateType, ZenonT(30) DEF RecoverInterrupted
  <2>5. /\ st' \in [Op -> Settled \cup {"created", "running", "uncertain"}]
        /\ row' \in [Attempt -> {"none", "released"} \cup Unreleased]
    BY <1>3, <2>2, <2>3 DEF RecoverInterrupted
  <2>6. phase' \in [Op -> {"none", "reserved", "prepared", "may_dispatch", "settled"}]
    BY <1>3 DEF RecoverInterrupted
  <2>7. admission' \in [Op -> Attempt \cup {NoAttempt}]
    BY <1>3 DEF RecoverInterrupted
  <2>. QED BY <1>3, <2>1, <2>4, <2>5, <2>6, <2>7, ZenonT(30) DEF RecoverInterrupted
<1>4. CASE RequestCancel
  <2>1. cancelled' = TRUE /\ cancelled' \in BOOLEAN
    BY <1>4, ZenonT(30) DEF RequestCancel
  <2>. QED BY <1>4, <2>1 DEF RequestCancel
<1>5. CASE Resume
  BY <1>5 DEF Resume
<1>6. ASSUME NEW o \in Op,
             NEW final \in {"succeeded", "failed", "uncertain", "acknowledged", "unresolvable"},
             ResolveUncertain(o, final)
      PROVE  TypeOK'
  <2>1. wf' \in {"running", "cancelling", "uncertain", "failed", "cancelled", "completed", "paused"}
    BY <1>6, AggregateType, ZenonT(30) DEF ResolveUncertain
  <2>2. admission' \in [Op -> Attempt \cup {NoAttempt}]
    BY <1>6 DEF ResolveUncertain
  <2>. QED BY <1>6, <2>1, <2>2, ZenonT(30) DEF ResolveUncertain
<1>7. ASSUME NEW a \in Attempt, ResolveQuarantined(a) PROVE TypeOK'
  <2> DEFINE rows == [row EXCEPT ![a] = "released"]
             kept == [o \in Op |-> IF st[o] \in Settled /\ ~ HasRequest(rows, o)
                                   THEN NoAttempt ELSE admission[o]]
  <2>1. \/ admission' = kept /\ wf' = Aggregate(st, kept, rows, FALSE)
        \/ admission' = admission /\ wf' = wf
    BY <1>7, ZenonT(30) DEF ResolveQuarantined
  <2>2. kept \in [Op -> Attempt \cup {NoAttempt}]
    OBVIOUS
  <2>3. Aggregate(st, kept, rows, FALSE)
          \in {"running", "cancelling", "uncertain", "failed", "cancelled", "completed", "paused"}
    BY AggregateType, ZenonT(30)
  <2>4. row' = rows /\ UNCHANGED <<cancelled, lease, live, st, phase, token, tries, proof, ref,
                                  dispatched, owner, at, fin, child, execVars, boundVars>>
    BY <1>7 DEF ResolveQuarantined
  <2> HIDE DEF kept
  <2>. QED BY <2>1, <2>2, <2>3, <2>4, ZenonT(30)
<1>. QED BY <1>1, <1>2, <1>3, <1>4, <1>5, <1>6, <1>7, ZenonT(30) DEF Operator

\* No step leaves the types.
LEMMA TypeStep == TypeOK /\ [Next]_vars => TypeOK'
<1> SUFFICES ASSUME TypeOK, [Next]_vars PROVE TypeOK'
  OBVIOUS
<1>1. CASE UNCHANGED vars
  BY <1>1 DEF vars, wfVars, opVars, threadVars, execVars, boundVars, TypeOK
<1>2. CASE Next
  BY <1>2, CoordinatorType, ThreadType, EnvironmentType DEF Next
<1>. QED BY <1>1, <1>2

\* Every store row, thread and coordinator keeps a value of its type.
THEOREM TypeCorrect == Spec => []TypeOK
BY InitType, TypeStep, PTL DEF Spec
-----------------------------------------------------------------------------
\* Resolving a quarantined attempt empties admission slots and fills none.
LEMMA ResolveQuarantinedSlots ==
  ASSUME TypeOK, NEW a \in Attempt, ResolveQuarantined(a)
  PROVE  token' = token /\ \A p \in Op : admission'[p] \in {admission[p], NoAttempt}
<1>1. CASE wf = "uncertain" BY <1>1 DEF ResolveQuarantined
<1>2. CASE wf # "uncertain" BY <1>2 DEF ResolveQuarantined
<1>. QED BY <1>1, <1>2

\* An admission slot always names the attempt whose token the row carries.
LEMMA TokenStep ==
  ASSUME TypeOK, AdmissionHasToken, Next
  PROVE  AdmissionHasToken'
<1> USE OpOfAttempt, BoundAssumption
    DEF TypeOK, AdmissionHasToken, wfVars, opVars, threadVars, execVars, boundVars
<1>1. ASSUME NEW x \in Exec, Coordinator(x) PROVE AdmissionHasToken'
  <2>1. CASE ClaimReady(x)
    <3>1. PICK a \in Waits(x) :
             \/ UNCHANGED <<token, admission>>
             \/ /\ admission' = [admission EXCEPT ![OpOf(a)] = a]
                /\ token' = [token EXCEPT ![OpOf(a)] = a]
      BY <2>1, ZenonT(30) DEF ClaimReady
    <3>2. a \in Attempt
      BY DEF Waits
    <3>. QED BY <3>1, <3>2
  <2>2. CASE ~ ClaimReady(x)
    <3>1. UNCHANGED <<token, admission>>
      BY <1>1, <2>2, ZenonT(30) DEF Coordinator, ReadQueued, AcquireLease, StartRunning, Observe,
         FootprintFails, ReserveRaises, Reserve, BindAndSubmit, Await, Conclude, Drain,
         ReleaseWaits, ReleaseLease
    <3>. QED BY <3>1
  <2>. QED BY <2>1, <2>2
<1>2. ASSUME NEW a \in Attempt, ThreadStep(a) PROVE AdmissionHasToken'
  <2>1. /\ token' = token
        /\ admission' = admission \/ admission' = [admission EXCEPT ![OpOf(a)] = NoAttempt]
    BY <1>2 DEF ThreadStep, Prepare, MayDispatch, AbortBeforeDispatch, PersistExternalRef,
       TakeCapacity, ReturnCapacity, FinishAction, Complete, LoseOwnership, SettleResource
  <2>. QED BY <2>1
<1>3. CASE Resume
  BY <1>3 DEF Resume, SafeResume
<1>4. CASE (\E x \in Exec : Crash(x)) \/ ExpireLease \/ RequestCancel
  BY <1>4 DEF Crash, ExpireLease, RequestCancel
<1>5. CASE RecoverInterrupted
  <2>1. token' = token /\ \A o \in Op : admission'[o] \in {admission[o], NoAttempt}
    BY <1>5 DEF RecoverInterrupted
  <2>. QED BY <2>1
<1>6. ASSUME NEW o \in Op, NEW final, ResolveUncertain(o, final) PROVE AdmissionHasToken'
  <2>1. token' = token /\ \A p \in Op : admission'[p] \in {admission[p], NoAttempt}
    BY <1>6 DEF ResolveUncertain
  <2>. QED BY <2>1
<1>7. ASSUME NEW a \in Attempt, ResolveQuarantined(a) PROVE AdmissionHasToken'
  <2>1. token' = token /\ \A p \in Op : admission'[p] \in {admission[p], NoAttempt}
    BY <1>7, ResolveQuarantinedSlots
  <2>. QED BY <2>1
<1>. QED BY <1>1, <1>2, <1>3, <1>4, <1>5, <1>6, <1>7 DEF Next, Operator

\* An execution that has not asked for the lease holds none and owns no thread.
LEMMA FreshStep ==
  ASSUME TypeOK, FreshExecution, Next
  PROVE  FreshExecution'
<1>t. DOMAIN ex = Exec /\ DOMAIN owner = Attempt
  BY DEF TypeOK
<1> USE <1>t DEF FreshExecution, wfVars, opVars, threadVars, execVars, boundVars, Goto
<1>a. ASSUME UNCHANGED <<lease, owner>>,
             \A z \in Exec : ex'[z] \in {"idle", "read"} => ex[z] \in {"idle", "read"}
      PROVE  FreshExecution'
  BY <1>a
<1>1. ASSUME NEW x \in Exec, Coordinator(x) PROVE FreshExecution'
  <2>1. ASSUME NEW o \in Op, Reserve(x, o) PROVE FreshExecution'
    <3>1. ex[x] = "admit" /\ lease' = lease /\ (ex' = ex \/ ex' = [ex EXCEPT ![x] = "claim"])
          /\ \E a \in Attempt : owner' = [owner EXCEPT ![a] = x]
      BY <2>1, ZenonT(30) DEF Reserve, Trying, AttemptsOf
    <3>. QED BY <3>1
  <2>2. CASE ReadQueued(x)
    BY <2>2 DEF ReadQueued
  <2>3. CASE AcquireLease(x)
    <3>1. owner' = owner /\ \E place \in {"leased", "done"} : ex' = [ex EXCEPT ![x] = place]
      BY <2>3 DEF AcquireLease
    <3>2. lease' \in {lease, x}
      BY <2>3 DEF AcquireLease
    <3>. QED BY <3>1, <3>2
  <2>4. CASE ReleaseLease(x)
    <3>1. owner' = owner /\ ex' = [ex EXCEPT ![x] = "done"] /\ lease' \in {lease, NoExec}
      BY <2>4 DEF ReleaseLease
    <3>. QED BY <3>1, BoundAssumption
  <2>5. CASE StartRunning(x) \/ Conclude(x)
    BY <2>5, <1>a DEF StartRunning, Conclude
  <2>6. CASE (\E expired \in BOOLEAN : Observe(x, expired)) \/ Drain(x) \/ ReleaseWaits(x)
    BY <2>6, <1>a DEF Observe, Drain, ReleaseWaits
  <2>7. CASE Await(x)
    <3>1. UNCHANGED <<lease, owner>>
          /\ \E place \in {"drain", "observe"} : ex' = [ex EXCEPT ![x] = place]
      BY <2>7, ZenonT(30) DEF Await
    <3>. QED BY <3>1
  <2>8. CASE ClaimReady(x)
    <3>1. UNCHANGED <<lease, owner>>
          /\ \E place \in {"admit", "drain", "bind"} : ex' = [ex EXCEPT ![x] = place]
      BY <2>8 DEF ClaimReady
    <3>. QED BY <3>1
  <2>9. CASE BindAndSubmit(x)
    <3>1. UNCHANGED <<lease, owner>>
          /\ \E place \in {"admit", "drain"} : ex' = [ex EXCEPT ![x] = place]
      BY <2>9 DEF BindAndSubmit
    <3>. QED BY <3>1
  <2>10. ASSUME NEW o \in Op, FootprintFails(x, o) \/ ReserveRaises(x, o) PROVE FreshExecution'
    <3>1. UNCHANGED <<lease, owner>> /\ (ex' = ex \/ ex' = [ex EXCEPT ![x] = "drain"])
      BY <2>10 DEF FootprintFails, ReserveRaises
    <3>. QED BY <3>1
  <2>. QED BY <1>1, <2>1, <2>2, <2>3, <2>4, <2>5, <2>6, <2>7, <2>8, <2>9, <2>10 DEF Coordinator
<1>2. ASSUME NEW a \in Attempt, ThreadStep(a) PROVE FreshExecution'
  <2>1. UNCHANGED <<lease, owner, ex>>
    BY <1>2, ZenonT(30) DEF ThreadStep, Prepare, MayDispatch, AbortBeforeDispatch,
       PersistExternalRef, TakeCapacity, ReturnCapacity, FinishAction, Complete, LoseOwnership, SettleResource
  <2>. QED BY <2>1, <1>a
<1>3. CASE (\E x \in Exec : Crash(x)) \/ ExpireLease \/ RequestCancel \/ Resume
  BY <1>3, <1>a DEF Crash, ExpireLease, RequestCancel, Resume
<1>4. CASE RecoverInterrupted
  <2>1. UNCHANGED <<owner, ex>> /\ lease' = NoExec
    BY <1>4, ZenonT(30) DEF RecoverInterrupted
  <2>. QED BY <2>1, BoundAssumption
<1>5. ASSUME NEW o \in Op, NEW final, ResolveUncertain(o, final) PROVE FreshExecution'
  BY <1>5, <1>a DEF ResolveUncertain
<1>6. ASSUME NEW a \in Attempt, ResolveQuarantined(a) PROVE FreshExecution'
  BY <1>6, <1>a DEF ResolveQuarantined
<1>. QED BY <1>1, <1>2, <1>3, <1>4, <1>5, <1>6 DEF Next, Operator

LeaseKept == \A z : LeaseHeld(z)' => LeaseHeld(z)

\* A step that leaves the lease row alone gives no execution a lease.
LEMMA LeaseFrame == ASSUME lease' = lease, live' = live PROVE LeaseKept
BY DEF LeaseKept, LeaseHeld

\* The domains of the functions that actions update.
LEMMA Domains ==
  ASSUME TypeOK
  PROVE  /\ DOMAIN st = Op /\ DOMAIN phase = Op /\ DOMAIN proof = Op
         /\ DOMAIN admission = Op /\ DOMAIN dispatched = Op
         /\ DOMAIN at = Attempt /\ DOMAIN owner = Attempt /\ DOMAIN fin = Attempt
         /\ DOMAIN ex = Exec /\ DOMAIN todo = Exec
BY DEF TypeOK
-----------------------------------------------------------------------------
(* The dispatch barrier.                                                   *)

(***************************************************************************)
(* DispatchInv for one operation, thread or coordinator, and what a step   *)
(* may do without disturbing it.                                           *)
(***************************************************************************)
Undispatched(o) == PendingUndispatched(o) /\ dispatched[o] <= 1

Selecting == {"admit", "claim", "bind"}

\* An operation that keeps its state, or leaves the pending ones, stays undispatched.
LEMMA UndispatchedFrame ==
  ASSUME DispatchInv, NEW p \in Effectful, dispatched'[p] = dispatched[p],
         \/ st'[p] = st[p] /\ proof'[p] = proof[p]
         \/ st'[p] \notin {"created", "failed"}
         \/ dispatched[p] = 0
  PROVE  Undispatched(p)'
BY DEF DispatchInv, AtMostOneDispatch, Undispatched, PendingUndispatched

\* A thread that only ends, or whose fence only falls, stays fenced.
LEMMA FencedFrame ==
  ASSUME DispatchInv, LeaseKept, NEW b \in Attempt, OpOf(b) \in Effectful,
         dispatched'[OpOf(b)] = dispatched[OpOf(b)], phase'[OpOf(b)] = phase[OpOf(b)],
         owner'[b] = owner[b],
         \/ at'[b] = at[b] /\ fin'[b] = fin[b]
         \/ at'[b] \notin {"wait", "start", "prepared", "acting", "settling"},
         admission'[OpOf(b)] = b => admission[OpOf(b)] = b
  PROVE  FencedThread(b)'
BY DEF DispatchInv, FencedThread, LeaseKept

\* A pass that selects no new operation, and keeps its waiting attempts, stays harmless.
LEMMA SelectedFrame ==
  ASSUME TypeOK, DispatchInv, LeaseKept, NEW p \in Effectful, NEW y \in Exec,
         dispatched'[p] = dispatched[p], admission'[p] \in {admission[p], NoAttempt},
         ex'[y] \in Selecting /\ p \in todo'[y] =>
            /\ ex[y] \in Selecting /\ p \in todo[y]
            /\ \A a \in Attempt : OpOf(a) = p /\ at[a] = "wait" /\ owner[a] = y =>
                  at'[a] = "wait" /\ owner'[a] = y
  PROVE  SelectedUndispatched(y, p)'
<1> SUFFICES ASSUME ex'[y] \in Selecting, LeaseHeld(y)', p \in todo'[y]
             PROVE  /\ dispatched'[p] = 0
                    /\ admission'[p] # NoAttempt =>
                          at'[admission'[p]] = "wait" /\ owner'[admission'[p]] = y
  BY DEF SelectedUndispatched, Selecting
<1>1. ex[y] \in Selecting /\ p \in todo[y] /\ LeaseHeld(y)
  BY DEF LeaseKept
<1>2. /\ dispatched[p] = 0
      /\ admission[p] # NoAttempt => at[admission[p]] = "wait" /\ owner[admission[p]] = y
  <2>1. SelectedUndispatched(y, p)
    BY ZenonT(30) DEF DispatchInv
  <2>. QED BY <1>1, <2>1 DEF SelectedUndispatched, Selecting
<1>3. admission[p] # NoAttempt => admission[p] \in Attempt /\ OpOf(admission[p]) = p
  <2>1. AdmissionHasToken
    BY DEF DispatchInv
  <2>2. admission[p] \in Attempt \cup {NoAttempt} /\ p \in Op
    BY KindAssumption DEF TypeOK
  <2>. QED BY <2>1, <2>2 DEF AdmissionHasToken
<1>. QED BY <1>2, <1>3

(***************************************************************************)
(* A step that changes no operation row, no owner and no lease, ends some  *)
(* threads of execution x, and takes operations from x's pass.             *)
(***************************************************************************)
LEMMA QuietDispatch ==
  ASSUME TypeOK, DispatchInv, NEW x \in Exec,
         LeaseKept, UNCHANGED <<phase, dispatched, admission, owner, fin>>,
         \A a \in Attempt : at'[a] = at[a] \/ (owner[a] = x /\ at'[a] \in {"done", "dead"}),
         \A z \in Exec : z # x => ex'[z] = ex[z] /\ todo'[z] = todo[z],
         \/ ex'[x] \notin Selecting
         \/ at' = at /\ todo'[x] \subseteq todo[x] /\ ex[x] \in Selecting,
         NEW p \in Effectful, NEW b \in Attempt, OpOf(b) \in Effectful, NEW y \in Exec,
         st'[p] = st[p] /\ proof'[p] = proof[p]
  PROVE  Undispatched(p)' /\ FencedThread(b)' /\ SelectedUndispatched(y, p)'
<1>1. Undispatched(p)'
  BY UndispatchedFrame
<1>2. FencedThread(b)'
  BY FencedFrame
<1>3. ex'[y] \in Selecting /\ p \in todo'[y] =>
         /\ ex[y] \in Selecting /\ p \in todo[y]
         /\ \A a \in Attempt : OpOf(a) = p /\ at[a] = "wait" /\ owner[a] = y =>
               at'[a] = "wait" /\ owner'[a] = y
  OBVIOUS
<1>4. SelectedUndispatched(y, p)'
  BY <1>3, SelectedFrame
<1>. QED BY <1>1, <1>2, <1>4

\* A coordinator step keeps every conjunct of DispatchInv, action by action.
LEMMA CoordinatorDispatch ==
  ASSUME TypeOK, DispatchInv, NEW x \in Exec, Coordinator(x),
         NEW p \in Effectful, NEW b \in Attempt, OpOf(b) \in Effectful, NEW y \in Exec
  PROVE  Undispatched(p)' /\ FencedThread(b)' /\ SelectedUndispatched(y, p)'
<1> USE DEF wfVars, opVars, threadVars, execVars, boundVars, Goto, Selecting
<1>o. p \in Op /\ OpOf(b) \in Op
  BY OpOfAttempt, KindAssumption
<1>l. lease' = lease /\ live' = live => LeaseKept
  BY LeaseFrame
<1>i. /\ \A o \in Effectful : \A z \in Exec : SelectedUndispatched(z, o)
      /\ AdmissionHasToken
  BY DEF DispatchInv
<1>1. CASE ReadQueued(x) \/ StartRunning(x) \/ Drain(x) \/ Conclude(x)
  <2>1. /\ UNCHANGED <<lease, live, st, proof, phase, dispatched, admission, owner, fin, at, todo>>
        /\ \E place \in {"read", "observe", "finally"} : ex' = [ex EXCEPT ![x] = place]
    BY <1>1 DEF ReadQueued, StartRunning, Drain, Conclude
  <2>. QED BY Domains, <2>1, <1>l, QuietDispatch
<1>2. CASE AcquireLease(x)
  <2>1. /\ UNCHANGED <<st, proof, phase, dispatched, admission, owner, fin, at, todo>>
        /\ ex[x] = "read" /\ \E place \in {"leased", "done"} : ex' = [ex EXCEPT ![x] = place]
    BY <1>2 DEF AcquireLease
  <2>2. (lease' = x /\ live' = TRUE) \/ UNCHANGED <<lease, live>>
    BY <1>2, ZenonT(30) DEF AcquireLease
  <2>3. CASE UNCHANGED <<lease, live>>
    BY <2>1, <2>3, <1>l, QuietDispatch
  <2>4. CASE lease' = x
    <3>1. Undispatched(p)'
      BY <2>1, UndispatchedFrame
    <3>2. owner'[b] # x
      BY <2>1 DEF DispatchInv, FreshExecution
    <3>3. ~ LeaseHeld(owner[b])'
      BY <3>2, <2>4, ZenonT(30) DEF LeaseHeld
    <3>4. FencedThread(b)'
      BY <3>3 DEF FencedThread
    <3>5. ex'[y] \in Selecting => y # x
      BY <2>1
    <3>6. y # x => ~ LeaseHeld(y)'
      BY <2>4, ZenonT(30) DEF LeaseHeld
    <3>7. SelectedUndispatched(y, p)'
      BY <3>5, <3>6 DEF SelectedUndispatched
    <3>. QED BY <3>1, <3>4, <3>7
  <2>. QED BY <2>2, <2>3, <2>4
<1>3. ASSUME NEW expired \in BOOLEAN, Observe(x, expired)
      PROVE  Undispatched(p)' /\ FencedThread(b)' /\ SelectedUndispatched(y, p)'
  <2>1. UNCHANGED <<lease, live, st, proof, phase, dispatched, admission, owner, fin, at>>
    BY <1>3 DEF Observe
  <2>2. \A z \in Exec : z # x => ex'[z] = ex[z] /\ todo'[z] = todo[z]
    <3>1. ex' = [ex EXCEPT ![x] = "admit"] /\ \E ops : todo' = [todo EXCEPT ![x] = ops]
      BY <1>3, ZenonT(30) DEF Observe
    <3>. QED BY <3>1, Domains
  <2>3. p \in todo'[x] => (st[p] = "created" /\ admission[p] = NoAttempt) \/ p \in Transient
    <3>1. todo'[x] \subseteq {o \in Op : st[o] = "created" /\ admission[o] = NoAttempt}
                               \cup {o \in Op : Retryable(o)}
      <4>1. \/ todo' = [todo EXCEPT ![x] = {}]
            \/ todo' = [todo EXCEPT ![x] =
                           {o \in Op : /\ st[o] = "created" /\ admission[o] = NoAttempt
                                       /\ \A q \in Deps[o] : st[q] \in Success}
                           \cup {o \in Op : Retryable(o)}]
        BY <1>3, ZenonT(30) DEF Observe
      <4>. QED BY <4>1, Domains
    <3>. QED BY <3>1 DEF Retryable
  <2>4. LeaseKept
    BY <2>1, <1>l
  <2>5. Undispatched(p)'
    BY <2>1, UndispatchedFrame
  <2>6. FencedThread(b)'
    BY <2>1, <2>4, FencedFrame
  <2>7. CASE y = x
    <3>1. p \in todo'[x] => admission[p] = NoAttempt /\ dispatched[p] = 0
      BY <2>3, KindAssumption DEF DispatchInv, PendingUndispatched
    <3>2. SelectedUndispatched(y, p)'
      BY <3>1, <2>1, <2>7 DEF SelectedUndispatched
    <3>. QED BY <3>2, <2>5, <2>6
  <2>8. CASE y # x
    <3>1. SelectedUndispatched(y, p)'
      BY <2>1, <2>2, <2>4, <2>8, SelectedFrame
    <3>. QED BY <3>1, <2>5, <2>6
  <2>. QED BY <2>7, <2>8
<1>4. ASSUME NEW o \in Op, FootprintFails(x, o)
      PROVE  Undispatched(p)' /\ FencedThread(b)' /\ SelectedUndispatched(y, p)'
  <2>1. /\ UNCHANGED <<lease, live, phase, dispatched, admission, owner, fin, at>>
        /\ todo' = [todo EXCEPT ![x] = {}]
        /\ ex[x] = "admit" /\ (ex' = ex \/ ex' = [ex EXCEPT ![x] = "drain"])
    BY <1>4 DEF FootprintFails, Trying
  <2>2. (st'[p] = st[p] /\ proof'[p] = proof[p]) \/ st[p] = "created"
    BY Domains, <1>4, <1>o DEF FootprintFails
  <2>3. st[p] = "created" => dispatched[p] = 0
    BY DEF DispatchInv, PendingUndispatched
  <2>4. Undispatched(p)'
    BY <2>1, <2>2, <2>3, UndispatchedFrame
  <2>5. FencedThread(b)'
    BY <2>1, <1>l, FencedFrame, ZenonT(30)
  <2>6. ex'[y] \in Selecting /\ p \in todo'[y] => ex[y] \in Selecting /\ p \in todo[y]
    BY Domains, <2>1
  <2>7. SelectedUndispatched(y, p)'
    BY <2>1, <2>6, <1>l, SelectedFrame
  <2>. QED BY <2>4, <2>5, <2>7
<1>5. ASSUME NEW o \in Op, ReserveRaises(x, o)
      PROVE  Undispatched(p)' /\ FencedThread(b)' /\ SelectedUndispatched(y, p)'
  <2>1. /\ UNCHANGED <<lease, live, st, proof, phase, dispatched, admission, owner, fin, at, todo>>
        /\ ex' = [ex EXCEPT ![x] = "drain"]
    BY <1>5 DEF ReserveRaises
  <2>. QED BY <2>1, <1>l, QuietDispatch
<1>6. ASSUME NEW o \in Op, Reserve(x, o)
      PROVE  Undispatched(p)' /\ FencedThread(b)' /\ SelectedUndispatched(y, p)'
  <2>1. PICK a \in AttemptsOf(o) :
             /\ IF Waits(x) \cap AttemptsOf(o) # {} THEN a \in Waits(x)
                ELSE Free(a) /\ \A c \in AttemptsOf(o) : Free(c) => a[2] <= c[2]
             /\ owner' = [owner EXCEPT ![a] = x]
             /\ at' = [at EXCEPT ![a] = "wait"]
             /\ fin' = [fin EXCEPT ![a] = "none"]
             /\ \/ Goto(x, "claim") /\ todo' = todo
                \/ todo' = [todo EXCEPT ![x] = @ \ {o}] /\ ex' = ex
    BY <1>6, ZenonT(30) DEF Reserve
  <2>2. a \in Attempt /\ OpOf(a) = o
    BY DEF AttemptsOf
  <2>3. /\ ex[x] = "admit" /\ o \in todo[x]
        /\ UNCHANGED <<lease, live, st, proof, phase, dispatched, admission>>
    BY <1>6 DEF Reserve, Trying, Turn
  <2>4. a \in Waits(x) \/ Free(a)
    BY <2>1
  <2>5. admission[o] = a => (owner[a] = x /\ at[a] = "wait") \/ at[a] = "free"
    BY <2>4, <2>2, <1>i, OpOfAttempt, BoundAssumption DEF Waits, Free, AdmissionHasToken
  <2>6. LeaseKept
    BY <2>3, <1>l
  <2>7. Undispatched(p)'
    BY <2>3, UndispatchedFrame
  <2>8. FencedThread(b)'
    <3>1. CASE b = a
      <4>1. LeaseHeld(x)' => LeaseHeld(x)
        BY <2>6 DEF LeaseKept
      <4>2. o \in Effectful /\ LeaseHeld(x) => dispatched[o] = 0
        BY <2>3, <1>i, ZenonT(30) DEF SelectedUndispatched
      <4>3. at'[b] = "wait" /\ owner'[b] = x /\ OpOf(b) = o
        BY Domains, <2>1, <2>2, <3>1
      <4>. QED BY <4>1, <4>2, <4>3, <2>3, ZenonT(30) DEF FencedThread
    <3>2. CASE b # a
      <4>1. at'[b] = at[b] /\ fin'[b] = fin[b] /\ owner'[b] = owner[b]
        BY <2>1, <2>2, <3>2
      <4>. QED BY <4>1, <2>3, <2>6, FencedFrame
    <3>. QED BY <3>1, <3>2
  <2>9. ex'[y] \in Selecting /\ p \in todo'[y] => ex[y] \in Selecting /\ p \in todo[y]
    BY Domains, <2>1, <2>3
  <2>10. ASSUME p \in todo[y], NEW c \in Attempt, OpOf(c) = p, at[c] = "wait", owner[c] = y,
                c = admission[p]
         PROVE  at'[c] = "wait" /\ owner'[c] = y
    BY <2>10, <2>1, <2>2, <2>5
  <2>11. SelectedUndispatched(y, p)'
    <3> SUFFICES ASSUME ex'[y] \in Selecting, LeaseHeld(y)', p \in todo'[y]
                 PROVE  /\ dispatched'[p] = 0
                        /\ admission'[p] # NoAttempt =>
                              at'[admission'[p]] = "wait" /\ owner'[admission'[p]] = y
      BY ZenonT(30) DEF SelectedUndispatched
    <3>1. ex[y] \in Selecting /\ p \in todo[y] /\ LeaseHeld(y)
      BY <2>9, <2>6 DEF LeaseKept
    <3>2. /\ dispatched[p] = 0
          /\ admission[p] # NoAttempt => at[admission[p]] = "wait" /\ owner[admission[p]] = y
      BY <3>1, <1>i DEF SelectedUndispatched
    <3>3. admission[p] # NoAttempt => admission[p] \in Attempt /\ OpOf(admission[p]) = p
      BY <1>o, <1>i DEF TypeOK, AdmissionHasToken
    <3>. QED BY <3>1, <3>2, <3>3, <2>10, <2>3, ZenonT(30)
  <2>. QED BY <2>7, <2>8, <2>11
<1>7. CASE ClaimReady(x)
  <2>1. PICK a \in Waits(x) :
             /\ Turn(x, OpOf(a))
             /\ \/ /\ at' = [at EXCEPT ![a] = "done"]
                   /\ todo' = [todo EXCEPT ![x] = @ \ {OpOf(a)}]
                   /\ Goto(x, "admit")
                   /\ UNCHANGED <<phase, admission>>
                \/ Goto(x, "drain") /\ UNCHANGED <<at, todo, phase, admission>>
                \/ /\ LeaseHeld(x)
                   /\ admission' = [admission EXCEPT ![OpOf(a)] = a]
                   /\ phase' = [phase EXCEPT ![OpOf(a)] = "reserved"]
                   /\ Goto(x, "bind")
                   /\ UNCHANGED <<at, todo>>
    BY <1>7, ZenonT(30) DEF ClaimReady
  <2>2. /\ ex[x] = "claim" /\ a \in Attempt /\ owner[a] = x /\ at[a] = "wait"
        /\ OpOf(a) \in todo[x] /\ OpOf(a) \in Op
        /\ UNCHANGED <<lease, live, st, proof, dispatched, owner, fin>>
    BY <1>7, <2>1, OpOfAttempt DEF ClaimReady, Waits, Turn
  <2>3. LeaseKept
    BY <2>2, <1>l, ZenonT(30)
  <2>4. Undispatched(p)'
    BY <2>2, UndispatchedFrame, ZenonT(30)
  <2>5. CASE UNCHANGED <<phase, admission>>
    <3>1. \A c \in Attempt : at'[c] = at[c] \/ (at'[c] = "done" /\ c = a)
      BY Domains, <2>1, <2>2, ZenonT(30)
    <3>2. FencedThread(b)'
      BY <3>1, <2>2, <2>3, <2>5, FencedFrame, ZenonT(30)
    <3>3. ex'[y] \in Selecting /\ p \in todo'[y] =>
             ex[y] \in Selecting /\ p \in todo[y] /\ (y = x => at' = at \/ p # OpOf(a))
      <4>1. ex[x] \in Selecting /\ DOMAIN ex = Exec /\ DOMAIN todo = Exec
        BY <2>2, Domains
      <4>2. CASE todo' = [todo EXCEPT ![x] = @ \ {OpOf(a)}] /\ Goto(x, "admit")
        BY <4>1, <4>2
      <4>3. CASE Goto(x, "drain") /\ UNCHANGED <<at, todo>>
        BY <4>1, <4>3
      <4>4. CASE Goto(x, "bind") /\ UNCHANGED <<at, todo>>
        BY <4>1, <4>4
      <4>. QED BY <2>1, <4>2, <4>3, <4>4
    <3>4. ex'[y] \in Selecting /\ p \in todo'[y] =>
             /\ ex[y] \in Selecting /\ p \in todo[y]
             /\ \A c \in Attempt : OpOf(c) = p /\ at[c] = "wait" /\ owner[c] = y =>
                   at'[c] = "wait" /\ owner'[c] = y
      BY <3>1, <3>3, <2>2, ZenonT(30)
    <3>5. SelectedUndispatched(y, p)'
      BY <3>4, <2>2, <2>3, <2>5, SelectedFrame, ZenonT(30)
    <3>. QED BY <2>4, <3>2, <3>5
  <2>6. CASE /\ LeaseHeld(x) /\ at' = at /\ todo' = todo /\ Goto(x, "bind")
             /\ admission' = [admission EXCEPT ![OpOf(a)] = a]
             /\ phase' = [phase EXCEPT ![OpOf(a)] = "reserved"]
    <3>1. OpOf(a) \in Effectful => dispatched[OpOf(a)] = 0
      BY <2>2, <2>6, <1>i, ZenonT(30) DEF SelectedUndispatched
    <3>2. FencedThread(b)'
      <4>1. CASE OpOf(b) # OpOf(a)
        BY Domains, <4>1, <2>2, <2>3, <2>6, <1>o, FencedFrame
      <4>2. CASE OpOf(b) = OpOf(a) /\ b # a
        <5>1. admission'[OpOf(b)] # b
          BY Domains, <4>2, <2>6, <2>2
        <5>. QED BY <5>1 DEF FencedThread
      <4>3. CASE b = a
        BY <4>3, <3>1, <2>2, <2>6 DEF FencedThread
      <4>. QED BY <4>1, <4>2, <4>3
    <3>3. SelectedUndispatched(y, p)'
      <4>1. CASE p # OpOf(a)
        <5>1. ex'[y] \in Selecting /\ p \in todo'[y] => ex[y] \in Selecting /\ p \in todo[y]
          BY Domains, <2>2, <2>6, ZenonT(30)
        <5>2. admission'[p] = admission[p]
          BY Domains, <4>1, <2>2, <2>6, <1>o, ZenonT(30)
        <5>. QED BY <5>1, <5>2, <2>2, <2>3, <2>6, SelectedFrame, ZenonT(30)
      <4>2. CASE p = OpOf(a) /\ y = x
        BY Domains, <4>2, <3>1, <2>2, <2>6, ZenonT(30) DEF SelectedUndispatched
      <4>3. CASE y # x
        <5>1. ~ LeaseHeld(y)
          BY <4>3, <2>6, ZenonT(30) DEF LeaseHeld
        <5>2. ~ LeaseHeld(y)'
          BY <5>1, <2>3 DEF LeaseKept
        <5>. QED BY <5>2 DEF SelectedUndispatched
      <4>. QED BY <4>1, <4>2, <4>3
    <3>. QED BY <2>4, <3>2, <3>3
  <2>. QED BY <2>1, <2>5, <2>6
<1>8. CASE BindAndSubmit(x)
  <2>1. PICK a \in Waits(x) :
             \/ /\ at' = [at EXCEPT ![a] = "start"]
                /\ todo' = [todo EXCEPT ![x] = @ \ {OpOf(a)}]
                /\ Goto(x, "admit")
             \/ Goto(x, "drain") /\ UNCHANGED <<at, todo>>
    BY <1>8, ZenonT(30) DEF BindAndSubmit
  <2>2. /\ ex[x] = "bind" /\ a \in Attempt /\ owner[a] = x /\ at[a] = "wait"
        /\ UNCHANGED <<lease, live, st, proof, phase, admission, dispatched, owner, fin>>
    BY <1>8 DEF BindAndSubmit, Waits
  <2>3. LeaseKept
    BY <2>2, <1>l, ZenonT(30)
  <2>4. Undispatched(p)'
    BY <2>2, UndispatchedFrame, ZenonT(30)
  <2>5. FencedThread(b)'
    <3>1. CASE at'[b] = at[b]
      BY <3>1, <2>2, <2>3, FencedFrame, ZenonT(30)
    <3>2. CASE at[b] = "wait" /\ at'[b] = "start"
      <4>1. LeaseHeld(owner[b])' => LeaseHeld(owner[b])
        BY <2>2, <2>3, ZenonT(30) DEF LeaseKept
      <4>2. FencedThread(b)
        BY DEF DispatchInv
      <4>. QED BY <4>1, <4>2, <3>2, <2>2 DEF FencedThread
    <3>. QED BY Domains, <3>1, <3>2, <2>1, <2>2
  <2>6. ex'[y] \in Selecting /\ p \in todo'[y] =>
           ex[y] \in Selecting /\ p \in todo[y] /\ (y = x => at' = at \/ p # OpOf(a))
    <3>1. CASE Goto(x, "drain") /\ UNCHANGED <<at, todo>>
      BY Domains, <3>1 DEF Goto, Selecting
    <3>2. CASE /\ todo' = [todo EXCEPT ![x] = @ \ {OpOf(a)}]
               /\ Goto(x, "admit")
      <4>1. p \in todo'[y] => p \in todo[y] /\ (y = x => p # OpOf(a))
        BY Domains, <3>2
      <4>2. ex'[y] \in Selecting => ex[y] \in Selecting
        BY <3>2, <2>2 DEF Goto, Selecting
      <4>. QED BY <4>1, <4>2
    <3>. QED BY <2>1, <3>1, <3>2
  <2>7. \A c \in Attempt : at'[c] = at[c] \/ c = a
    BY Domains, <2>1, <2>2
  <2>8. ex'[y] \in Selecting /\ p \in todo'[y] =>
           /\ ex[y] \in Selecting /\ p \in todo[y]
           /\ \A c \in Attempt : OpOf(c) = p /\ at[c] = "wait" /\ owner[c] = y =>
                 at'[c] = "wait" /\ owner'[c] = y
    BY <2>6, <2>7, <2>2
  <2>9. SelectedUndispatched(y, p)'
    BY <2>8, <2>2, <2>3, SelectedFrame
  <2>. QED BY <2>4, <2>5, <2>9
<1>9. CASE Await(x) \/ ReleaseWaits(x)
  <2>1. /\ UNCHANGED <<lease, live, st, proof, phase, admission, dispatched, owner, fin, todo>>
        /\ \E place \in {"drain", "observe", "unlease"} : ex' = [ex EXCEPT ![x] = place]
    BY <1>9 DEF Await, ReleaseWaits
  <2>2. \A a \in Attempt : at'[a] = at[a] \/ (at'[a] = "done" /\ owner[a] = x)
    BY <1>9 DEF Await, ReleaseWaits, InFlight, Waits
  <2>. QED BY Domains, <2>1, <2>2, <1>l, QuietDispatch
<1>10. CASE ReleaseLease(x)
  <2>1. /\ UNCHANGED <<st, proof, phase, admission, dispatched, owner, fin, at>>
        /\ todo' = [todo EXCEPT ![x] = {}] /\ ex' = [ex EXCEPT ![x] = "done"]
    BY <1>10 DEF ReleaseLease, Forget
  <2>2. (lease' = lease /\ live' = live) \/ live' = FALSE
    BY <1>10, ZenonT(30) DEF ReleaseLease
  <2>3. LeaseKept
    BY <2>2, ZenonT(30) DEF LeaseKept, LeaseHeld
  <2>. QED BY Domains, <2>1, <2>3, QuietDispatch, ZenonT(30)
<1>. QED BY <1>1, <1>2, <1>3, <1>4, <1>5, <1>6, <1>7, <1>8, <1>9, <1>10 DEF Coordinator

\* A thread step does, the crossing of the barrier included.
LEMMA ThreadDispatch ==
  ASSUME TypeOK, DispatchInv, NEW a \in Attempt, ThreadStep(a),
         NEW p \in Effectful, NEW b \in Attempt, OpOf(b) \in Effectful, NEW y \in Exec
  PROVE  Undispatched(p)' /\ FencedThread(b)' /\ SelectedUndispatched(y, p)'
<1> USE DEF wfVars, opVars, threadVars, execVars, boundVars, Thread
<1>o. p \in Op /\ OpOf(a) \in Op /\ OpOf(b) \in Op
  BY OpOfAttempt, KindAssumption
<1>l. lease' = lease /\ live' = live => LeaseKept
  BY LeaseFrame
<1>f. FencedThread(b) /\ (OpOf(a) \in Effectful => FencedThread(a))
  BY DEF DispatchInv
<1>h. Fenced(a) => admission[OpOf(a)] = a /\ LeaseHeld(owner[a])
  BY DEF Fenced
\* A thread past "wait" of a fenced attempt is in no pass.
<1>p. ASSUME Fenced(a), at[a] # "wait", OpOf(a) = p, ex[y] \in Selecting, p \in todo[y]
      PROVE  ~ LeaseHeld(y)
  BY <1>p, <1>h, BoundAssumption DEF DispatchInv, SelectedUndispatched, Selecting
<1>1. CASE Prepare(a)
  <2>1. /\ UNCHANGED <<lease, live, st, proof, admission, dispatched, owner, fin, ex, todo>>
        /\ phase' = [phase EXCEPT ![OpOf(a)] = "prepared"] /\ at' = [at EXCEPT ![a] = "prepared"]
        /\ at[a] = "start" /\ Fenced(a)
    BY <1>1 DEF Prepare, DispatchAllowed
  <2>2. Undispatched(p)'
    BY <2>1, UndispatchedFrame
  <2>3. FencedThread(b)'
    <3>1. CASE OpOf(b) # OpOf(a)
      BY Domains, <3>1, <2>1, <1>l, <1>o, FencedFrame
    <3>2. CASE OpOf(b) = OpOf(a) /\ b # a
      BY <3>2, <2>1, <1>h, ZenonT(30) DEF FencedThread
    <3>3. CASE b = a
      <4>1. dispatched[OpOf(a)] = 0
        BY <3>3, <2>1, <1>f, <1>h DEF FencedThread
      <4>2. at'[b] = "prepared" /\ dispatched'[OpOf(b)] = 0
        BY Domains, <4>1, <3>3, <2>1
      <4>. QED BY <4>2 DEF FencedThread
    <3>. QED BY <3>1, <3>2, <3>3
  <2>4. \A c \in Attempt : at[c] = "wait" => at'[c] = "wait"
    BY <2>1
  <2>5. SelectedUndispatched(y, p)'
    BY <2>1, <2>4, <1>l, SelectedFrame
  <2>. QED BY <2>2, <2>3, <2>5
<1>2. CASE MayDispatch(a)
  <2>1. /\ UNCHANGED <<lease, live, proof, admission, owner, fin, ex, todo>>
        /\ st' = [st EXCEPT ![OpOf(a)] = "running"]
        /\ phase' = [phase EXCEPT ![OpOf(a)] = "may_dispatch"]
        /\ dispatched' = [dispatched EXCEPT ![OpOf(a)] = @ + 1]
        /\ at' = [at EXCEPT ![a] = "acting"]
        /\ at[a] = "prepared" /\ Fenced(a)
    BY <1>2 DEF MayDispatch, DispatchAllowed
  <2>2. OpOf(a) \in Effectful => dispatched[OpOf(a)] = 0
    BY <2>1, <1>f, <1>h DEF FencedThread
  <2>3. Undispatched(p)'
    <3>1. CASE p = OpOf(a)
      BY Domains, <3>1, <2>1, <2>2, <1>o DEF Undispatched, PendingUndispatched
    <3>2. CASE p # OpOf(a)
      BY <3>2, <2>1, <1>o, UndispatchedFrame
    <3>. QED BY <3>1, <3>2
  <2>4. FencedThread(b)'
    <3>1. CASE OpOf(b) # OpOf(a)
      BY Domains, <3>1, <2>1, <1>l, <1>o, FencedFrame, ZenonT(30)
    <3>2. CASE OpOf(b) = OpOf(a) /\ b # a
      BY <3>2, <2>1, <1>h, ZenonT(30) DEF FencedThread
    <3>3. CASE b = a
      <4>1. at'[b] = "acting" /\ phase'[OpOf(b)] = "may_dispatch"
        BY Domains, <3>3, <2>1, <1>o
      <4>. QED BY <4>1 DEF FencedThread
    <3>. QED BY <3>1, <3>2, <3>3
  <2>5. SelectedUndispatched(y, p)'
    <3>1. CASE p = OpOf(a)
      <4>1. ex[y] \in Selecting /\ p \in todo[y] => ~ LeaseHeld(y)
        BY <3>1, <2>1, <1>p
      <4>2. ex'[y] \in Selecting /\ p \in todo'[y] => ~ LeaseHeld(y)'
        BY <4>1, <2>1, <1>l, ZenonT(30) DEF LeaseKept
      <4>. QED BY <4>2, ZenonT(30) DEF SelectedUndispatched, Selecting
    <3>2. CASE p # OpOf(a)
      <4>1. \A c \in Attempt : at[c] = "wait" => at'[c] = "wait"
        BY <2>1
      <4>2. dispatched'[p] = dispatched[p]
        BY <3>2, <2>1, <1>o
      <4>. QED BY <4>1, <4>2, <2>1, <1>l, SelectedFrame, ZenonT(30)
    <3>. QED BY <3>1, <3>2
  <2>. QED BY <2>3, <2>4, <2>5
<1>3. CASE AbortBeforeDispatch(a) \/ FinishAction(a)
  <2>1. /\ at[a] \in {"start", "prepared", "acting"}
        /\ at' = [at EXCEPT ![a] = "settling"]
        /\ UNCHANGED <<lease, live, st, proof, phase, admission, dispatched, owner, ex, todo>>
    BY <1>3 DEF AbortBeforeDispatch, FinishAction
  <2>2. PICK f : /\ fin' = [fin EXCEPT ![a] = f]
                 /\ at[a] = "acting" /\ OpOf(a) \in Effectful => f \in {"succeeded", "uncertain"}
    BY <1>3, KindAssumption DEF AbortBeforeDispatch, FinishAction
  <2>3. Undispatched(p)'
    BY <2>1, UndispatchedFrame, ZenonT(30)
  <2>4. FencedThread(b)'
    <3>1. CASE b # a
      BY Domains, <3>1, <2>1, <2>2, <1>l, FencedFrame, ZenonT(30)
    <3>2. CASE b = a
      <4>1. LeaseHeld(owner[b])' => LeaseHeld(owner[b])
        BY <2>1, <1>l DEF LeaseKept
      <4>2. at'[b] = "settling" /\ fin'[b] = f
        BY Domains, <3>2, <2>1, <2>2, ZenonT(30)
      <4>3. admission[OpOf(b)] = b /\ LeaseHeld(owner[b]) =>
               dispatched[OpOf(b)] = 0 \/ (at[b] = "acting" /\ phase[OpOf(b)] = "may_dispatch")
        BY <3>2, <2>1, <1>f DEF FencedThread
      <4>. QED BY <4>1, <4>2, <4>3, <3>2, <2>1, <2>2, ZenonT(30) DEF FencedThread
    <3>. QED BY <3>1, <3>2
  <2>5. \A c \in Attempt : at[c] = "wait" => at'[c] = "wait"
    BY <2>1
  <2>6. SelectedUndispatched(y, p)'
    BY <2>1, <2>5, <1>l, SelectedFrame
  <2>. QED BY <2>3, <2>4, <2>6
<1>4. CASE PersistExternalRef(a) \/ TakeCapacity(a) \/ ReturnCapacity(a)
  <2>1. UNCHANGED <<lease, live, st, proof, phase, admission, dispatched, owner, at, fin, ex, todo>>
    BY <1>4, ZenonT(30) DEF PersistExternalRef, TakeCapacity, ReturnCapacity
  <2>2. LeaseKept
    BY <2>1, <1>l
  <2>3. Undispatched(p)'
    BY <2>1, UndispatchedFrame
  <2>4. FencedThread(b)'
    BY <2>1, <2>2, FencedFrame, ZenonT(30)
  <2>5. SelectedUndispatched(y, p)'
    BY <2>1, <2>2, SelectedFrame
  <2>. QED BY <2>3, <2>4, <2>5
<1>5. CASE Complete(a)
  <2>1. /\ at[a] = "settling" /\ Fenced(a)
        /\ st' = [st EXCEPT ![OpOf(a)] = Recorded(a, fin[a])]
        /\ proof' = [proof EXCEPT ![OpOf(a)] = Proved(a, fin[a])]
        /\ phase' = [phase EXCEPT ![OpOf(a)] = "settled"]
        /\ admission' = [admission EXCEPT ![OpOf(a)] = NoAttempt]
        /\ at' = [at EXCEPT ![a] = "release"]
        /\ \E f : fin' = [fin EXCEPT ![a] = f]
        /\ UNCHANGED <<lease, live, dispatched, owner, ex, todo>>
    BY <1>5, ZenonT(30) DEF Complete
  <2>2. Recorded(a, fin[a]) # "created"
    BY <2>1 DEF Recorded, TypeOK
  <2>3. OpOf(a) \in Effectful /\ Proved(a, fin[a]) = "no_dispatch" => dispatched[OpOf(a)] = 0
    BY <2>1, <1>f, <1>h DEF Proved, FencedThread
  <2>4. Undispatched(p)'
    <3>1. CASE p = OpOf(a)
      <4>1. /\ st'[p] = Recorded(a, fin[a]) /\ proof'[p] = Proved(a, fin[a])
            /\ dispatched'[p] = dispatched[p]
        BY Domains, <3>1, <2>1, <1>o, ZenonT(30)
      <4>2. dispatched[p] <= 1
        BY DEF DispatchInv, AtMostOneDispatch
      <4>. QED BY <4>1, <4>2, <2>2, <2>3, <3>1 DEF Undispatched, PendingUndispatched
    <3>2. CASE p # OpOf(a)
      BY Domains, <3>2, <2>1, <1>o, UndispatchedFrame, ZenonT(30)
    <3>. QED BY <3>1, <3>2
  <2>5. FencedThread(b)'
    <3>1. CASE OpOf(b) # OpOf(a)
      BY <3>1, <2>1, <1>l, <1>o, FencedFrame
    <3>2. CASE OpOf(b) = OpOf(a)
      <4>1. admission'[OpOf(b)] # b
        BY Domains, <3>2, <2>1, <1>o, BoundAssumption, ZenonT(30)
      <4>. QED BY <4>1, ZenonT(30) DEF FencedThread
    <3>. QED BY <3>1, <3>2
  <2>6. \A c \in Attempt : at[c] = "wait" => at'[c] = "wait"
    BY <2>1
  <2>7. admission'[p] \in {admission[p], NoAttempt}
    BY <2>1, <1>o
  <2>8. SelectedUndispatched(y, p)'
    BY <2>1, <2>6, <2>7, <1>l, SelectedFrame, ZenonT(30)
  <2>. QED BY <2>4, <2>5, <2>8
<1>6. CASE LoseOwnership(a) \/ SettleResource(a)
  <2>1. /\ UNCHANGED <<lease, live, st, proof, phase, admission, dispatched, owner, ex, todo>>
        /\ at[a] \in {"settling", "release"}
        /\ \E t \in {"lost", "raised", "settled"} : at' = [at EXCEPT ![a] = t]
        /\ fin' = [fin EXCEPT ![a] = "none"]
    BY <1>6 DEF LoseOwnership, SettleResource
  <2>2. Undispatched(p)'
    BY <2>1, UndispatchedFrame, ZenonT(30)
  <2>3. \/ at'[b] = at[b] /\ fin'[b] = fin[b]
        \/ at'[b] \notin {"wait", "start", "prepared", "acting", "settling"}
    BY Domains, <2>1
  <2>4. FencedThread(b)'
    BY <2>1, <2>3, <1>l, FencedFrame, ZenonT(30)
  <2>5. \A c \in Attempt : at[c] = "wait" => at'[c] = "wait"
    BY <2>1
  <2>6. SelectedUndispatched(y, p)'
    BY <2>1, <2>5, <1>l, SelectedFrame, ZenonT(30)
  <2>. QED BY <2>2, <2>4, <2>6
<1>. QED BY <1>1, <1>2, <1>3, <1>4, <1>5, <1>6 DEF ThreadStep

\* Crashes, recovery, resumes and resolutions do.
LEMMA EnvironmentDispatch ==
  ASSUME TypeOK, DispatchInv,
         (\E x \in Exec : Crash(x)) \/ ExpireLease \/ RecoverInterrupted \/ Operator,
         NEW p \in Effectful, NEW b \in Attempt, OpOf(b) \in Effectful, NEW y \in Exec
  PROVE  Undispatched(p)' /\ FencedThread(b)' /\ SelectedUndispatched(y, p)'
<1> USE DEF wfVars, opVars, threadVars, execVars, boundVars
<1>o. p \in Op /\ OpOf(b) \in Op
  BY OpOfAttempt, KindAssumption
<1>l. lease' = lease /\ live' = live => LeaseKept
  BY LeaseFrame
<1>n. live' = FALSE => LeaseKept
  BY ZenonT(30) DEF LeaseKept, LeaseHeld
\* Slots are only given up, the threads and the coordinators are left alone.
<1>s. ASSUME LeaseKept, UNCHANGED <<dispatched, phase, owner, at, fin, ex, todo>>,
             \A q \in Op : admission'[q] \in {admission[q], NoAttempt}
      PROVE  FencedThread(b)' /\ SelectedUndispatched(y, p)'
  <2>1. admission'[OpOf(b)] = b => admission[OpOf(b)] = b
    BY <1>s, <1>o, BoundAssumption
  <2>2. FencedThread(b)'
    BY <1>s, <2>1, FencedFrame
  <2>3. SelectedUndispatched(y, p)'
    BY <1>s, <1>o, SelectedFrame, ZenonT(30)
  <2>. QED BY <2>2, <2>3
<1>1. ASSUME NEW x \in Exec, Crash(x)
      PROVE  Undispatched(p)' /\ FencedThread(b)' /\ SelectedUndispatched(y, p)'
  <2>1. /\ UNCHANGED <<lease, live, st, proof, phase, admission, dispatched, owner>>
        /\ ex' = [ex EXCEPT ![x] = "dead"] /\ todo' = [todo EXCEPT ![x] = {}]
        /\ \A c \in Attempt : \/ at'[c] = at[c] /\ fin'[c] = fin[c]
                              \/ at'[c] = "dead" /\ owner[c] = x
    BY <1>1, ZenonT(30) DEF Crash, Goto, Forget
  <2>2. Undispatched(p)'
    BY <2>1, UndispatchedFrame, ZenonT(30)
  <2>3. FencedThread(b)'
    BY <2>1, <1>l, FencedFrame, ZenonT(30)
  <2>4. ex'[y] \in Selecting => y # x /\ ex'[y] = ex[y] /\ todo'[y] = todo[y]
    BY Domains, <2>1, ZenonT(30) DEF Selecting
  <2>5. ex'[y] \in Selecting => \A c \in Attempt : owner[c] = y => at'[c] = at[c]
    BY <2>1, <2>4, ZenonT(30)
  <2>6. LeaseKept
    BY <2>1, <1>l, ZenonT(30)
  <2>7. SelectedUndispatched(y, p)'
    BY <2>1, <2>4, <2>5, <2>6, SelectedFrame, ZenonT(30)
  <2>. QED BY <2>2, <2>3, <2>7
<1>2. CASE ExpireLease \/ RequestCancel
  <2>1. UNCHANGED <<st, proof, phase, admission, dispatched, owner, at, fin, ex, todo>>
    BY <1>2 DEF ExpireLease, RequestCancel
  <2>2. (lease' = lease /\ live' = live) \/ live' = FALSE
    BY <1>2, ZenonT(30) DEF ExpireLease, RequestCancel
  <2>3. Undispatched(p)'
    BY <2>1, UndispatchedFrame, ZenonT(30)
  <2>. QED BY <2>1, <2>2, <2>3, <1>l, <1>n, <1>s
<1>3. CASE RecoverInterrupted
  <2>1. /\ dispatched' = dispatched /\ proof' = proof
        /\ st'[p] \in {st[p], "uncertain"}
    BY <1>3, <1>o, ZenonT(30) DEF RecoverInterrupted, RecoveredState
  <2>2. Undispatched(p)'
    BY <2>1, UndispatchedFrame, ZenonT(30)
  <2>3. live' = FALSE
    BY <1>3, ZenonT(30) DEF RecoverInterrupted
  <2>4. \A z : ~ LeaseHeld(z)'
    BY <2>3, ZenonT(30) DEF LeaseHeld
  <2>5. FencedThread(b)' /\ SelectedUndispatched(y, p)'
    BY <2>4, ZenonT(30) DEF FencedThread, SelectedUndispatched
  <2>. QED BY <2>2, <2>5
<1>4. CASE Resume
  <2>1. UNCHANGED <<lease, live, admission, dispatched, owner, at, fin, ex, todo>>
    BY <1>4 DEF Resume
  <2>2. \A o \in Op : admission[o] = NoAttempt
    BY <1>4 DEF Resume, SafeResume
  <2>3. st[p] = "failed" => proof[p] = "no_dispatch"
    BY <1>4 DEF Resume, SafeResume
  <2>4. (st'[p] = st[p] /\ proof'[p] = proof[p]) \/ st[p] = "failed"
    BY <1>4, <1>o, ZenonT(30) DEF Resume
  <2>5. st[p] = "failed" => dispatched[p] = 0
    BY <2>3, ZenonT(30) DEF DispatchInv, PendingUndispatched
  <2>6. Undispatched(p)'
    BY <2>1, <2>4, <2>5, UndispatchedFrame
  <2>7. admission'[OpOf(b)] # b
    BY <2>1, <2>2, <1>o, BoundAssumption
  <2>8. FencedThread(b)'
    BY <2>7 DEF FencedThread
  <2>9. SelectedUndispatched(y, p)'
    BY <2>1, <1>l, SelectedFrame
  <2>. QED BY <2>6, <2>8, <2>9
<1>5. ASSUME NEW o \in Op,
             NEW final \in {"succeeded", "failed", "uncertain", "acknowledged", "unresolvable"},
             ResolveUncertain(o, final)
      PROVE  Undispatched(p)' /\ FencedThread(b)' /\ SelectedUndispatched(y, p)'
  <2>1. /\ \A q \in Op : admission'[q] \in {admission[q], NoAttempt}
        /\ UNCHANGED <<lease, live, phase, dispatched, owner, at, fin, ex, todo>>
    BY <1>5 DEF ResolveUncertain
  <2>2. /\ st' = [st EXCEPT ![o] = final]
        /\ proof' = [proof EXCEPT ![o] = "dispatched"]
    BY <1>5 DEF ResolveUncertain
  <2>3. Undispatched(p)'
    <3>1. CASE p # o
      BY Domains, <3>1, <2>1, <2>2, <1>o, UndispatchedFrame, ZenonT(30)
    <3>2. CASE p = o
      <4>1. st'[p] = final /\ proof'[p] = "dispatched" /\ dispatched'[p] <= 1
        BY Domains, <3>2, <2>1, <2>2, <1>o, ZenonT(30) DEF DispatchInv, AtMostOneDispatch
      <4>. QED BY <4>1 DEF Undispatched, PendingUndispatched
    <3>. QED BY <3>1, <3>2
  <2>. QED BY <2>1, <2>3, <1>l, <1>s
<1>6. ASSUME NEW a \in Attempt, ResolveQuarantined(a)
      PROVE  Undispatched(p)' /\ FencedThread(b)' /\ SelectedUndispatched(y, p)'
  <2>1. /\ \A q \in Op : admission'[q] \in {admission[q], NoAttempt}
        /\ UNCHANGED <<lease, live, st, proof, phase, dispatched, owner, at, fin, ex, todo>>
    BY <1>6, ResolveQuarantinedSlots, ZenonT(30) DEF ResolveQuarantined
  <2>2. Undispatched(p)'
    BY <2>1, UndispatchedFrame, ZenonT(30)
  <2>. QED BY <2>1, <2>2, <1>l, <1>s, ZenonT(30)
<1>. QED BY <1>1, <1>2, <1>3, <1>4, <1>5, <1>6 DEF Operator

\* DispatchInv is inductive relative to TypeOK.
LEMMA DispatchStep == TypeOK /\ DispatchInv /\ [Next]_vars => DispatchInv'
<1> SUFFICES ASSUME TypeOK, DispatchInv, [Next]_vars PROVE DispatchInv'
  OBVIOUS
<1>1. CASE UNCHANGED vars
  BY <1>1, ZenonT(30) DEF vars, wfVars, opVars, threadVars, execVars, boundVars,
     DispatchInv, FreshExecution, AdmissionHasToken, FencedThread, PendingUndispatched,
     SelectedUndispatched,
     AtMostOneDispatch, LeaseHeld
<1>2. CASE Next
  <2>1. AdmissionHasToken' /\ FreshExecution'
    BY <1>2, TokenStep, FreshStep DEF DispatchInv
  <2>2. ASSUME NEW p \in Effectful, NEW b \in Attempt, OpOf(b) \in Effectful, NEW y \in Exec
        PROVE  Undispatched(p)' /\ FencedThread(b)' /\ SelectedUndispatched(y, p)'
    BY <1>2, <2>2, CoordinatorDispatch, ThreadDispatch, EnvironmentDispatch DEF Next
  <2>3. \E y \in Exec : TRUE
    BY NonEmptyAssumption
  <2>4. ASSUME NEW p \in Effectful
        PROVE  Undispatched(p)' /\ \A y \in Exec : SelectedUndispatched(y, p)'
    <3>1. <<p, 1>> \in Attempt /\ OpOf(<<p, 1>>) = p
      BY BoundAssumption, NonEmptyAssumption, KindAssumption DEF Attempt, OpOf
    <3>. QED BY <2>2, <2>3, <3>1
  <2>5. ASSUME NEW b \in Attempt, OpOf(b) \in Effectful PROVE FencedThread(b)'
    BY <2>2, <2>3, <2>5
  <2>. QED BY <2>1, <2>4, <2>5, ZenonT(30) DEF DispatchInv, AtMostOneDispatch, Undispatched
<1>. QED BY <1>1, <1>2

\* It holds of the freshly queued workflow: nothing is dispatched or admitted.
LEMMA DispatchInit == Init => DispatchInv
<1> SUFFICES ASSUME Init PROVE DispatchInv
  OBVIOUS
<1>1. AdmissionHasToken /\ FreshExecution
  BY BoundAssumption, ZenonT(30) DEF Init, AdmissionHasToken, FreshExecution
<1>2. \A a \in Attempt : FencedThread(a)
  BY DEF Init, FencedThread
<1>3. \A o \in Op : dispatched[o] = 0
  BY DEF Init
<1>4. \A o \in Effectful : dispatched[o] = 0
  BY <1>3, KindAssumption
<1>5. \A x \in Exec : ex[x] \notin Selecting
  BY DEF Init, Selecting
<1>6. \A o \in Effectful : PendingUndispatched(o) /\ \A x \in Exec : SelectedUndispatched(x, o)
  BY <1>4, <1>5 DEF PendingUndispatched, SelectedUndispatched, Selecting
<1>7. AtMostOneDispatch
  BY <1>4 DEF AtMostOneDispatch
<1>. QED BY <1>1, <1>2, <1>6, <1>7 DEF DispatchInv

(***************************************************************************)
(* The dispatch barrier: an effectful step crosses                         *)
(* mark_operation_may_dispatch at most once, for any graph, any number of  *)
(* executions, attempts, crashes, expired leases, resumes and resolutions. *)
(***************************************************************************)
THEOREM DispatchedOnce == Spec => []AtMostOneDispatch
<1>1. DispatchInv => AtMostOneDispatch
  BY DEF DispatchInv
<1>. QED BY <1>1, InitType, TypeStep, DispatchInit, DispatchStep, PTL DEF Spec
-----------------------------------------------------------------------------
(* The fences.                                                             *)

Held == {"active", "quarantined"}

\* Where a thread is that has not settled its operation.
Unsettled == {"wait", "start", "prepared", "acting", "settling"}

Apart(a, b) ==
    a # b /\ row[a] \in Held /\ row[b] \in Held => <<OpOf(a), OpOf(b)>> \notin Clash

Unused(a) == at[a] = "free" => token[OpOf(a)] # a

\* The aggregate says completed only when all is successful and nothing is held.
LEMMA AggregateCompleted ==
  ASSUME NEW states, NEW admissions, NEW rows, NEW keep,
         Aggregate(states, admissions, rows, keep) = "completed"
  PROVE  (\A o \in Op : states[o] \in Success) /\ \A a \in Attempt : rows[a] \notin Held
<1>1. /\ {states[o] : o \in Op} \subseteq Success
      /\ ~ \E a \in Attempt : rows[a] \in {"active", "quarantined"}
  BY DEF Aggregate
<1>. QED BY <1>1 DEF Held

(***************************************************************************)
(* Only a fenced thread writes over an outcome, and it finds its operation *)
(* open.                                                                   *)
(***************************************************************************)
LEMMA FinalStep ==
  ASSUME TypeOK, FenceInv, Next, NEW o \in Op, st[o] \in Settled \ {"failed"}
  PROVE  st'[o] = st[o]
<1> USE DEF wfVars, opVars, threadVars, execVars, boundVars, Settled
<1>d. DOMAIN st = Op
  BY DEF TypeOK
<1>1. ASSUME NEW x \in Exec, Coordinator(x) PROVE st'[o] = st[o]
  <2>1. ASSUME NEW p \in Op, FootprintFails(x, p) PROVE st'[o] = st[o]
    <3>1. st' = st \/ (st[p] = "created" /\ st' = [st EXCEPT ![p] = "failed"])
      BY <2>1 DEF FootprintFails
    <3>. QED BY <3>1, <1>d
  <2>2. CASE ~ \E p \in Op : FootprintFails(x, p)
    BY <1>1, <2>2, ZenonT(30) DEF Coordinator, ReadQueued, AcquireLease, StartRunning, Observe,
       ReserveRaises, Reserve, ClaimReady, BindAndSubmit, Await, Conclude, Drain,
       ReleaseWaits, ReleaseLease
  <2>. QED BY <2>1, <2>2
<1>2. ASSUME NEW a \in Attempt, ThreadStep(a) PROVE st'[o] = st[o]
  <2>1. CASE MayDispatch(a) \/ Complete(a)
    <3>1. /\ Fenced(a) /\ at[a] \in {"prepared", "settling"}
          /\ \E s : st' = [st EXCEPT ![OpOf(a)] = s]
      BY <2>1, ZenonT(30) DEF MayDispatch, Complete, DispatchAllowed, Thread
    <3>2. OpenThread(a)
      BY DEF FenceInv
    <3>3. o # OpOf(a)
      BY <3>1, <3>2 DEF OpenThread, Fenced
    <3>. QED BY <3>1, <3>3, <1>d
  <2>2. CASE ~ (MayDispatch(a) \/ Complete(a))
    BY <1>2, <2>2, ZenonT(30) DEF ThreadStep, Prepare, AbortBeforeDispatch, PersistExternalRef,
       TakeCapacity, ReturnCapacity, FinishAction, LoseOwnership, SettleResource
  <2>. QED BY <2>1, <2>2
<1>3. CASE (\E x \in Exec : Crash(x)) \/ ExpireLease \/ RequestCancel
  BY <1>3, ZenonT(30) DEF Crash, ExpireLease, RequestCancel
<1>4. CASE RecoverInterrupted
  BY <1>4 DEF RecoverInterrupted, RecoveredState
<1>5. CASE Resume
  BY <1>5 DEF Resume
<1>6. ASSUME NEW p \in Op, NEW final, ResolveUncertain(p, final) PROVE st'[o] = st[o]
  BY <1>6, <1>d DEF ResolveUncertain
<1>7. ASSUME NEW a \in Attempt, ResolveQuarantined(a) PROVE st'[o] = st[o]
  BY <1>7, ZenonT(30) DEF ResolveQuarantined
<1>. QED BY <1>1, <1>2, <1>3, <1>4, <1>5, <1>6, <1>7 DEF Next, Operator

SuccessKept == \A q \in Op : st[q] \in Success => st'[q] \in Success

\* Success is final.
LEMMA SuccessStep == ASSUME TypeOK, FenceInv, Next PROVE SuccessKept
BY FinalStep DEF Success, Settled, SuccessKept

-----------------------------------------------------------------------------
(***************************************************************************)
(* What a step may do without disturbing each conjunct of FenceInv.        *)
(***************************************************************************)

\* A thread that only moves on, or whose fence only falls, finds its operation open.
LEMMA OpenFrame ==
  ASSUME FenceInv, LeaseKept, NEW b \in Attempt, owner'[b] = owner[b],
         admission'[OpOf(b)] = b => admission[OpOf(b)] = b,
         \/ st'[OpOf(b)] = st[OpOf(b)]
         \/ st'[OpOf(b)] \in {"created", "failed", "running"},
         at'[b] \in Unsettled => at[b] \in Unsettled,
         at'[b] \in {"start", "prepared"} =>
            at[b] \in {"start", "prepared"} /\ row'[b] = row[b]
  PROVE  OpenThread(b)'
<1>1. OpenThread(b)
  BY DEF FenceInv
<1>2. LeaseHeld(owner[b])' => LeaseHeld(owner[b])
  BY DEF LeaseKept, LeaseHeld
<1>. QED BY <1>1, <1>2 DEF OpenThread, Unsettled

\* A thread that starts no action and keeps its row, or has it quarantined, keeps it so.
LEMMA RowFrame ==
  ASSUME FenceInv, NEW b \in Attempt,
         at'[b] \in Unsettled \ {"wait"} =>
            /\ at[b] \in Unsettled \ {"wait"}
            /\ row'[b] \in {row[b], "quarantined"},
         at'[b] = "acting" =>
            /\ at[b] = "acting"
            /\ \/ row'[b] = "quarantined"
               \/ /\ st'[OpOf(b)] = st[OpOf(b)] \/ st'[OpOf(b)] = "running"
                  /\ admission'[OpOf(b)] = admission[OpOf(b)]
  PROVE  ThreadRow(b)'
<1>1. ThreadRow(b)
  BY DEF FenceInv
<1>. QED BY <1>1 DEF ThreadRow, Unsettled

\* A step that admits nothing keeps the dependencies of what is admitted successful.
LEMMA DepsFrame ==
  ASSUME FenceInv, SuccessKept, NEW p \in Op,
         admission'[p] # NoAttempt => admission[p] # NoAttempt,
         dispatched'[p] > 0 => dispatched[p] > 0 \/ admission[p] # NoAttempt
  PROVE  AdmittedAfterDeps(p)'
<1>1. AdmittedAfterDeps(p)
  BY DEF FenceInv
<1>2. \A q \in Deps[p] : q \in Op
  BY StepAssumption
<1>. QED BY <1>1, <1>2 DEF AdmittedAfterDeps, SuccessKept

\* Rows that are held afterwards and were held before stay apart.
LEMMA ApartFrame ==
  ASSUME FenceInv, NEW b \in Attempt, NEW c \in Attempt,
         row'[b] \in Held => row[b] \in Held, row'[c] \in Held => row[c] \in Held
  PROVE  Apart(b, c)'
BY DEF FenceInv, HeldApart, Apart, Held

\* A completed workflow stays quiet when no thread goes back and no row is taken.
LEMMA QuietFrame ==
  ASSUME TypeOK, FenceInv, SuccessKept, wf' = "completed" => wf = "completed",
         \A a \in Attempt :
            /\ row'[a] \in Held => row'[a] = row[a]
            /\ at'[a] = "acting" => at[a] = "acting"
            /\ at'[a] \in {"start", "prepared", "settling", "release"} =>
                  at[a] \in {"start", "prepared", "settling", "release", "acting"}
            /\ at'[a] = "wait" => at[a] = "wait" /\ owner'[a] = owner[a],
         \A x \in Exec : ex'[x] = "bind" => ex[x] = "bind"
  PROVE  CompletedQuiet'
<1> SUFFICES ASSUME wf' = "completed"
             PROVE  /\ \A o \in Op : st'[o] \in Success
                    /\ \A a \in Attempt :
                         /\ row'[a] # "quarantined" /\ at'[a] # "acting"
                         /\ at'[a] \in {"start", "prepared", "settling", "release"} => row'[a] # "active"
                         /\ at'[a] = "wait" /\ row'[a] = "active" /\ owner'[a] \in Exec => ex'[owner'[a]] # "bind"
  BY DEF CompletedQuiet
<1>1. /\ \A o \in Op : st[o] \in Success
      /\ \A a \in Attempt :
           /\ row[a] # "quarantined" /\ at[a] # "acting"
           /\ at[a] \in {"start", "prepared", "settling", "release"} => row[a] # "active"
           /\ at[a] = "wait" /\ row[a] = "active" /\ owner[a] \in Exec => ex[owner[a]] # "bind"
  BY DEF FenceInv, CompletedQuiet
<1>2. \A o \in Op : st'[o] \in Success
  BY <1>1 DEF SuccessKept
<1>3. ASSUME NEW a \in Attempt
      PROVE  /\ row'[a] # "quarantined" /\ at'[a] # "acting"
             /\ at'[a] \in {"start", "prepared", "settling", "release"} => row'[a] # "active"
             /\ at'[a] = "wait" /\ row'[a] = "active" /\ owner'[a] \in Exec => ex'[owner'[a]] # "bind"
  BY <1>1 DEF Held
<1>. QED BY <1>2, <1>3

\* A workflow that becomes completed through the aggregate is quiet.
LEMMA QuietAggregate ==
  ASSUME NEW admissions, NEW keep, \A a \in Attempt : ThreadRow(a)',
         wf' = Aggregate(st', admissions, row', keep)
  PROVE  CompletedQuiet'
<1> SUFFICES ASSUME wf' = "completed" PROVE CompletedQuiet'
  BY DEF CompletedQuiet
<1>1. (\A o \in Op : st'[o] \in Success) /\ \A a \in Attempt : row'[a] \notin Held
  BY AggregateCompleted, ZenonT(30)
<1>2. \A a \in Attempt : at'[a] # "acting"
  BY <1>1 DEF ThreadRow, Held
<1>. QED BY <1>1, <1>2 DEF CompletedQuiet, Held

(***************************************************************************)
(* The conjuncts of FenceInv for two threads and an operation.             *)
(***************************************************************************)
Fences(b, c, p) ==
    Unused(b) /\ OpenThread(b) /\ ThreadRow(b) /\ AdmittedAfterDeps(p) /\ Apart(b, c)

\* A step that changes no row of the store, and only moves threads on, keeps them.
LEMMA QuietFences ==
  ASSUME TypeOK, FenceInv, SuccessKept, LeaseKept,
         UNCHANGED <<st, token, admission, dispatched, row, owner>>,
         \A a \in Attempt :
            /\ at'[a] \in Unsettled => at[a] \in Unsettled
            /\ at'[a] \in Unsettled \ {"wait"} => at[a] \in Unsettled \ {"wait"}
            /\ at'[a] \in {"start", "prepared"} => at[a] \in {"start", "prepared"}
            /\ at'[a] = "acting" => at[a] = "acting"
            /\ at'[a] = "free" => at[a] = "free",
         NEW b \in Attempt, NEW c \in Attempt, NEW p \in Op
  PROVE  Fences(b, c, p)'
<1>1. Unused(b)'
  BY DEF FenceInv, UnusedToken, Unused
<1>2. OpenThread(b)'
  BY OpenFrame
<1>3. ThreadRow(b)'
  BY RowFrame
<1>4. AdmittedAfterDeps(p)'
  BY DepsFrame
<1>5. Apart(b, c)'
  BY ApartFrame
<1>. QED BY <1>1, <1>2, <1>3, <1>4, <1>5 DEF Fences

\* A coordinator step keeps the fences, action by action.
LEMMA CoordinatorFences ==
  ASSUME TypeOK, FenceInv, SuccessKept, NEW x \in Exec, Coordinator(x),
         NEW b \in Attempt, NEW c \in Attempt, NEW p \in Op
  PROVE  Fences(b, c, p)'
<1> USE DEF wfVars, opVars, threadVars, execVars, boundVars, Goto
<1>o. OpOf(b) \in Op /\ OpOf(c) \in Op
  BY OpOfAttempt
<1>l. lease' = lease /\ live' = live => LeaseKept
  BY LeaseFrame
<1>1. CASE ReadQueued(x) \/ StartRunning(x) \/ Drain(x) \/ Conclude(x)
           \/ (\E expired \in BOOLEAN : Observe(x, expired))
           \/ \E o \in Op : ReserveRaises(x, o)
  <2>1. UNCHANGED <<lease, live, st, token, admission, dispatched, row, owner, at>>
    BY <1>1 DEF ReadQueued, StartRunning, Drain, Conclude, Observe, ReserveRaises
  <2>2. LeaseKept
    BY <2>1, <1>l
  <2>. QED BY <2>1, <2>2, QuietFences
<1>2. CASE AcquireLease(x)
  <2>1. UNCHANGED <<st, token, admission, dispatched, row, owner, at>> /\ ex[x] = "read"
    BY <1>2 DEF AcquireLease
  <2>2. (lease' = x /\ live' = TRUE) \/ UNCHANGED <<lease, live>>
    BY <1>2, ZenonT(30) DEF AcquireLease
  <2>3. CASE UNCHANGED <<lease, live>>
    BY <2>1, <2>3, <1>l, QuietFences
  <2>4. CASE lease' = x
    <3>1. owner'[b] # x
      BY <2>1 DEF FenceInv, FreshExecution
    <3>2. ~ LeaseHeld(owner[b])'
      BY <3>1, <2>4, <2>1, ZenonT(30) DEF LeaseHeld
    <3>3. OpenThread(b)'
      BY <3>2, <2>1 DEF OpenThread
    <3>4. Unused(b)'
      BY <2>1 DEF FenceInv, UnusedToken, Unused
    <3>5. ThreadRow(b)'
      BY <2>1, RowFrame
    <3>6. AdmittedAfterDeps(p)'
      BY <2>1, DepsFrame
    <3>7. Apart(b, c)'
      BY <2>1, ApartFrame
    <3>. QED BY <3>3, <3>4, <3>5, <3>6, <3>7 DEF Fences
  <2>. QED BY <2>2, <2>3, <2>4
<1>3. ASSUME NEW o \in Op, FootprintFails(x, o) PROVE Fences(b, c, p)'
  <2>1. UNCHANGED <<lease, live, token, admission, dispatched, row, owner, at>>
    BY <1>3 DEF FootprintFails
  <2>2. st' = st \/ (st[o] = "created" /\ st' = [st EXCEPT ![o] = "failed"])
    BY <1>3 DEF FootprintFails
  <2>3. st'[OpOf(b)] = st[OpOf(b)] \/ (st[OpOf(b)] = "created" /\ st'[OpOf(b)] = "failed")
    BY <2>2, <1>o, Domains
  <2>4. LeaseKept
    BY <2>1, <1>l
  <2>5. OpenThread(b)'
    BY <2>1, <2>3, <2>4, OpenFrame
  <2>6. Unused(b)'
    BY <2>1 DEF FenceInv, UnusedToken, Unused
  <2>7. ThreadRow(b)'
    <3>1. ThreadRow(b)
      BY DEF FenceInv
    <3>. QED BY <3>1, <2>1, <2>3 DEF ThreadRow
  <2>8. AdmittedAfterDeps(p)'
    BY <2>1, DepsFrame
  <2>9. Apart(b, c)'
    BY <2>1, ApartFrame
  <2>. QED BY <2>5, <2>6, <2>7, <2>8, <2>9 DEF Fences
<1>4. ASSUME NEW o \in Op, Reserve(x, o) PROVE Fences(b, c, p)'
  <2>1. PICK a \in AttemptsOf(o) :
             /\ IF Waits(x) \cap AttemptsOf(o) # {} THEN a \in Waits(x)
                ELSE Free(a) /\ \A d \in AttemptsOf(o) : Free(d) => a[2] <= d[2]
             /\ owner' = [owner EXCEPT ![a] = x]
             /\ at' = [at EXCEPT ![a] = "wait"]
             /\ \/ /\ ~ Clashing(a, {"active", "quarantined"})
                   /\ row' = [row EXCEPT ![a] = "active"]
                \/ row' = [row EXCEPT ![a] = IF a \in Waits(x) THEN row[a] ELSE "pending"]
    BY <1>4, ZenonT(30) DEF Reserve
  <2>2. a \in Attempt /\ OpOf(a) = o /\ DOMAIN row = Attempt
    BY DEF AttemptsOf, TypeOK
  <2>3. UNCHANGED <<lease, live, st, token, dispatched, admission>>
    BY <1>4 DEF Reserve
  <2>4. a \in Waits(x) \/ Free(a)
    BY <2>1
  <2>5. admission[o] = a => owner[a] = x /\ at[a] = "wait"
    <3>1. AdmissionHasToken /\ UnusedToken
      BY DEF FenceInv
    <3>. QED BY <3>1, <2>2, <2>4, BoundAssumption DEF Waits, Free, AdmissionHasToken, UnusedToken
  <2>6. LeaseKept
    BY <2>3, <1>l
  <2>7. b # a => at'[b] = at[b] /\ owner'[b] = owner[b] /\ row'[b] = row[b]
    BY <2>1, <2>2
  <2>8. b = a => at'[b] = "wait" /\ owner'[b] = x
    BY <2>1, <2>2, Domains
  <2>9. Unused(b)'
    BY <2>3, <2>7, <2>8 DEF FenceInv, UnusedToken, Unused
  <2>10. OpenThread(b)'
    <3>1. CASE b # a
      BY <3>1, <2>3, <2>6, <2>7, OpenFrame
    <3>2. CASE b = a
      <4>1. admission[OpOf(b)] = b => owner[b] = x /\ at[b] = "wait"
        BY <3>2, <2>5, <2>2
      <4>2. OpenThread(b)
        BY DEF FenceInv
      <4>3. LeaseHeld(x)' => LeaseHeld(x)
        BY <2>6 DEF LeaseKept
      <4>. QED BY <3>2, <4>1, <4>2, <4>3, <2>3, <2>8 DEF OpenThread
    <3>. QED BY <3>1, <3>2
  <2>11. ThreadRow(b)'
    <3>1. CASE b # a
      BY <3>1, <2>3, <2>7, RowFrame
    <3>2. CASE b = a
      BY <3>2, <2>8 DEF ThreadRow
    <3>. QED BY <3>1, <3>2
  <2>12. AdmittedAfterDeps(p)'
    BY <2>3, DepsFrame
  <2>13. Apart(b, c)'
    <3>1. CASE row' = [row EXCEPT ![a] = IF a \in Waits(x) THEN row[a] ELSE "pending"]
      <4>1. \A d \in Attempt : row'[d] \in Held => row[d] \in Held
        BY <3>1, <2>2 DEF Held
      <4>. QED BY <4>1, ApartFrame
    <3>2. CASE ~ Clashing(a, {"active", "quarantined"}) /\ row' = [row EXCEPT ![a] = "active"]
      <4>1. \A d \in Attempt : d # a /\ row[d] \in Held =>
               <<OpOf(a), OpOf(d)>> \notin Clash /\ <<OpOf(d), OpOf(a)>> \notin Clash
        BY <3>2, <2>2, OpOfAttempt, StepAssumption, ZenonT(30) DEF Clashing, Held
      <4>2. Apart(b, c)
        BY DEF FenceInv, HeldApart, Apart, Held
      <4>. QED BY <4>1, <4>2, <3>2, <2>2, ZenonT(30) DEF Apart
    <3>. QED BY <2>1, <3>1, <3>2
  <2>. QED BY <2>9, <2>10, <2>11, <2>12, <2>13 DEF Fences
<1>5. CASE ClaimReady(x)
  <2>1. PICK a \in Waits(x) :
             \/ /\ row' = [row EXCEPT ![a] = IF @ = "quarantined" THEN @ ELSE "released"]
                /\ at' = [at EXCEPT ![a] = "done"]
                /\ UNCHANGED <<token, admission>>
             \/ UNCHANGED <<row, at, token, admission>>
             \/ /\ ~ ClaimRefused(OpOf(a))
                /\ admission' = [admission EXCEPT ![OpOf(a)] = a]
                /\ token' = [token EXCEPT ![OpOf(a)] = a]
                /\ UNCHANGED <<row, at>>
    BY <1>5, ZenonT(30) DEF ClaimReady
  <2>2. /\ a \in Attempt /\ owner[a] = x /\ at[a] = "wait" /\ OpOf(a) \in Op
        /\ UNCHANGED <<lease, live, st, dispatched, owner>> /\ DOMAIN row = Attempt
    BY <1>5, <2>1, OpOfAttempt DEF ClaimReady, Waits, TypeOK
  <2>3. LeaseKept
    BY <2>2, <1>l
  <2>4. CASE UNCHANGED <<token, admission>>
    <3>1. \A d \in Attempt : /\ at'[d] = at[d] \/ at'[d] = "done"
                             /\ d # a => row'[d] = row[d]
                             /\ row'[d] \in Held => row[d] \in Held
      BY <2>1, <2>2, Domains DEF Held
    <3>2. Unused(b)'
      BY <2>4, <3>1 DEF FenceInv, UnusedToken, Unused
    <3>3. b = a => at'[b] \in {"wait", "done"}
      BY <3>1, <2>2
    <3>4. OpenThread(b)'
      BY <2>2, <2>3, <2>4, <3>1, <3>3, OpenFrame DEF Unsettled
    <3>5. ThreadRow(b)'
      BY <2>2, <2>4, <3>1, <3>3, RowFrame DEF Unsettled
    <3>6. AdmittedAfterDeps(p)'
      BY <2>2, <2>4, DepsFrame
    <3>7. Apart(b, c)'
      BY <3>1, ApartFrame
    <3>. QED BY <3>2, <3>4, <3>5, <3>6, <3>7 DEF Fences
  <2>5. CASE /\ ~ ClaimRefused(OpOf(a)) /\ UNCHANGED <<row, at>>
             /\ admission' = [admission EXCEPT ![OpOf(a)] = a]
             /\ token' = [token EXCEPT ![OpOf(a)] = a]
    <3>1. /\ st[OpOf(a)] \in {"created", "failed"} /\ admission[OpOf(a)] = NoAttempt
          /\ \A q \in Deps[OpOf(a)] : st[q] \in Success
      BY <2>5 DEF ClaimRefused
    <3>2. Unused(b)'
      <4>1. b # a => token'[OpOf(b)] # b \/ token'[OpOf(b)] = token[OpOf(b)]
        BY <2>5, <2>2, <1>o DEF TypeOK
      <4>2. b = a => at'[b] # "free"
        BY <2>5, <2>2
      <4>. QED BY <4>1, <4>2, <2>5 DEF FenceInv, UnusedToken, Unused
    <3>3. OpenThread(b)'
      <4>1. CASE b # a
        <5>1. admission'[OpOf(b)] = b => admission[OpOf(b)] = b
          BY <4>1, <2>5, <2>2, <1>o, Domains
        <5>. QED BY <5>1, <2>2, <2>3, <2>5, OpenFrame
      <4>2. CASE b = a
        BY <4>2, <3>1, <2>2, <2>5 DEF OpenThread
      <4>. QED BY <4>1, <4>2
    <3>4. ThreadRow(b)'
      <4>1. ThreadRow(b)
        BY DEF FenceInv
      <4>2. at[b] = "acting" /\ admission[OpOf(b)] = b => admission'[OpOf(b)] = admission[OpOf(b)]
        BY <3>1, <2>5, <2>2, <1>o, Domains, BoundAssumption
      <4>. QED BY <4>1, <4>2, <2>2, <2>5 DEF ThreadRow
    <3>5. AdmittedAfterDeps(p)'
      <4>1. CASE p = OpOf(a)
        BY <4>1, <3>1, <2>2 DEF AdmittedAfterDeps
      <4>2. CASE p # OpOf(a)
        <5>1. admission'[p] = admission[p]
          BY <4>2, <2>5, <2>2, Domains
        <5>. QED BY <5>1, <2>2, DepsFrame
      <4>. QED BY <4>1, <4>2
    <3>6. Apart(b, c)'
      BY <2>5, ApartFrame
    <3>. QED BY <3>2, <3>3, <3>4, <3>5, <3>6 DEF Fences
  <2>. QED BY <2>1, <2>4, <2>5
<1>6. CASE BindAndSubmit(x)
  <2>1. PICK a \in Waits(x) : at' = at \/ (row[a] = "active" /\ at' = [at EXCEPT ![a] = "start"])
    BY <1>6, ZenonT(30) DEF BindAndSubmit
  <2>2. /\ a \in Attempt /\ at[a] = "wait"
        /\ UNCHANGED <<lease, live, st, token, admission, dispatched, row, owner>>
    BY <1>6, <2>1 DEF BindAndSubmit, Waits
  <2>3. LeaseKept
    BY <2>2, <1>l
  <2>4. at'[b] = at[b] \/ (at[b] = "wait" /\ at'[b] = "start" /\ row[b] = "active")
    BY <2>1, <2>2, Domains
  <2>5. Unused(b)'
    BY <2>2, <2>4 DEF FenceInv, UnusedToken, Unused
  <2>6. OpenThread(b)'
    <3>1. OpenThread(b)
      BY DEF FenceInv
    <3>2. LeaseHeld(owner[b])' => LeaseHeld(owner[b])
      BY <2>2, <2>3 DEF LeaseKept, LeaseHeld
    <3>. QED BY <3>1, <3>2, <2>2, <2>4 DEF OpenThread
  <2>7. ThreadRow(b)'
    <3>1. ThreadRow(b)
      BY DEF FenceInv
    <3>. QED BY <3>1, <2>2, <2>4 DEF ThreadRow
  <2>8. AdmittedAfterDeps(p)'
    BY <2>2, DepsFrame
  <2>9. Apart(b, c)'
    BY <2>2, ApartFrame
  <2>. QED BY <2>5, <2>6, <2>7, <2>8, <2>9 DEF Fences
<1>7. CASE Await(x) \/ ReleaseLease(x)
  <2>1. UNCHANGED <<st, token, admission, dispatched, row, owner>>
    BY <1>7 DEF Await, ReleaseLease
  <2>2. \A a \in Attempt : at'[a] = at[a] \/ at'[a] = "done"
    BY <1>7 DEF Await, ReleaseLease
  <2>3. (lease' = lease /\ live' = live) \/ live' = FALSE
    BY <1>7, ZenonT(30) DEF Await, ReleaseLease
  <2>4. LeaseKept
    BY <2>3, ZenonT(30) DEF LeaseKept, LeaseHeld
  <2>. QED BY <2>1, <2>2, <2>4, QuietFences DEF Unsettled
<1>8. CASE ReleaseWaits(x)
  <2>1. UNCHANGED <<lease, live, st, token, admission, dispatched, owner>>
    BY <1>8 DEF ReleaseWaits
  <2>2. \A a \in Attempt : /\ at'[a] = at[a] \/ at'[a] = "done"
                           /\ at[a] = "wait" \/ row'[a] = row[a]
                           /\ row'[a] \in Held => row[a] \in Held
    BY <1>8 DEF ReleaseWaits, Waits, Held
  <2>3. LeaseKept
    BY <2>1, <1>l
  <2>4. Unused(b)'
    BY <2>1, <2>2 DEF FenceInv, UnusedToken, Unused
  <2>5. OpenThread(b)'
    BY <2>1, <2>2, <2>3, OpenFrame DEF Unsettled
  <2>6. ThreadRow(b)'
    BY <2>1, <2>2, RowFrame DEF Unsettled
  <2>7. AdmittedAfterDeps(p)'
    BY <2>1, DepsFrame
  <2>8. Apart(b, c)'
    BY <2>2, ApartFrame
  <2>. QED BY <2>4, <2>5, <2>6, <2>7, <2>8 DEF Fences
<1>. QED BY <1>1, <1>2, <1>3, <1>4, <1>5, <1>6, <1>7, <1>8 DEF Coordinator

\* A thread step does, the crossing of the barrier included.
LEMMA ThreadFences ==
  ASSUME TypeOK, FenceInv, SuccessKept, NEW a \in Attempt, ThreadStep(a),
         NEW b \in Attempt, NEW c \in Attempt, NEW p \in Op
  PROVE  Fences(b, c, p)'
<1> USE DEF wfVars, opVars, threadVars, execVars, boundVars, Thread
<1>o. OpOf(a) \in Op /\ OpOf(b) \in Op
  BY OpOfAttempt
<1>l. lease' = lease /\ live' = live => LeaseKept
  BY LeaseFrame
<1>i. OpenThread(a) /\ ThreadRow(a) /\ OpenThread(b) /\ ThreadRow(b)
  BY DEF FenceInv
<1>h. Fenced(a) => admission[OpOf(a)] = a /\ LeaseHeld(owner[a])
  BY DEF Fenced
<1>1. CASE Prepare(a) \/ AbortBeforeDispatch(a) \/ FinishAction(a)
  <2>1. /\ UNCHANGED <<lease, live, st, token, admission, dispatched, row, owner>>
        /\ \/ at[a] = "start" /\ at' = [at EXCEPT ![a] = "prepared"]
           \/ /\ at[a] \in {"start", "prepared", "acting"}
              /\ at' = [at EXCEPT ![a] = "settling"]
    BY <1>1 DEF Prepare, AbortBeforeDispatch, FinishAction
  <2>2. \A d \in Attempt : \/ at'[d] = at[d]
                           \/ at[d] = "start" /\ at'[d] = "prepared"
                           \/ at[d] \in {"start", "prepared", "acting"} /\ at'[d] = "settling"
    BY <2>1, Domains
  <2>3. LeaseKept
    BY <2>1, <1>l
  <2>. QED BY <2>1, <2>2, <2>3, QuietFences DEF Unsettled
<1>2. CASE PersistExternalRef(a) \/ TakeCapacity(a) \/ ReturnCapacity(a)
  <2>1. UNCHANGED <<lease, live, st, token, admission, dispatched, row, owner, at>>
    BY <1>2, ZenonT(30) DEF PersistExternalRef, TakeCapacity, ReturnCapacity
  <2>. QED BY <2>1, <1>l, QuietFences
<1>3. CASE MayDispatch(a)
  <2>1. /\ UNCHANGED <<lease, live, token, admission, row, owner>>
        /\ st' = [st EXCEPT ![OpOf(a)] = "running"]
        /\ dispatched' = [dispatched EXCEPT ![OpOf(a)] = @ + 1]
        /\ at' = [at EXCEPT ![a] = "acting"]
        /\ at[a] = "prepared" /\ Fenced(a)
    BY <1>3 DEF MayDispatch, DispatchAllowed
  <2>2. row[a] = "active" /\ admission[OpOf(a)] = a
    BY <2>1, <1>h, <1>i DEF OpenThread
  <2>3. /\ st'[OpOf(b)] = st[OpOf(b)] \/ st'[OpOf(b)] = "running"
        /\ b = a => st'[OpOf(b)] = "running" /\ at'[b] = "acting"
        /\ b # a => at'[b] = at[b]
    BY <2>1, <1>o, Domains
  <2>4. LeaseKept
    BY <2>1, <1>l
  <2>5. Unused(b)'
    BY <2>1, <2>3 DEF FenceInv, UnusedToken, Unused
  <2>6. OpenThread(b)'
    BY <2>1, <2>3, <2>4, OpenFrame DEF Unsettled
  <2>7. ThreadRow(b)'
    BY <2>1, <2>2, <2>3, <1>i DEF ThreadRow
  <2>8. AdmittedAfterDeps(p)'
    <3>1. dispatched'[p] = dispatched[p] \/ p = OpOf(a)
      BY <2>1, <1>o, Domains
    <3>2. admission[OpOf(a)] # NoAttempt
      BY <2>2, BoundAssumption
    <3>. QED BY <2>1, <3>1, <3>2, DepsFrame
  <2>9. Apart(b, c)'
    BY <2>1, ApartFrame
  <2>. QED BY <2>5, <2>6, <2>7, <2>8, <2>9 DEF Fences
<1>4. CASE Complete(a)
  <2>1. /\ at[a] = "settling" /\ Fenced(a)
        /\ st' = [st EXCEPT ![OpOf(a)] = Recorded(a, fin[a])]
        /\ admission' = [admission EXCEPT ![OpOf(a)] = NoAttempt]
        /\ at' = [at EXCEPT ![a] = "release"]
        /\ UNCHANGED <<lease, live, token, dispatched, row, owner>>
    BY <1>4, ZenonT(30) DEF Complete
  <2>2. /\ OpOf(b) # OpOf(a) => st'[OpOf(b)] = st[OpOf(b)] /\ admission'[OpOf(b)] = admission[OpOf(b)]
        /\ OpOf(b) = OpOf(a) => admission'[OpOf(b)] = NoAttempt
        /\ b # a => at'[b] = at[b]
        /\ b = a => at'[b] = "release"
    BY <2>1, <1>o, Domains
  <2>3. b # a => OpOf(b) # OpOf(a) \/ admission[OpOf(b)] # b
    BY <2>1, <1>h
  <2>4. LeaseKept
    BY <2>1, <1>l
  <2>5. Unused(b)'
    BY <2>1, <2>2 DEF FenceInv, UnusedToken, Unused
  <2>6. OpenThread(b)'
    <3>1. CASE OpOf(b) = OpOf(a)
      BY <3>1, <2>2, BoundAssumption DEF OpenThread
    <3>2. CASE OpOf(b) # OpOf(a)
      BY <3>2, <2>1, <2>2, <2>4, OpenFrame
    <3>. QED BY <3>1, <3>2
  <2>7. ThreadRow(b)'
    BY <2>1, <2>2, <2>3, <1>i DEF ThreadRow
  <2>8. AdmittedAfterDeps(p)'
    <3>1. admission'[p] # NoAttempt => admission[p] # NoAttempt
      BY <2>1, <1>o, Domains
    <3>. QED BY <3>1, <2>1, DepsFrame
  <2>9. Apart(b, c)'
    BY <2>1, ApartFrame
  <2>. QED BY <2>5, <2>6, <2>7, <2>8, <2>9 DEF Fences
<1>5. CASE LoseOwnership(a) \/ SettleResource(a)
  <2>1. /\ UNCHANGED <<lease, live, st, token, admission, dispatched, owner>>
        /\ at[a] \in {"settling", "release"}
        /\ \E t \in {"lost", "raised", "settled"} : at' = [at EXCEPT ![a] = t]
    BY <1>5 DEF LoseOwnership, SettleResource
  <2>2. /\ DOMAIN row = Attempt
        /\ at[a] = "settling" => row[a] # "pending"
    BY <1>i DEF TypeOK, ThreadRow
  <2>3. \A d \in Attempt : /\ d # a => row'[d] = row[d]
                           /\ row'[d] \in Held => row[d] \in Held
    BY <1>5, <2>2 DEF LoseOwnership, SettleResource, Unreleased, Held
  <2>4. /\ b # a => at'[b] = at[b] /\ row'[b] = row[b]
        /\ b = a => at'[b] \in {"lost", "raised", "settled"}
    BY <2>1, <2>3, Domains
  <2>5. LeaseKept
    BY <2>1, <1>l
  <2>6. Unused(b)'
    BY <2>1, <2>4 DEF FenceInv, UnusedToken, Unused
  <2>7. OpenThread(b)'
    BY <2>1, <2>4, <2>5, OpenFrame DEF Unsettled
  <2>8. ThreadRow(b)'
    BY <2>1, <2>4, RowFrame DEF Unsettled
  <2>9. AdmittedAfterDeps(p)'
    BY <2>1, DepsFrame
  <2>10. Apart(b, c)'
    BY <2>3, ApartFrame
  <2>. QED BY <2>6, <2>7, <2>8, <2>9, <2>10 DEF Fences
<1>. QED BY <1>1, <1>2, <1>3, <1>4, <1>5 DEF ThreadStep

\* Crashes, recovery, resumes and resolutions do.
LEMMA EnvironmentFences ==
  ASSUME TypeOK, FenceInv, SuccessKept,
         (\E x \in Exec : Crash(x)) \/ ExpireLease \/ RecoverInterrupted \/ Operator,
         NEW b \in Attempt, NEW c \in Attempt, NEW p \in Op
  PROVE  Fences(b, c, p)'
<1> USE DEF wfVars, opVars, threadVars, execVars, boundVars
<1>o. OpOf(b) \in Op /\ OpOf(c) \in Op
  BY OpOfAttempt
<1>l. lease' = lease /\ live' = live => LeaseKept
  BY LeaseFrame
<1>i. OpenThread(b) /\ ThreadRow(b)
  BY DEF FenceInv
<1>1. CASE (\E x \in Exec : Crash(x)) \/ ExpireLease \/ RequestCancel
  <2>1. UNCHANGED <<st, token, admission, dispatched, row, owner>>
    BY <1>1 DEF Crash, ExpireLease, RequestCancel
  <2>2. \A d \in Attempt : at'[d] = at[d] \/ at'[d] = "dead"
    BY <1>1 DEF Crash, ExpireLease, RequestCancel
  <2>3. (lease' = lease /\ live' = live) \/ live' = FALSE
    BY <1>1, ZenonT(30) DEF Crash, ExpireLease, RequestCancel
  <2>4. LeaseKept
    BY <2>3, ZenonT(30) DEF LeaseKept, LeaseHeld
  <2>. QED BY <2>1, <2>2, <2>4, QuietFences DEF Unsettled
<1>2. CASE RecoverInterrupted
  <2>1. /\ UNCHANGED <<token, dispatched, owner, at>>
        /\ \A q \in Op : admission'[q] # NoAttempt => admission'[q] = admission[q]
    BY <1>2 DEF RecoverInterrupted
  <2>2. live' = FALSE
    BY <1>2, ZenonT(30) DEF RecoverInterrupted
  <2>3. \A d \in Attempt : row'[d] = RecoveredRow(d)
    BY <1>2 DEF RecoverInterrupted
  <2>4. \A d \in Attempt : /\ row'[d] \in Held => row[d] \in Held
                           /\ row'[d] = "pending" => row[d] = "pending"
    BY <2>3 DEF RecoveredRow, Held
  <2>5. Unused(b)'
    BY <2>1 DEF FenceInv, UnusedToken, Unused
  <2>6. OpenThread(b)'
    <3>1. ~ LeaseHeld(owner[b])'
      BY <2>2, ZenonT(30) DEF LeaseHeld
    <3>. QED BY <3>1, <2>1 DEF OpenThread
  <2>7. ThreadRow(b)'
    <3>1. at[b] = "acting" => row'[b] = "quarantined"
      BY <2>3, <1>i DEF ThreadRow, RecoveredRow, RecoveredState, SafePending, Settled
    <3>. QED BY <3>1, <2>1, <2>4, <1>i DEF ThreadRow
  <2>8. AdmittedAfterDeps(p)'
    BY <2>1, DepsFrame
  <2>9. Apart(b, c)'
    BY <2>4, ApartFrame
  <2>. QED BY <2>5, <2>6, <2>7, <2>8, <2>9 DEF Fences
<1>3. CASE Resume
  <2>1. /\ UNCHANGED <<lease, live, admission, dispatched, row, owner, at>>
        /\ \A q \in Op : token'[q] \in {token[q], NoAttempt}
        /\ \A q \in Op : st'[q] = st[q] \/ (st[q] = "failed" /\ st'[q] = "created")
    BY <1>3 DEF Resume
  <2>2. Unused(b)'
    BY <2>1, <1>o, BoundAssumption DEF FenceInv, UnusedToken, Unused
  <2>3. OpenThread(b)'
    BY <2>1, <1>o, <1>l, OpenFrame
  <2>4. ThreadRow(b)'
    BY <2>1, <1>o, <1>i DEF ThreadRow
  <2>5. AdmittedAfterDeps(p)'
    BY <2>1, DepsFrame
  <2>6. Apart(b, c)'
    BY <2>1, ApartFrame
  <2>. QED BY <2>2, <2>3, <2>4, <2>5, <2>6 DEF Fences
<1>4. ASSUME NEW o \in Op,
             NEW final \in {"succeeded", "failed", "uncertain", "acknowledged", "unresolvable"},
             ResolveUncertain(o, final)
      PROVE  Fences(b, c, p)'
  <2>1. /\ UNCHANGED <<lease, live, token, dispatched, row, owner, at>>
        /\ st[o] = "uncertain" /\ st' = [st EXCEPT ![o] = final]
        /\ \A q \in Op : admission'[q] \in {admission[q], NoAttempt}
        /\ \A q \in Op : q # o => admission'[q] = admission[q]
    BY <1>4, Domains DEF ResolveUncertain
  <2>2. OpOf(b) # o => st'[OpOf(b)] = st[OpOf(b)] /\ admission'[OpOf(b)] = admission[OpOf(b)]
    BY <2>1, <1>o, Domains
  <2>3. LeaseKept
    BY <2>1, <1>l
  <2>4. Unused(b)'
    BY <2>1 DEF FenceInv, UnusedToken, Unused
  <2>5. OpenThread(b)'
    <3>1. CASE OpOf(b) # o
      BY <3>1, <2>1, <2>2, <2>3, OpenFrame
    <3>2. CASE OpOf(b) = o
      <4>1. admission'[o] = b => admission[o] = b
        BY <3>2, <2>1, BoundAssumption
      <4>2. LeaseHeld(owner[b])' => LeaseHeld(owner[b])
        BY <2>1, <2>3 DEF LeaseKept, LeaseHeld
      <4>. QED BY <3>2, <4>1, <4>2, <2>1, <1>i DEF OpenThread
    <3>. QED BY <3>1, <3>2
  <2>6. ThreadRow(b)'
    BY <2>1, <2>2, <1>i DEF ThreadRow
  <2>7. AdmittedAfterDeps(p)'
    BY <2>1, DepsFrame
  <2>8. Apart(b, c)'
    BY <2>1, ApartFrame
  <2>. QED BY <2>4, <2>5, <2>6, <2>7, <2>8 DEF Fences
<1>5. ASSUME NEW a \in Attempt, ResolveQuarantined(a) PROVE Fences(b, c, p)'
  <2>1. /\ UNCHANGED <<lease, live, st, token, dispatched, owner, at>>
        /\ row[a] = "quarantined" /\ at[a] # "acting"
        /\ row' = [row EXCEPT ![a] = "released"]
    BY <1>5 DEF ResolveQuarantined
  <2>2. \A q \in Op : /\ admission'[q] \in {admission[q], NoAttempt}
                      /\ st[q] \notin Settled => admission'[q] = admission[q]
    <3>1. CASE wf = "uncertain" BY <3>1, <1>5 DEF ResolveQuarantined
    <3>2. CASE wf # "uncertain" BY <3>2, <1>5 DEF ResolveQuarantined
    <3>. QED BY <3>1, <3>2
  <2>3. \A d \in Attempt : /\ d # a => row'[d] = row[d]
                           /\ d = a => row'[d] = "released"
    BY <2>1 DEF TypeOK
  <2>4. LeaseKept
    BY <2>1, <1>l
  <2>5. Unused(b)'
    BY <2>1 DEF FenceInv, UnusedToken, Unused
  <2>6. OpenThread(b)'
    <3>1. admission'[OpOf(b)] = b => admission[OpOf(b)] = b
      BY <2>2, <1>o, BoundAssumption
    <3>2. LeaseHeld(owner[b])' => LeaseHeld(owner[b])
      BY <2>1, <2>4 DEF LeaseKept, LeaseHeld
    <3>3. row[b] = "active" => row'[b] = "active"
      BY <2>1, <2>3
    <3>. QED BY <3>1, <3>2, <3>3, <2>1, <1>i DEF OpenThread
  <2>7. ThreadRow(b)'
    <3>1. st[OpOf(b)] = "running" => admission'[OpOf(b)] = admission[OpOf(b)]
      BY <2>2, <1>o DEF Settled
    <3>. QED BY <3>1, <2>1, <2>3, <1>i DEF ThreadRow
  <2>8. AdmittedAfterDeps(p)'
    BY <2>1, <2>2, DepsFrame
  <2>9. Apart(b, c)'
    BY <2>3, ApartFrame DEF Held
  <2>. QED BY <2>5, <2>6, <2>7, <2>8, <2>9 DEF Fences
<1>. QED BY <1>1, <1>2, <1>3, <1>4, <1>5 DEF Operator

\* A completed workflow stays quiet, and one becomes completed only when it is.
LEMMA QuietStep ==
  ASSUME TypeOK, FenceInv, SuccessKept, Next, \A a \in Attempt : ThreadRow(a)'
  PROVE  CompletedQuiet'
<1> USE DEF wfVars, opVars, threadVars, execVars, boundVars
<1>1. ASSUME NEW x \in Exec, Coordinator(x) PROVE CompletedQuiet'
  <2> USE DEF Goto
  <2>1. CASE \/ ReadQueued(x) \/ AcquireLease(x) \/ StartRunning(x) \/ Drain(x) \/ ReleaseLease(x)
             \/ \E expired \in BOOLEAN : Observe(x, expired)
             \/ \E o \in Op : FootprintFails(x, o) \/ ReserveRaises(x, o)
    <3>1. UNCHANGED <<row, at, owner>> /\ (wf' = "completed" => wf = "completed")
      BY <2>1 DEF ReadQueued, AcquireLease, StartRunning, Drain, ReleaseLease, Observe,
         FootprintFails, ReserveRaises
    <3>2. \/ ex' = ex
          \/ \E place \in {"read", "leased", "done", "observe", "finally", "admit", "drain"} :
                ex' = [ex EXCEPT ![x] = place]
      BY <2>1 DEF ReadQueued, AcquireLease, StartRunning, Drain, ReleaseLease, Observe,
         FootprintFails, ReserveRaises
    <3>3. \A y \in Exec : ex'[y] = "bind" => ex[y] = "bind"
      BY <3>2, Domains
    <3>. QED BY <3>1, <3>3, QuietFrame
  <2>2. ASSUME NEW o \in Op, Reserve(x, o) PROVE CompletedQuiet'
    <3>1. PICK a \in AttemptsOf(o) :
               /\ owner' = [owner EXCEPT ![a] = x]
               /\ at' = [at EXCEPT ![a] = "wait"]
               /\ \/ row' = [row EXCEPT ![a] = "active"]
                  \/ row' = [row EXCEPT ![a] = IF a \in Waits(x) THEN row[a] ELSE "pending"]
               /\ ex' = ex \/ ex' = [ex EXCEPT ![x] = "claim"]
      BY <2>2, ZenonT(30) DEF Reserve
    <3>2. /\ a \in Attempt /\ ex[x] = "admit" /\ DOMAIN row = Attempt
          /\ wf' = wf /\ st' = st
      BY <2>2 DEF Reserve, Trying, AttemptsOf, TypeOK
    <3>3. ex'[x] # "bind" /\ \A y \in Exec : ex'[y] = "bind" => ex[y] = "bind"
      BY <3>1, <3>2, Domains
    <3>4. \A d \in Attempt : /\ d # a => at'[d] = at[d] /\ owner'[d] = owner[d] /\ row'[d] = row[d]
                             /\ d = a => at'[d] = "wait" /\ owner'[d] = x
                             /\ row'[d] = "quarantined" => row[d] = "quarantined"
      BY <3>1, <3>2, Domains
    <3>5. CompletedQuiet
      BY DEF FenceInv
    <3>. QED BY <3>2, <3>3, <3>4, <3>5 DEF CompletedQuiet
  <2>3. CASE ClaimReady(x)
    <3>1. PICK a \in Waits(x) :
               \/ /\ row' = [row EXCEPT ![a] = IF @ = "quarantined" THEN @ ELSE "released"]
                  /\ at' = [at EXCEPT ![a] = "done"]
                  /\ ex' = [ex EXCEPT ![x] = "admit"]
               \/ ex' = [ex EXCEPT ![x] = "drain"] /\ UNCHANGED <<row, at>>
               \/ wf = "running"
      BY <2>3, ZenonT(30) DEF ClaimReady, ClaimRefused
    <3>2. a \in Attempt /\ wf' = wf /\ owner' = owner /\ DOMAIN row = Attempt
      BY <2>3, <3>1 DEF ClaimReady, Waits, TypeOK
    <3>3. CASE wf = "running"
      BY <3>2, <3>3 DEF CompletedQuiet
    <3>4. CASE wf # "running"
      <4>1. \A y \in Exec : ex'[y] = "bind" => ex[y] = "bind"
        BY <3>1, <3>4, Domains
      <4>2. \A d \in Attempt : /\ at'[d] = at[d] \/ at'[d] = "done"
                               /\ row'[d] \in Held => row'[d] = row[d]
        BY <3>1, <3>2, <3>4, Domains DEF Held
      <4>. QED BY <4>1, <4>2, <3>2, QuietFrame
    <3>. QED BY <3>3, <3>4
  <2>4. CASE BindAndSubmit(x)
    <3>1. PICK a \in Waits(x) : \/ row[a] = "active" /\ at' = [at EXCEPT ![a] = "start"]
                                \/ at' = at
      BY <2>4, ZenonT(30) DEF BindAndSubmit
    <3>2. /\ a \in Attempt /\ ex[x] = "bind" /\ owner[a] = x /\ at[a] = "wait"
          /\ UNCHANGED <<wf, st, row, owner>>
          /\ \E place \in {"admit", "drain"} : ex' = [ex EXCEPT ![x] = place]
      BY <2>4, <3>1 DEF BindAndSubmit, Waits
    <3>3. \A y \in Exec : ex'[y] = "bind" => ex[y] = "bind"
      BY <3>2, Domains
    <3>4. CASE at' = at
      BY <3>2, <3>3, <3>4, QuietFrame
    <3>5. CASE row[a] = "active"
      <4>1. wf # "completed"
        BY <3>2, <3>5 DEF FenceInv, CompletedQuiet
      <4>. QED BY <4>1, <3>2 DEF CompletedQuiet
    <3>. QED BY <3>1, <3>4, <3>5
  <2>5. CASE Await(x) \/ ReleaseWaits(x)
    <3>1. /\ UNCHANGED <<wf, owner>>
          /\ \E place \in {"drain", "observe", "unlease"} : ex' = [ex EXCEPT ![x] = place]
      BY <2>5 DEF Await, ReleaseWaits
    <3>2. \A a \in Attempt : /\ at'[a] = at[a] \/ at'[a] = "done"
                             /\ row'[a] = row[a] \/ row'[a] = "released"
      BY <2>5 DEF Await, ReleaseWaits
    <3>3. \A y \in Exec : ex'[y] = "bind" => ex[y] = "bind"
      BY <3>1, Domains
    <3>. QED BY <3>1, <3>2, <3>3, QuietFrame DEF Held
  <2>6. CASE Conclude(x)
    <3>1. /\ UNCHANGED <<st, admission, row, at, owner>>
          /\ \E place \in {"observe", "finally"} : ex' = [ex EXCEPT ![x] = place]
      BY <2>6 DEF Conclude
    <3>2. wf' = wf \/ wf' = Aggregate(st, admission, row, stop[x] = "no")
      BY <2>6, ZenonT(30) DEF Conclude
    <3>3. \A y \in Exec : ex'[y] = "bind" => ex[y] = "bind"
      BY <3>1, Domains
    <3>4. CASE wf' = wf
      BY <3>1, <3>3, <3>4, QuietFrame
    <3>5. CASE wf' = Aggregate(st, admission, row, stop[x] = "no")
      BY <3>1, <3>5, QuietAggregate
    <3>. QED BY <3>2, <3>4, <3>5
  <2>. QED BY <1>1, <2>1, <2>2, <2>3, <2>4, <2>5, <2>6 DEF Coordinator
<1>2. ASSUME NEW a \in Attempt, ThreadStep(a) PROVE CompletedQuiet'
  <2> USE DEF Thread
  <2>i. OpenThread(a) /\ ThreadRow(a) /\ CompletedQuiet
    BY DEF FenceInv
  <2>1. UNCHANGED <<wf, owner, ex>>
    BY <1>2, ZenonT(30) DEF ThreadStep, Prepare, MayDispatch, AbortBeforeDispatch,
       PersistExternalRef, TakeCapacity, ReturnCapacity, FinishAction, Complete, LoseOwnership,
       SettleResource
  <2>2. CASE MayDispatch(a)
    <3>1. Fenced(a) /\ at[a] = "prepared"
      BY <2>2 DEF MayDispatch, DispatchAllowed
    <3>2. st[OpOf(a)] \in {"created", "failed", "running"} /\ OpOf(a) \in Op
      BY <3>1, <2>i, OpOfAttempt DEF OpenThread, Fenced
    <3>3. wf # "completed"
      BY <3>2, <2>i DEF CompletedQuiet, Success
    <3>. QED BY <3>3, <2>1 DEF CompletedQuiet
  <2>3. CASE LoseOwnership(a) \/ SettleResource(a)
    <3>1. /\ at[a] \in {"settling", "release"} /\ st' = st
          /\ \E t \in {"lost", "raised", "settled"} : at' = [at EXCEPT ![a] = t]
      BY <2>3 DEF LoseOwnership, SettleResource
    <3>2. wf = "completed" => row[a] \notin Held /\ (at[a] = "settling" => row[a] # "pending")
      BY <3>1, <2>i DEF CompletedQuiet, ThreadRow, Held
    <3>3. wf = "completed" => row' = row
      BY <2>3, <3>2, <3>1 DEF LoseOwnership, SettleResource, Unreleased, Held, TypeOK
    <3>4. \A d \in Attempt : at'[d] = at[d] \/ at'[d] \in {"lost", "raised", "settled"}
      BY <3>1, Domains
    <3>. QED BY <3>1, <3>3, <3>4, <2>1, <2>i DEF CompletedQuiet
  <2>4. CASE ~ (MayDispatch(a) \/ LoseOwnership(a) \/ SettleResource(a))
    <3>1. /\ row' = row
          /\ \/ at' = at
             \/ at[a] = "start" /\ at' = [at EXCEPT ![a] = "prepared"]
             \/ /\ at[a] \in {"start", "prepared", "acting"}
                /\ at' = [at EXCEPT ![a] = "settling"]
             \/ at[a] = "settling" /\ at' = [at EXCEPT ![a] = "release"]
      BY <1>2, <2>4 DEF ThreadStep, Prepare, AbortBeforeDispatch, PersistExternalRef,
         TakeCapacity, ReturnCapacity, FinishAction, Complete
    <3>2. \A d \in Attempt :
             \/ at'[d] = at[d]
             \/ /\ at'[d] \in {"prepared", "settling", "release"}
                /\ at[d] \in {"start", "prepared", "acting", "settling"}
      BY <3>1, Domains
    <3>. QED BY <3>1, <3>2, <2>1, QuietFrame
  <2>. QED BY <2>2, <2>3, <2>4
<1>3. ASSUME NEW x \in Exec, Crash(x) PROVE CompletedQuiet'
  <2>1. UNCHANGED <<wf, row, owner>> /\ ex' = [ex EXCEPT ![x] = "dead"]
    BY <1>3 DEF Crash, Goto
  <2>2. \A d \in Attempt : at'[d] = at[d] \/ at'[d] = "dead"
    BY <1>3 DEF Crash
  <2>3. \A y \in Exec : ex'[y] = "bind" => ex[y] = "bind"
    BY <2>1, Domains
  <2>. QED BY <2>1, <2>2, <2>3, QuietFrame
<1>4. CASE ExpireLease
  BY <1>4, QuietFrame DEF ExpireLease
<1>5. CASE RequestCancel \/ Resume
  BY <1>5 DEF RequestCancel, Resume, CompletedQuiet
<1>6. CASE RecoverInterrupted
  <2>1. \E kept : wf' = Aggregate(st', kept, row', FALSE)
    BY <1>6, ZenonT(30) DEF RecoverInterrupted
  <2>. QED BY <2>1, QuietAggregate, ZenonT(30)
<1>7. ASSUME NEW o \in Op, NEW final, ResolveUncertain(o, final) PROVE CompletedQuiet'
  <2>1. (\E kept : wf' = Aggregate(st', kept, row, FALSE)) /\ row' = row
    BY <1>7, ZenonT(30) DEF ResolveUncertain
  <2>. QED BY <2>1, QuietAggregate, ZenonT(30)
<1>8. ASSUME NEW a \in Attempt, ResolveQuarantined(a) PROVE CompletedQuiet'
  <2>1. /\ UNCHANGED <<st, owner, at, ex>> /\ row' = [row EXCEPT ![a] = "released"]
    BY <1>8 DEF ResolveQuarantined
  <2>2. wf' = wf \/ \E kept : wf' = Aggregate(st, kept, row', FALSE)
    BY <1>8, ZenonT(30) DEF ResolveQuarantined
  <2>3. CASE wf' = wf
    <3>1. \A d \in Attempt : row'[d] \in Held => row'[d] = row[d]
      BY <2>1 DEF TypeOK, Held
    <3>. QED BY <3>1, <2>1, <2>3, QuietFrame
  <2>4. CASE \E kept : wf' = Aggregate(st, kept, row', FALSE)
    BY <2>1, <2>4, QuietAggregate, ZenonT(30)
  <2>. QED BY <2>2, <2>3, <2>4, ZenonT(30)
<1>. QED BY <1>1, <1>2, <1>3, <1>4, <1>5, <1>6, <1>7, <1>8 DEF Next, Operator

-----------------------------------------------------------------------------
\* FenceInv is inductive relative to TypeOK.
LEMMA FenceStep == TypeOK /\ FenceInv /\ [Next]_vars => FenceInv'
<1> SUFFICES ASSUME TypeOK, FenceInv, [Next]_vars PROVE FenceInv'
  OBVIOUS
<1>1. CASE UNCHANGED vars
  BY <1>1, ZenonT(30) DEF vars, wfVars, opVars, threadVars, execVars, boundVars, FenceInv,
     AdmissionHasToken, FreshExecution, UnusedToken, OpenThread, ThreadRow, AdmittedAfterDeps,
     HeldApart, CompletedQuiet, LeaseHeld
<1>2. CASE Next
  <2>1. AdmissionHasToken' /\ FreshExecution'
    BY <1>2, TokenStep, FreshStep DEF FenceInv
  <2>2. SuccessKept
    BY <1>2, SuccessStep
  <2>3. ASSUME NEW b \in Attempt, NEW c \in Attempt, NEW p \in Op PROVE Fences(b, c, p)'
    BY <1>2, <2>2, CoordinatorFences, ThreadFences, EnvironmentFences DEF Next
  <2>4. ASSUME NEW b \in Attempt, NEW c \in Attempt
        PROVE  Unused(b)' /\ OpenThread(b)' /\ ThreadRow(b)' /\ Apart(b, c)'
    BY <2>3, OpOfAttempt DEF Fences
  <2>5. ASSUME NEW p \in Op PROVE AdmittedAfterDeps(p)'
    <3>1. <<p, 1>> \in Attempt
      BY BoundAssumption, NonEmptyAssumption DEF Attempt
    <3>. QED BY <2>3, <3>1 DEF Fences
  <2>6. UnusedToken'
    BY <2>4 DEF UnusedToken, Unused
  <2>7. HeldApart'
    BY <2>4 DEF HeldApart, Apart, Held
  <2>8. CompletedQuiet'
    BY <1>2, <2>2, <2>4, QuietStep
  <2>. QED BY <2>1, <2>4, <2>5, <2>6, <2>7, <2>8, ZenonT(30) DEF FenceInv
<1>. QED BY <1>1, <1>2

\* It holds of the freshly queued workflow.
LEMMA FenceInit == Init => FenceInv
<1> SUFFICES ASSUME Init PROVE FenceInv
  OBVIOUS
<1>1. AdmissionHasToken /\ FreshExecution
  BY BoundAssumption, ZenonT(30) DEF Init, AdmissionHasToken, FreshExecution
<1>2. UnusedToken
  BY OpOfAttempt, BoundAssumption DEF Init, UnusedToken
<1>3. \A a \in Attempt : OpenThread(a) /\ ThreadRow(a)
  BY DEF Init, OpenThread, ThreadRow
<1>4. \A o \in Op : AdmittedAfterDeps(o)
  BY DEF Init, AdmittedAfterDeps
<1>5. HeldApart /\ CompletedQuiet
  BY DEF Init, HeldApart, CompletedQuiet
<1>. QED BY <1>1, <1>2, <1>3, <1>4, <1>5 DEF FenceInv

(***************************************************************************)
(* A step with a final outcome keeps it: neither a thread that was late,   *)
(* nor recovery, nor a requeue writes over what complete_operation_attempt *)
(* or a resolution recorded, although mark_operation_may_dispatch does not *)
(* look at the state it overwrites.                                        *)
(***************************************************************************)
THEOREM OutcomesStay == Spec => FinalStays
<1>1. TypeOK /\ FenceInv /\ [Next]_vars =>
         [\A o \in Op : st[o] \in Settled \ {"failed"} => st'[o] = st[o]]_vars
  <2> SUFFICES ASSUME TypeOK, FenceInv, Next, NEW o \in Op, st[o] \in Settled \ {"failed"}
               PROVE  st'[o] = st[o]
    OBVIOUS
  <2>. QED BY FinalStep
<1>. QED BY <1>1, InitType, TypeStep, FenceInit, FenceStep, PTL DEF Spec, FinalStays

(***************************************************************************)
(* claim_ready_operation admits a step after its dependencies, and nothing *)
(* takes their success away: a step that was ever dispatched has them all  *)
(* successful, then and ever after.                                        *)
(***************************************************************************)
THEOREM DependenciesHold == Spec => []DependenciesFirst
<1>1. FenceInv => DependenciesFirst
  BY DEF FenceInv, AdmittedAfterDeps, DependenciesFirst, Success
<1>. QED BY <1>1, InitType, TypeStep, FenceInit, FenceStep, PTL DEF Spec

(***************************************************************************)
(* An attempt that acts, late or not, holds a row that every conflicting   *)
(* step is kept out by, and a workflow that is called completed has        *)
(* neither an action nor a quarantined row left.                           *)
(***************************************************************************)
THEOREM ActsUnderFence == Spec => []NothingUnfenced
<1>1. FenceInv => NothingUnfenced
  <2> SUFFICES ASSUME FenceInv PROVE NothingUnfenced
    OBVIOUS
  <2>1. \A a \in Attempt : at[a] = "acting" => row[a] \in {"active", "quarantined"}
    BY DEF FenceInv, ThreadRow
  <2>2. ActingFenced
    BY <2>1 DEF FenceInv, HeldApart, ActingFenced
  <2>3. CompletedIsClean
    BY DEF FenceInv, CompletedQuiet, CompletedIsClean
  <2>. QED BY <2>2, <2>3 DEF NothingUnfenced
<1>. QED BY <1>1, InitType, TypeStep, FenceInit, FenceStep, PTL DEF Spec
=============================================================================
