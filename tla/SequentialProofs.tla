-------------------------- MODULE SequentialProofs --------------------------
(***************************************************************************)
(* Sequential workflows of any length, with any number of executions,      *)
(* crashes, lost leases, recoveries, resumes and resolutions.              *)
(***************************************************************************)
EXTENDS SequentialWorkflow, FiniteSetTheorems, TLAPS

\* Most leaves need no arithmetic: they are tried with Zenon first, then with SMT, then with Zenon for longer.
USE ZenonT(3), SMTT(60), ZenonT(30)

LEMMA StepRange == StepNo \subseteq 0 .. StepCount /\ StepNo \subseteq Nat /\ 0 \in StepNo
BY SequentialAssumption DEF StepNo

LEMMA StepArithmetic ==
    /\ \A i \in StepNo : i + 1 \in 0 .. StepCount /\ (i + 1 # StepCount => i + 1 \in StepNo)
    /\ \A i \in 0 .. StepCount : i # StepCount => i < StepCount /\ i \in StepNo
BY SequentialAssumption DEF StepNo

\* Unless it is at its end, a workflow has a current step.
LEMMA CurrentStep == SequentialTypes /\ WorkflowRow /\ swf \notin {"completed", "cancelled"} => scur \in StepNo
BY StepArithmetic DEF SequentialTypes, WorkflowRow

LEMMA EmptySnapshot == NoRows \in [states : [StepNo -> OperationStates], attempts : [StepNo -> Nat]]
BY DEF NoRows, OperationStates

\* An execution that forgets what it knew keeps the types.
LEMMA ForgetsTypes ==
    ASSUME SequentialTypes, NEW x \in Run, NEW spot \in {"leaving", "done"}, Forgets(x, spot)
    PROVE  /\ rpc' \in [Run -> LoopPlaces \cup {"idle", "leasing", "starting", "leaving", "done"}]
           /\ ridx' \in [Run -> 0 .. StepCount] /\ ratt' \in [Run -> Nat]
           /\ rsnap' \in [Run -> [states : [StepNo -> OperationStates], attempts : [StepNo -> Nat]]]
           /\ rkind' \in [Run -> {"failed", "uncertain"}]
<1>1. 0 \in 0 .. StepCount
  BY SequentialAssumption
<1>2. ridx' \in [Run -> 0 .. StepCount] /\ ratt' \in [Run -> Nat]
  BY <1>1 DEF Forgets, SequentialTypes
<1>3. rsnap' \in [Run -> [states : [StepNo -> OperationStates], attempts : [StepNo -> Nat]]]
  BY EmptySnapshot DEF Forgets, SequentialTypes
<1>. QED BY <1>2, <1>3 DEF Forgets, Proceed, SequentialTypes

LEMMA LeavesTypes ==
    ASSUME SequentialTypes, NEW x \in Run, Leaves(x)
    PROVE  /\ rpc' \in [Run -> LoopPlaces \cup {"idle", "leasing", "starting", "leaving", "done"}]
           /\ ridx' \in [Run -> 0 .. StepCount] /\ ratt' \in [Run -> Nat]
           /\ rsnap' \in [Run -> [states : [StepNo -> OperationStates], attempts : [StepNo -> Nat]]]
           /\ rseen' \in [Run -> BOOLEAN] /\ rkind' \in [Run -> {"failed", "uncertain"}]
<1>1. rseen' \in [Run -> BOOLEAN]
  BY DEF Leaves, SequentialTypes
<1>. QED BY <1>1, ForgetsTypes DEF Leaves

LEMMA RaisesTypes == \A x \in Run : SequentialTypes /\ Raises(x) => SequentialTypes'
BY LeavesTypes DEF Raises, SequentialTypes, workflowVars, leaseVars, opRows, stepHistory

LEMMA CheckpointTypes ==
    ASSUME SequentialTypes, NEW x \in Run, ridx[x] \in StepNo, NEW from, NEW state \in OperationStates, NEW tried \in Nat,
           NEW to \in LoopPlaces, CheckpointOperation(x, from, state, tried, to)
    PROVE  SequentialTypes'
<1>1. CASE Raises(x)
  BY <1>1, RaisesTypes
<1>2. CASE ~Raises(x)
  <2>1. /\ sop' = [sop EXCEPT ![ridx[x]] = state] /\ stries' = [stries EXCEPT ![ridx[x]] = @ + tried]
        /\ rpc' = [rpc EXCEPT ![x] = to]
        /\ UNCHANGED <<workflowVars, leaseVars, srouted, sstep, runVars, rseen, stepHistory>>
    BY <1>2 DEF CheckpointOperation, Proceed
  <2>. QED BY <2>1 DEF SequentialTypes, workflowVars, leaseVars, runVars, stepHistory
<1>. QED BY <1>1, <1>2

LEMMA CheckpointStepTypes ==
    ASSUME SequentialTypes, NEW x \in Run, ridx[x] \in StepNo, NEW from, NEW state \in StepStates,
           NEW to \in LoopPlaces, CheckpointStep(x, from, state, to)
    PROVE  SequentialTypes'
<1>1. CASE Raises(x)
  BY <1>1, RaisesTypes
<1>2. CASE ~Raises(x)
  <2>1. /\ sstep' = [sstep EXCEPT ![ridx[x]] = state] /\ rpc' = [rpc EXCEPT ![x] = to]
        /\ UNCHANGED <<workflowVars, leaseVars, sop, stries, srouted, runVars, rseen, stepHistory>>
    BY <1>2 DEF CheckpointStep, Proceed
  <2>. QED BY <2>1 DEF SequentialTypes, workflowVars, leaseVars, runVars, stepHistory
<1>. QED BY <1>1, <1>2
-----------------------------------------------------------------------------
\* Every transaction and every step of an execution keeps the types.
LEMMA ExecuteTypes ==
    ASSUME SequentialTypes, NEW x \in Run, AnyRun(x), WorkflowRow, swf = "queued" => scur \in StepNo, Execute(x)
    PROVE  SequentialTypes'
<1>a. rpc[x] \in LoopPlaces \ {"next"} => ridx[x] \in StepNo
  BY DEF AnyRun
<1> USE StepRange DEF SequentialTypes, Proceed, workflowVars, leaseVars, opRows, runVars, stepHistory, LoopPlaces
<1>1. CASE ReadQueuedWorkflow(x) \/ ReadWorkflow(x, "latest", "conclude") \/ ReadWorkflow(x, "failRead", "failWorkflow")
           \/ ReadWorkflow(x, "cancelRead", "cancelWorkflow")
  BY <1>1, ZenonT(30) DEF ReadQueuedWorkflow, ReadWorkflow
<1>2. CASE TakeLease(x)
  BY <1>2 DEF TakeLease
<1>3. CASE BeginRunning(x)
  <2>1. CASE Raises(x)
    BY <2>1, RaisesTypes
  <2>2. CASE ~Raises(x)
    <3>1. /\ swf' = "running" /\ scur' = scur /\ rseen' = [y \in Run |-> FALSE]
          /\ ridx' = [ridx EXCEPT ![x] = scur] /\ rpc' = [rpc EXCEPT ![x] = "listing"]
          /\ UNCHANGED <<scancel, leaseVars, opRows, ratt, rsnap, rkind, stepHistory>>
      BY <1>3, <2>2 DEF BeginRunning, WriteWorkflow
    <3>. QED BY <3>1
  <2>. QED BY <2>1, <2>2
<1>4. CASE ListOperations(x)
  BY <1>4 DEF ListOperations
<1>5. CASE NextStep(x)
  <2>1. CASE Leaves(x)
    BY <1>5, <2>1, LeavesTypes DEF NextStep
  <2>2. CASE ~Leaves(x)
    <3>1. \/ ridx[x] < StepCount /\ ridx' = [ridx EXCEPT ![x] = @ + 1] /\ UNCHANGED <<rpc, ratt>>
          \/ /\ ridx[x] < StepCount /\ UNCHANGED ridx
             /\ \E to \in {"cancelOperation", "plan"} : rpc' = [rpc EXCEPT ![x] = to]
             /\ ratt' = [ratt EXCEPT ![x] = rsnap[x].attempts[ridx[x]] + 1]
      BY <1>5, <2>2 DEF NextStep
    <3>2. UNCHANGED <<workflowVars, leaseVars, opRows, stepHistory, rsnap, rkind, rseen>>
      BY <1>5, <2>2 DEF NextStep
    <3>3. rsnap[x].attempts[ridx[x]] + 1 \in Nat /\ ridx[x] + 1 \in 0 .. StepCount
      <4>1. ridx[x] \in StepNo
        BY <3>1, StepArithmetic
      <4>. QED BY <4>1, StepArithmetic
    <3>4. ridx' \in [Run -> 0 .. StepCount] /\ ratt' \in [Run -> Nat]
      BY <3>1, <3>3
    <3>5. rpc' \in [Run -> LoopPlaces \cup {"idle", "leasing", "starting", "leaving", "done"}]
      BY <3>1
    <3>. QED BY <3>2, <3>4, <3>5
  <2>. QED BY <2>1, <2>2
<1>6. CASE PlanRoute(x)
  <2>1. ridx[x] \in StepNo
    BY <1>6, <1>a DEF PlanRoute
  <2>2. srouted' = srouted \/ srouted' = srouted \cup {ridx[x]}
    BY <1>6 DEF PlanRoute
  <2>3. \E to \in {"begin", "planFailed"} : rpc' = [rpc EXCEPT ![x] = to]
    BY <1>6 DEF PlanRoute
  <2>4. UNCHANGED <<workflowVars, leaseVars, sop, stries, sstep, runVars, rseen, stepHistory>>
    BY <1>6 DEF PlanRoute
  <2>. QED BY <2>1, <2>2, <2>3, <2>4, ZenonT(30)
<1>7. CASE StartAction(x)
  <2>1. sstarted' \in [StepNo -> Nat]
    BY <1>7, <1>a DEF StartAction
  <2>2. slate' \in [Run -> Nat]
    BY <1>7 DEF StartAction
  <2>. QED BY <1>7, <2>1, <2>2 DEF StartAction
<1>8. CASE EndAction(x)
  <2>1. CASE Raises(x)
    BY <2>1, RaisesTypes
  <2>2. CASE ~Raises(x)
    BY <1>8, <2>2, ZenonT(30) DEF EndAction
  <2>. QED BY <2>1, <2>2
<1>9. CASE Conclude(x)
  <2>1. CASE Raises(x)
    BY <2>1, RaisesTypes
  <2>2. CASE ~Raises(x)
    <3>1. /\ swf' \in {"cancelled", "completed", "running"} /\ scur' = ridx[x] + 1 /\ rpc[x] = "conclude"
          /\ rseen' = [y \in Run |-> FALSE]
          /\ UNCHANGED <<scancel, leaseVars, opRows, stepHistory>>
      BY <1>9, <2>2 DEF Conclude, WriteWorkflow
    <3>2. scur' \in 0 .. StepCount
      BY <3>1, <1>a, StepArithmetic
    <3>3. Forgets(x, "leaving") \/ (rpc' = [rpc EXCEPT ![x] = "renew"] /\ UNCHANGED runVars)
      BY <1>9, <2>2 DEF Conclude
    <3>4. CASE Forgets(x, "leaving")
      BY <3>1, <3>2, <3>4, ForgetsTypes
    <3>5. CASE rpc' = [rpc EXCEPT ![x] = "renew"] /\ UNCHANGED runVars
      BY <3>1, <3>2, <3>5
    <3>. QED BY <3>3, <3>4, <3>5
  <2>. QED BY <2>1, <2>2
<1>10. CASE Renew(x)
  <2>1. CASE Raises(x)
    BY <2>1, RaisesTypes
  <2>2. CASE ~Raises(x)
    <3>1. rpc[x] = "renew" /\ rpc' = [rpc EXCEPT ![x] = "next"] /\ ridx' = [ridx EXCEPT ![x] = @ + 1]
      BY <1>10, <2>2 DEF Renew
    <3>2. ridx[x] + 1 \in 0 .. StepCount
      BY <3>1, <1>a, StepArithmetic
    <3>3. UNCHANGED <<workflowVars, leaseVars, opRows, ratt, rsnap, rkind, rseen, stepHistory>>
      BY <1>10, <2>2 DEF Renew
    <3>. QED BY <3>1, <3>2, <3>3
  <2>. QED BY <2>1, <2>2
<1>11. CASE AfterTransient(x)
  <2>1. CASE Leaves(x)
    BY <1>11, <2>1, LeavesTypes DEF AfterTransient
  <2>2. CASE ~Leaves(x)
    BY <1>11, <2>2, ZenonT(30) DEF AfterTransient
  <2>. QED BY <2>1, <2>2
<1>12. CASE TryAgain(x)
  <2>1. CASE Raises(x)
    BY <2>1, RaisesTypes
  <2>2. CASE ~Raises(x)
    <3>1. ratt' = [ratt EXCEPT ![x] = @ + 1] /\ \E to \in {"cancelOperation", "plan"} : rpc' = [rpc EXCEPT ![x] = to]
      BY <1>12, <2>2 DEF TryAgain
    <3>2. UNCHANGED <<workflowVars, leaseVars, opRows, ridx, rsnap, rkind, rseen, stepHistory>>
      BY <1>12, <2>2 DEF TryAgain
    <3>. QED BY <3>1, <3>2
  <2>. QED BY <2>1, <2>2
<1>13. CASE CancelOperation(x)
  <2>1. CASE CheckpointOperation(x, "cancelOperation", "cancelled", 0, "cancelStep")
    BY <2>1, <1>13, <1>a, CheckpointTypes DEF CancelOperation, OperationStates
  <2>2. CASE ~CheckpointOperation(x, "cancelOperation", "cancelled", 0, "cancelStep")
    BY <1>13, <2>2, ZenonT(30) DEF CancelOperation
  <2>. QED BY <2>1, <2>2
<1>14. CASE CancelWorkflow(x)
  <2>1. CASE Raises(x)
    BY <2>1, RaisesTypes
  <2>2. CASE ~Raises(x)
    <3>1. /\ swf' = "cancelled" /\ scur' = ridx[x] /\ rseen' = [y \in Run |-> FALSE] /\ Forgets(x, "leaving")
          /\ UNCHANGED <<scancel, leaseVars, opRows, stepHistory>>
      BY <1>14, <2>2 DEF CancelWorkflow, WriteWorkflow
    <3>. QED BY <3>1, ForgetsTypes
  <2>. QED BY <2>1, <2>2
<1>15. CASE FailWorkflow(x)
  <2>1. CASE Raises(x)
    BY <2>1, RaisesTypes
  <2>2. CASE ~Raises(x)
    <3>1. /\ swf' = rkind[x] /\ scur' = scur /\ rseen' = [y \in Run |-> FALSE] /\ Forgets(x, "leaving")
          /\ UNCHANGED <<scancel, leaseVars, opRows, stepHistory>>
      BY <1>15, <2>2 DEF FailWorkflow, WriteWorkflow
    <3>. QED BY <3>1, ForgetsTypes
  <2>. QED BY <2>1, <2>2
<1>16. CASE RecordUncertain(x)
  <2>1. CASE Raises(x)
    BY <2>1, RaisesTypes
  <2>2. CASE ~Raises(x)
    BY <1>16, <2>2, <1>a, ZenonT(30) DEF RecordUncertain, OperationStates
  <2>. QED BY <2>1, <2>2
<1>17. CASE ReleaseOwnLease(x)
  BY <1>17 DEF ReleaseOwnLease
<1>18. CASE \/ CheckpointOperation(x, "planFailed", "running", 1, "planFailedStep")
            \/ CheckpointOperation(x, "begin", "running", 1, "beginStep")
            \/ CheckpointOperation(x, "succeeded", "succeeded", 0, "succeededStep")
            \/ CheckpointOperation(x, "transientOperation", "failed", 0, "afterTransient")
            \/ CheckpointOperation(x, "failedOperation", "failed", 0, "failStep")
  <2>1. ridx[x] \in StepNo
    BY <1>18, <1>a DEF CheckpointOperation
  <2>. QED BY <1>18, <2>1, CheckpointTypes DEF OperationStates
<1>19. CASE \/ CheckpointStep(x, "planFailedStep", "running", "failedOperation")
            \/ CheckpointStep(x, "beginStep", "running", "act")
            \/ CheckpointStep(x, "succeededStep", "completed", "latest")
            \/ CheckpointStep(x, "failStep", rkind[x], "failRead")
            \/ CheckpointStep(x, "cancelStep", "cancelled", "cancelRead")
  <2>1. ridx[x] \in StepNo /\ rkind[x] \in StepStates
    BY <1>19, <1>a DEF CheckpointStep, StepStates
  <2>2. /\ {"running", "completed", "cancelled"} \subseteq StepStates
        /\ {"failedOperation", "act", "latest", "failRead", "cancelRead"} \subseteq LoopPlaces
    BY DEF StepStates
  <2> HIDE DEF SequentialTypes, Proceed, workflowVars, leaseVars, opRows, runVars, stepHistory, LoopPlaces
  <2>. QED BY <1>19, <2>1, <2>2, CheckpointStepTypes
<1> HIDE DEF SequentialTypes, Proceed, workflowVars, leaseVars, opRows, runVars, stepHistory, LoopPlaces
<1>. QED BY <1>1, <1>2, <1>3, <1>4, <1>5, <1>6, <1>7, <1>8, <1>9, <1>10, <1>11, <1>12, <1>13, <1>14, <1>15, <1>16,
            <1>17, <1>18, <1>19, ZenonT(30) DEF Execute
-----------------------------------------------------------------------------
(* What a step leaves to the others.                                       *)

RowInv == WorkflowRow /\ RowsInOrder /\ CurrentRow /\ ActedOnce /\ TriesBound
RunInv(y) == AnyRun(y) /\ AboutToAct(y) /\ Holder(y)

Acts == {"beginStep", "act"}
RowsSame == UNCHANGED <<swf, scur, sop, stries, sstep>>
Same(y) ==
    /\ rpc'[y] = rpc[y] /\ ridx'[y] = ridx[y] /\ ratt'[y] = ratt[y] /\ rsnap'[y] = rsnap[y] /\ rkind'[y] = rkind[y]
    /\ slate'[y] = slate[y]

\* A step of execution x: it writes rows only as the holder of the lease.
RunStep(x) ==
    /\ UNCHANGED <<slease, slive, scancel>>
    /\ \A y \in Run : y # x => Same(y) /\ (rseen'[y] => rseen[y] /\ swf' = swf)
    /\ RowsSame \/ Holds(x)
    /\ srouted \subseteq srouted'
    /\ \A t \in StepNo : sop'[t] = "created" => sop[t] = "created"
    /\ \A t \in StepNo : sstarted'[t] = sstarted[t] \/ (rpc[x] = "act" /\ t = ridx[x])
    /\ rpc'[x] \in Acts => /\ ridx'[x] = ridx[x]
                           /\ rpc[x] \in Acts \/ (ridx[x] \in Mutating => sop[ridx[x]] = "created")
    /\ x \in Begun => x \in Begun'

\* Executions are finitely many, so that those that have begun can be counted.
LEMMA RunSets ==
    ASSUME NEW S \in SUBSET Run, NEW T \in SUBSET Run, S \subseteq T
    PROVE  /\ Cardinality(S) \in Nat /\ Cardinality(T) \in Nat /\ Cardinality(S) <= Cardinality(T)
           /\ \A x \in T : Cardinality(T) > 0 /\ (x \notin S => Cardinality(S) < Cardinality(T))
<1>1. IsFiniteSet(S) /\ IsFiniteSet(T)
  BY FS_Subset, SequentialAssumption
<1>2. Cardinality(S) \in Nat /\ Cardinality(T) \in Nat
  BY <1>1, FS_CardinalityType
<1>3. Cardinality(S) <= Cardinality(T) /\ (Cardinality(T) = Cardinality(S) => T = S)
  BY <1>1, FS_Subset
<1>4. T # {} => Cardinality(T) # 0
  BY <1>1, FS_EmptySet
<1>5. ASSUME NEW x \in T PROVE Cardinality(T) > 0 /\ (x \notin S => Cardinality(S) < Cardinality(T))
  <2>1. Cardinality(T) # 0
    BY <1>4
  <2>2. x \notin S => Cardinality(T) # Cardinality(S)
    BY <1>3
  <2>. QED BY <2>1, <2>2, <1>2, <1>3
<1>. QED BY <1>2, <1>3, <1>5

LEMMA BegunGrows ==
    ASSUME NEW x \in Run, RunStep(x)
    PROVE  /\ Begun \in SUBSET Run /\ Begun' \in SUBSET Run /\ Begun \subseteq Begun'
           /\ Cardinality(Begun) \in Nat /\ Cardinality(Begun') \in Nat /\ Cardinality(Begun) <= Cardinality(Begun')
<1>1. Begun \in SUBSET Run /\ Begun' \in SUBSET Run
  BY DEF Begun
<1>2. \A y \in Run : y # x => (y \in Begun => y \in Begun')
  BY DEF Begun, RunStep, Same
<1>3. Begun \subseteq Begun'
  BY <1>1, <1>2 DEF RunStep
<1> HIDE DEF Begun
<1>. QED BY <1>1, <1>3, RunSets

\* The rows that the holder's place asks for stay when nothing of them changes.
LEMMA HolderRowKept ==
    ASSUME NEW y \in Run, NEW s \in StepNo, SequentialTypes, Same(y), RowsSame, HolderRow(y, s),
           Cardinality(Begun) \in Nat, Cardinality(Begun') \in Nat, Cardinality(Begun) <= Cardinality(Begun')
    PROVE  HolderRow(y, s)'
<1>1. ASSUME stries[s] < RetryMax + Cardinality(Begun) PROVE stries'[s] < RetryMax + Cardinality(Begun')
  <2>1. stries'[s] = stries[s] /\ stries[s] \in Nat /\ RetryMax \in Nat
    BY SequentialAssumption DEF RowsSame, SequentialTypes
  <2> HIDE DEF Begun
  <2>. QED BY <1>1, <2>1
<1>. QED BY <1>1 DEF HolderRow, Same, RowsSame

LEMMA OthersKept ==
    ASSUME SequentialInv, NEW x \in Run, RunStep(x), NEW y \in Run, y # x
    PROVE  RunInv(y)'
<1>1. SequentialTypes /\ AnyRun(y) /\ AboutToAct(y) /\ AboutToAct(x) /\ Holder(y) /\ WorkflowRow
  BY DEF SequentialInv
<1>2. Same(y)
  BY DEF RunStep
<1>3. AnyRun(y)'
  BY <1>1, <1>2 DEF AnyRun, RunStep, Same
<1>4. AboutToAct(y)'
  <2>. SUFFICES ASSUME rpc[y] \in Acts PROVE AboutToAct(y)'
    BY <1>2 DEF AboutToAct, Same, Acts
  <2>1. ridx[y] \in StepNo
    BY <1>1 DEF AnyRun, LoopPlaces, Acts
  <2>2. sop'[ridx'[y]] # "created"
    BY <1>1, <1>2, <2>1 DEF AboutToAct, Same, RunStep, Acts
  <2>3. ASSUME ridx[y] \in Mutating
        PROVE  /\ sstarted'[ridx[y]] = 0
               /\ \A z \in Run : rpc'[z] \in Acts /\ ridx'[z] = ridx[y] => z = y
    <3>1. ~(rpc[x] \in Acts /\ ridx[x] = ridx[y])
      BY <1>1, <2>3 DEF AboutToAct, Acts
    <3>2. sstarted'[ridx[y]] = 0
      BY <3>1, <1>1, <2>1, <2>3 DEF AboutToAct, RunStep, Acts
    <3>3. ~(rpc'[x] \in Acts /\ ridx'[x] = ridx[y])
      BY <3>1, <1>1, <2>3 DEF AboutToAct, RunStep, Acts
    <3>4. ASSUME NEW z \in Run, z # x, rpc'[z] \in Acts, ridx'[z] = ridx[y] PROVE z = y
      BY <3>4, <1>1, <2>3 DEF AboutToAct, RunStep, Same, Acts
    <3>. QED BY <3>2, <3>3, <3>4
  <2>. QED BY <2>2, <2>3, <1>2 DEF AboutToAct, Same, Acts
<1>5. Holder(y)'
  <2>. SUFFICES ASSUME Holds(y)', rpc'[y] \in LoopPlaces PROVE Holder(y)'
    BY DEF Holder
  <2>1. Holds(y) /\ ~Holds(x) /\ rpc[y] \in LoopPlaces
    BY <1>2 DEF Holds, RunStep, Same
  <2>2. RowsSame
    BY <2>1 DEF RunStep
  <2> DEFINE Done(z) == (rpc[z] = "renew" /\ ridx[z] = StepCount - 1) \/ (rpc[z] = "next" /\ ridx[z] = StepCount)
  <2>3. CASE swf = "completed" /\ Done(y)
    BY <2>2, <2>3, <1>2 DEF Holder, RowsSame, Same
  <2>4. CASE ~(swf = "completed" /\ Done(y))
    <3>1. /\ swf \in InProgress /\ scur = (IF rpc[y] = "renew" THEN ridx[y] + 1 ELSE ridx[y])
          /\ rpc[y] # "listing" =>
                \A t \in StepNo : t > ridx[y] => rsnap[y].states[t] = "created" /\ rsnap[y].attempts[t] = 0
          /\ HolderRow(y, scur)
      BY <1>1, <2>1, <2>4 DEF Holder
    <3>2. scur \in StepNo
      BY <3>1, <1>1, CurrentStep DEF InProgress
    <3>3. HolderRow(y, scur)'
      BY <3>1, <3>2, <2>2, <1>1, <1>2, BegunGrows, HolderRowKept DEF RowsSame
    <3>. QED BY <3>1, <3>3, <2>2, <1>2 DEF Holder, RowsSame, Same
  <2>. QED BY <2>3, <2>4
<1>. QED BY <1>3, <1>4, <1>5 DEF RunInv

\* A step that leaves the rows alone keeps what holds of them.
LEMMA RowsKept ==
    ASSUME SequentialInv, NEW x \in Run, RunStep(x), RowsSame, sstarted' = sstarted
    PROVE  RowInv'
<1>1. SequentialTypes /\ RowInv
  BY DEF SequentialInv, RowInv
<1>2. TriesBound'
  <2>1. \A s \in StepNo : stries'[s] = stries[s] /\ stries[s] \in Nat /\ stries[s] <= RetryMax + Cardinality(Begun)
    BY <1>1 DEF RowsSame, SequentialTypes, RowInv, TriesBound
  <2>2. ASSUME NEW s \in StepNo PROVE stries'[s] <= RetryMax + Cardinality(Begun')
    <3> HIDE DEF Begun
    <3>. QED BY <2>1, BegunGrows, SequentialAssumption
  <2>. QED BY <2>2 DEF TriesBound
<1>3. WorkflowRow' /\ RowsInOrder'
  BY <1>1 DEF RowInv, WorkflowRow, RowsInOrder, RunStep, RowsSame
<1>4. CurrentRow'
  BY <1>1 DEF RowInv, CurrentRow, RestingRow, WorkingRow, RunStep, RowsSame
<1>5. ActedOnce'
  BY <1>1 DEF RowInv, ActedOnce, RunStep
<1>. QED BY <1>2, <1>3, <1>4, <1>5 DEF RowInv

Kept == RowInv' /\ \A y \in Run : RunInv(y)'

LEMMA StepKeeps ==
    ASSUME SequentialInv, NEW x \in Run, RunStep(x), RowInv', RunInv(x)'
    PROVE  Kept
BY OthersKept DEF Kept

\* Execution x leaves, or its process dies: nothing else changes.
LEMMA LeavingKeeps ==
    ASSUME SequentialInv, NEW x \in Run, NEW spot \in {"leaving", "done"}, Forgets(x, spot),
           rseen' = [rseen EXCEPT ![x] = FALSE], UNCHANGED <<workflowVars, leaseVars, opRows, stepHistory>>
    PROVE  Kept
<1>1. SequentialTypes /\ AnyRun(x)
  BY DEF SequentialInv
<1>2. RowsSame /\ UNCHANGED <<slease, slive, scancel, srouted, sstarted, slate>>
  BY DEF RowsSame, workflowVars, leaseVars, opRows, stepHistory
<1>3. /\ rpc' = [rpc EXCEPT ![x] = spot] /\ ridx' = [ridx EXCEPT ![x] = 0] /\ ratt' = [ratt EXCEPT ![x] = 0]
      /\ rsnap' = [rsnap EXCEPT ![x] = NoRows] /\ rkind' = [rkind EXCEPT ![x] = "failed"]
  BY DEF Forgets, Proceed
<1>4. \A y \in Run : y # x => Same(y) /\ (rseen'[y] => rseen[y] /\ swf' = swf)
  BY <1>1, <1>2, <1>3 DEF Same, RowsSame, SequentialTypes
<1>5. rpc'[x] = spot /\ rkind'[x] = "failed" /\ rseen'[x] = FALSE
  BY <1>1, <1>3 DEF SequentialTypes
<1>6. RunStep(x)
  BY <1>2, <1>4, <1>5 DEF RunStep, RowsSame, Acts, Begun
<1>7. RunInv(x)'
  BY <1>1, <1>2, <1>5 DEF RunInv, AnyRun, AboutToAct, Holder, LoopPlaces
<1>. QED BY <1>2, <1>6, <1>7, RowsKept, StepKeeps

LEMMA RaisingKeeps == ASSUME SequentialInv, NEW x \in Run, Raises(x) PROVE Kept
BY LeavingKeeps DEF Raises, Leaves

\* What the holder knows inside the loop.
LEMMA HolderKnows ==
    ASSUME SequentialInv, NEW x \in Run, Holds(x), rpc[x] \in LoopPlaces \ {"next", "renew"}
    PROVE  /\ swf \in InProgress /\ scur = ridx[x] /\ scur \in StepNo /\ ridx[x] \in StepNo
           /\ HolderRow(x, scur) /\ WorkingRow(scur)
           /\ rpc[x] # "listing" =>
                \A t \in StepNo : t > ridx[x] => rsnap[x].states[t] = "created" /\ rsnap[x].attempts[t] = 0
<1>1. SequentialTypes /\ WorkflowRow /\ CurrentRow /\ Holder(x)
  BY DEF SequentialInv
<1>2. /\ swf \in InProgress /\ scur = ridx[x] /\ HolderRow(x, scur)
      /\ rpc[x] # "listing" =>
            \A t \in StepNo : t > ridx[x] => rsnap[x].states[t] = "created" /\ rsnap[x].attempts[t] = 0
  BY <1>1 DEF Holder
<1>3. scur \in StepNo
  BY <1>1, <1>2, CurrentStep DEF InProgress
<1>. QED BY <1>1, <1>2, <1>3 DEF CurrentRow

\* A step inside the loop at the same index, seen from the execution itself.
LEMMA HolderStays ==
    ASSUME NEW x \in Run, rpc'[x] # "renew", swf' \in InProgress, scur' = ridx'[x],
           rpc'[x] # "listing" =>
              \A t \in StepNo : t > ridx'[x] => rsnap'[x].states[t] = "created" /\ rsnap'[x].attempts[t] = 0,
           HolderRow(x, scur)'
    PROVE  Holder(x)'
BY DEF Holder

\* checkpoint_operation by the holder: the row of the current step moves.
LEMMA OperationRows ==
    ASSUME SequentialInv, SequentialTypes', NEW x \in Run, RunStep(x), NEW state \in OperationStates \ {"created"}, NEW tried \in {0, 1},
           scur \in StepNo, swf \in InProgress,
           sop' = [sop EXCEPT ![scur] = state], stries' = [stries EXCEPT ![scur] = @ + tried],
           UNCHANGED <<swf, scur, sstep, sstarted>>,
           WorkingRow(scur)', state \in {"failed", "uncertain"} => stries[scur] > 0,
           stries[scur] + tried <= RetryMax + Cardinality(Begun)
    PROVE  RowInv'
<1>1. SequentialTypes /\ RowInv
  BY DEF SequentialInv, RowInv
<1>2. /\ \A t \in StepNo : t # scur => sop'[t] = sop[t] /\ stries'[t] = stries[t]
      /\ sop'[scur] = state /\ stries'[scur] = stries[scur] + tried /\ stries[scur] \in Nat
  BY <1>1 DEF SequentialTypes
<1>3. TriesBound'
  <2>1. \A t \in StepNo : stries[t] \in Nat /\ stries'[t] <= RetryMax + Cardinality(Begun) /\ stries'[t] \in Nat
    BY <1>1, <1>2 DEF SequentialTypes, RowInv, TriesBound
  <2>2. ASSUME NEW t \in StepNo PROVE stries'[t] <= RetryMax + Cardinality(Begun')
    <3> HIDE DEF Begun
    <3>. QED BY <2>1, BegunGrows, SequentialAssumption
  <2>. QED BY <2>2 DEF TriesBound
<1>4. WorkflowRow' /\ ActedOnce'
  BY <1>1 DEF RowInv, WorkflowRow, ActedOnce, RunStep
<1>5. RowsInOrder'
  <2>1. ~(scur < scur) /\ ~(scur > scur)
    BY <1>1 DEF SequentialTypes
  <2>. QED BY <1>1, <1>2, <2>1 DEF RowInv, RowsInOrder
<1>6. CurrentRow'
  <2>1. swf' \in InProgress /\ swf' \notin {"queued", "paused", "failed", "uncertain"} /\ scur' = scur
    BY DEF InProgress
  <2>2. sop'[scur] \in {"failed", "uncertain"} => stries'[scur] # 0
    BY <1>2
  <2>. QED BY <2>1, <2>2 DEF CurrentRow
<1>. QED BY <1>3, <1>4, <1>5, <1>6 DEF RowInv

\* checkpoint_step by the holder.
LEMMA StepRows ==
    ASSUME SequentialInv, SequentialTypes', NEW x \in Run, RunStep(x), NEW state \in StepStates,
           scur \in StepNo, swf \in InProgress, sop[scur] # "created",
           sstep' = [sstep EXCEPT ![scur] = state],
           UNCHANGED <<swf, scur, sop, stries, sstarted>>, WorkingRow(scur)'
    PROVE  RowInv'
<1>1. SequentialTypes /\ RowInv
  BY DEF SequentialInv, RowInv
<1>2. \A t \in StepNo : t # scur => sstep'[t] = sstep[t]
  BY <1>1 DEF SequentialTypes
<1>3. TriesBound'
  <2>1. \A t \in StepNo : stries[t] \in Nat /\ stries[t] <= RetryMax + Cardinality(Begun) /\ stries'[t] = stries[t]
    BY <1>1, <1>2 DEF SequentialTypes, RowInv, TriesBound
  <2>2. ASSUME NEW t \in StepNo PROVE stries'[t] <= RetryMax + Cardinality(Begun')
    <3> HIDE DEF Begun
    <3>. QED BY <2>1, BegunGrows, SequentialAssumption
  <2>. QED BY <2>2 DEF TriesBound
<1>4. WorkflowRow' /\ ActedOnce'
  BY <1>1 DEF RowInv, WorkflowRow, ActedOnce, RunStep
<1>5. RowsInOrder'
  <2>1. ~(scur < scur) /\ ~(scur > scur)
    BY <1>1 DEF SequentialTypes
  <2>. QED BY <1>1, <1>2, <2>1 DEF RowInv, RowsInOrder
<1>6. CurrentRow'
  <2>1. swf' \in InProgress /\ swf' \notin {"queued", "paused", "failed", "uncertain"} /\ scur' = scur
    BY DEF InProgress
  <2>. QED BY <1>1, <2>1 DEF RowInv, CurrentRow, RunStep
<1>. QED BY <1>3, <1>4, <1>5, <1>6 DEF RowInv

-----------------------------------------------------------------------------
(* The steps that write no row.                                            *)

\* Execution x goes on at `to`, where it is not about to act.
LEMMA LocalKeeps ==
    ASSUME SequentialInv, NEW x \in Run, NEW to, to \notin Acts, rpc' = [rpc EXCEPT ![x] = to],
           UNCHANGED <<workflowVars, leaseVars, sop, stries, sstep, stepHistory>>, srouted \subseteq srouted',
           \A y \in Run : y # x => /\ ridx'[y] = ridx[y] /\ ratt'[y] = ratt[y] /\ rsnap'[y] = rsnap[y]
                                   /\ rkind'[y] = rkind[y] /\ (rseen'[y] => rseen[y]),
           x \in Begun => to \notin {"idle", "leasing", "starting"},
           AnyRun(x)', Holder(x)'
    PROVE  Kept
<1>1. SequentialTypes
  BY DEF SequentialInv
<1>2. RowsSame /\ UNCHANGED <<slease, slive, scancel, sstarted, slate>>
  BY DEF RowsSame, workflowVars, leaseVars, stepHistory
<1>3. rpc'[x] = to /\ \A y \in Run : y # x => rpc'[y] = rpc[y]
  BY <1>1 DEF SequentialTypes
<1>4. \A y \in Run : y # x => Same(y) /\ (rseen'[y] => rseen[y] /\ swf' = swf)
  BY <1>2, <1>3 DEF Same, RowsSame
<1>5. x \in Begun => x \in Begun'
  BY <1>3 DEF Begun
<1>6. RunStep(x)
  BY <1>2, <1>3, <1>4, <1>5 DEF RunStep, RowsSame
<1>7. AboutToAct(x)'
  BY <1>3 DEF AboutToAct, Acts
<1>. QED BY <1>2, <1>6, <1>7, RowsKept, StepKeeps DEF RunInv

\* A step of the holder inside the loop that changes at most its place, its attempt and the routes.
LEMMA PlaceKeeps ==
    ASSUME SequentialInv, NEW x \in Run, NEW to, to \in LoopPlaces \ (Acts \cup {"renew", "next", "listing"}),
           rpc[x] \in LoopPlaces \ {"next", "renew", "listing"},
           rpc' = [rpc EXCEPT ![x] = to],
           UNCHANGED <<workflowVars, leaseVars, sop, stries, sstep, stepHistory, ridx, rsnap, rkind>>, srouted \subseteq srouted',
           \A y \in Run : y # x => ratt'[y] = ratt[y] /\ (rseen'[y] => rseen[y]),
           to = "begin" /\ ridx[x] \in Intent => ridx[x] \in srouted',
           to \in {"plan", "begin"} => slate[x] = 0,
           rkind[x] = "failed" \/ to \in {"failStep", "failRead", "failWorkflow"},
           Holds(x) /\ HolderRow(x, scur) /\ scur = ridx[x] /\ scur \in StepNo /\ rpc'[x] = to => HolderRow(x, scur)'
    PROVE  Kept
<1>1. SequentialTypes /\ AnyRun(x)
  BY DEF SequentialInv
<1>2. rpc'[x] = to /\ ridx'[x] = ridx[x] /\ rsnap'[x] = rsnap[x]
  BY <1>1 DEF SequentialTypes
<1>3. UNCHANGED <<swf, scur, scancel, slease, slive, slate>>
  BY DEF workflowVars, leaseVars, stepHistory
<1>4. AnyRun(x)'
  <2>1. ridx[x] \in StepNo
    BY <1>1 DEF AnyRun, LoopPlaces
  <2>2. to \notin {"idle", "leasing", "starting", "beginStep", "act"}
    BY DEF LoopPlaces, Acts
  <2>. QED BY <1>1, <1>2, <1>3, <2>1, <2>2 DEF AnyRun
<1>5. Holder(x)'
  <2>. SUFFICES ASSUME Holds(x) PROVE Holder(x)'
    BY <1>3 DEF Holder, Holds
  <2>1. HolderRow(x, scur)'
    BY HolderKnows, <1>2
  <2>. QED BY <2>1, <1>2, <1>3, HolderKnows, HolderStays
<1>6. to \notin {"idle", "leasing", "starting"}
  BY DEF LoopPlaces
<1>. QED BY <1>4, <1>5, <1>6, LocalKeeps

LEMMA ReadKeeps ==
    ASSUME SequentialInv, NEW x \in Run,
           \/ ReadWorkflow(x, "latest", "conclude") \/ ReadWorkflow(x, "failRead", "failWorkflow")
           \/ ReadWorkflow(x, "cancelRead", "cancelWorkflow")
    PROVE  Kept
<1>1. SequentialTypes /\ AnyRun(x)
  BY DEF SequentialInv
<1>2. PICK to \in {"conclude", "failWorkflow", "cancelWorkflow"} :
         /\ rpc' = [rpc EXCEPT ![x] = to]
         /\ \/ to = "conclude" /\ rpc[x] = "latest"
            \/ to = "failWorkflow" /\ rpc[x] = "failRead"
            \/ to = "cancelWorkflow" /\ rpc[x] = "cancelRead"
  BY DEF ReadWorkflow, Proceed
<1>3. UNCHANGED <<workflowVars, leaseVars, opRows, runVars, stepHistory>> /\ rseen' = [rseen EXCEPT ![x] = TRUE]
  BY DEF ReadWorkflow
<1>4. /\ UNCHANGED <<workflowVars, leaseVars, sop, stries, sstep, stepHistory, ridx, rsnap, rkind, srouted, scur, ratt>>
  BY <1>3 DEF opRows, runVars, workflowVars
<1>5. \A y \in Run : y # x => ratt'[y] = ratt[y] /\ (rseen'[y] => rseen[y])
  BY <1>1, <1>3, <1>4 DEF SequentialTypes
<1>6. rkind[x] = "failed" \/ to \in {"failStep", "failRead", "failWorkflow"}
  BY <1>1, <1>2 DEF AnyRun
<1>7. HolderRow(x, scur) /\ rpc'[x] = to => HolderRow(x, scur)'
  BY <1>2, <1>4 DEF HolderRow
<1>8. to \in LoopPlaces \ (Acts \cup {"renew", "next", "listing"}) /\ rpc[x] \in LoopPlaces \ {"next", "renew", "listing"}
  BY <1>2 DEF LoopPlaces, Acts
<1>. QED BY <1>2, <1>4, <1>5, <1>6, <1>7, <1>8, PlaceKeeps

LEMMA PlanKeeps == ASSUME SequentialInv, NEW x \in Run, PlanRoute(x) PROVE Kept
<1>1. SequentialTypes /\ AnyRun(x)
  BY DEF SequentialInv
<1>2. PICK to \in {"begin", "planFailed"} : rpc' = [rpc EXCEPT ![x] = to] /\ (to = "begin" /\ ridx[x] \in Intent => ridx[x] \in srouted')
  BY DEF PlanRoute, Proceed
<1>3. rpc[x] = "plan" /\ srouted \subseteq srouted' /\ UNCHANGED <<workflowVars, leaseVars, sop, stries, sstep, runVars, rseen, stepHistory>>
  BY DEF PlanRoute
<1>4. /\ UNCHANGED <<workflowVars, leaseVars, sop, stries, sstep, stepHistory, ridx, rsnap, rkind, scur, ratt>>
  BY <1>3 DEF runVars, workflowVars
<1>5. rkind[x] = "failed" /\ slate[x] = 0
  BY <1>1, <1>3 DEF AnyRun
<1>6. Begun' = Begun
  <2>1. \A y \in Run : rpc[y] \in {"idle", "leasing", "starting"} <=> rpc'[y] \in {"idle", "leasing", "starting"}
    BY <1>1, <1>2, <1>3 DEF SequentialTypes
  <2>. QED BY <2>1 DEF Begun
<1>7. HolderRow(x, scur) /\ rpc'[x] = to => HolderRow(x, scur)'
  BY <1>2, <1>3, <1>4, <1>6 DEF HolderRow
<1>8. to \in LoopPlaces \ (Acts \cup {"renew", "next", "listing"}) /\ rpc[x] \in LoopPlaces \ {"next", "renew", "listing"}
  BY <1>2, <1>3 DEF LoopPlaces, Acts
<1>. QED BY <1>2, <1>3, <1>4, <1>5, <1>7, <1>8, PlaceKeeps

LEMMA EndKeeps == ASSUME SequentialInv, NEW x \in Run, EndAction(x) PROVE Kept
<1>1. SequentialTypes /\ AnyRun(x)
  BY DEF SequentialInv
<1>2. CASE Raises(x)
  BY <1>2, RaisingKeeps
<1>3. CASE ~Raises(x)
  <2>1. PICK to \in {"succeeded", "failedOperation", "uncertainOperation", "transientOperation", "cancelOperation"} :
           rpc' = [rpc EXCEPT ![x] = to]
    BY <1>3 DEF EndAction, Proceed
  <2>2. rpc[x] = "acting" /\ UNCHANGED <<workflowVars, leaseVars, opRows, runVars, rseen, stepHistory>>
    BY <1>3 DEF EndAction
  <2>3. /\ UNCHANGED <<workflowVars, leaseVars, sop, stries, sstep, stepHistory, ridx, rsnap, rkind, scur, ratt, srouted>>
    BY <2>2 DEF runVars, workflowVars, opRows
  <2>4. rkind[x] = "failed"
    BY <1>1, <2>2 DEF AnyRun
  <2>5. HolderRow(x, scur) /\ rpc'[x] = to => HolderRow(x, scur)'
    BY <2>1, <2>2, <2>3 DEF HolderRow
  <2>6. to \in LoopPlaces \ (Acts \cup {"renew", "next", "listing"}) /\ rpc[x] \in LoopPlaces \ {"next", "renew", "listing"}
    BY <2>1, <2>2 DEF LoopPlaces, Acts
  <2>. QED BY <2>1, <2>2, <2>3, <2>4, <2>5, <2>6, PlaceKeeps
<1>. QED BY <1>2, <1>3

LEMMA TransientKeeps == ASSUME SequentialInv, NEW x \in Run, AfterTransient(x) PROVE Kept
<1>1. SequentialTypes /\ AnyRun(x)
  BY DEF SequentialInv
<1>2. CASE Leaves(x)
  BY <1>2, RaisingKeeps DEF AfterTransient, Raises
<1>3. CASE ~Leaves(x)
  <2>1. PICK to \in {"cancelOperation", "again", "failStep"} : rpc' = [rpc EXCEPT ![x] = to] /\ (to = "again" => MayRetry(x))
    BY <1>3 DEF AfterTransient, Proceed
  <2>2. rpc[x] = "afterTransient" /\ UNCHANGED <<workflowVars, leaseVars, opRows, runVars, rseen, stepHistory>>
    BY <1>3 DEF AfterTransient
  <2>3. /\ UNCHANGED <<workflowVars, leaseVars, sop, stries, sstep, stepHistory, ridx, rsnap, rkind, scur, ratt, srouted>>
    BY <2>2 DEF runVars, workflowVars, opRows
  <2>4. rkind[x] = "failed"
    BY <1>1, <2>2 DEF AnyRun
  <2>5. HolderRow(x, scur) /\ scur = ridx[x] /\ rpc'[x] = to => HolderRow(x, scur)'
    BY <2>1, <2>2, <2>3, <2>4, SequentialAssumption DEF HolderRow, MayRetry, ReplaySafe
  <2>6. to \in LoopPlaces \ (Acts \cup {"renew", "next", "listing"}) /\ rpc[x] \in LoopPlaces \ {"next", "renew", "listing"}
    BY <2>1, <2>2 DEF LoopPlaces, Acts
  <2>. QED BY <2>1, <2>2, <2>3, <2>4, <2>5, <2>6, PlaceKeeps
<1>. QED BY <1>2, <1>3

\* An execution inside the loop counts among those that have begun.
LEMMA LoopBegun ==
    ASSUME SequentialTypes, NEW x \in Run, rpc[x] \in LoopPlaces
    PROVE  x \in Begun /\ Cardinality(Begun) \in Nat /\ Cardinality(Begun) > 0
<1>1. x \in Begun /\ Begun \in SUBSET Run
  BY DEF Begun, LoopPlaces
<1> HIDE DEF Begun
<1>. QED BY <1>1, RunSets

\* Going from one place of the loop to another does not change who has begun.
LEMMA SameBegun ==
    ASSUME SequentialTypes, NEW x \in Run, rpc[x] \in LoopPlaces, NEW to \in LoopPlaces, rpc' = [rpc EXCEPT ![x] = to]
    PROVE  Begun' = Begun
<1>1. \A y \in Run : rpc[y] \in {"idle", "leasing", "starting"} <=> rpc'[y] \in {"idle", "leasing", "starting"}
  BY DEF SequentialTypes, LoopPlaces
<1>. QED BY <1>1 DEF Begun

LEMMA AgainKeeps == ASSUME SequentialInv, NEW x \in Run, TryAgain(x) PROVE Kept
<1>1. SequentialTypes /\ AnyRun(x)
  BY DEF SequentialInv
<1>2. CASE Raises(x)
  BY <1>2, RaisingKeeps
<1>3. CASE ~Raises(x)
  <2>1. PICK to \in {"cancelOperation", "plan"} : rpc' = [rpc EXCEPT ![x] = to] /\ (to = "plan" => ~CancelAsked)
    BY <1>3 DEF TryAgain, Proceed
  <2>2. /\ rpc[x] = "again" /\ ratt' = [ratt EXCEPT ![x] = @ + 1]
        /\ UNCHANGED <<workflowVars, leaseVars, opRows, ridx, rsnap, rkind, rseen, stepHistory>>
    BY <1>3 DEF TryAgain
  <2>3. /\ UNCHANGED <<workflowVars, leaseVars, sop, stries, sstep, stepHistory, ridx, rsnap, rkind, scur, srouted>>
    BY <2>2 DEF workflowVars, opRows
  <2>4. rkind[x] = "failed" /\ (to = "plan" => slate[x] = 0)
    <3>1. rkind[x] = "failed" /\ (slate[x] > 0 => scancel) /\ slate[x] \in Nat
      BY <1>1, <2>2 DEF AnyRun, SequentialTypes
    <3>2. to = "plan" => ~scancel
      BY <2>1 DEF CancelAsked
    <3>. QED BY <3>1, <3>2
  <2>5. to \in LoopPlaces \ (Acts \cup {"renew", "next", "listing"}) /\ rpc[x] \in LoopPlaces \ {"next", "renew", "listing"}
    BY <2>1, <2>2 DEF LoopPlaces, Acts
  <2>6. Begun' = Begun /\ Cardinality(Begun) \in Nat /\ Cardinality(Begun) > 0
    BY <1>1, <2>1, <2>5, SameBegun, LoopBegun
  <2>7. ASSUME HolderRow(x, scur), scur \in StepNo, rpc'[x] = to PROVE HolderRow(x, scur)'
    <3>1. sop[scur] = "failed" /\ stries[scur] > 0 /\ ReplaySafe(scur) /\ stries[scur] <= RetryMax /\ ratt[x] = stries[scur]
      BY <2>2, <2>7 DEF HolderRow
    <3>2. stries[scur] \in Nat /\ RetryMax \in Nat /\ ratt'[x] = ratt[x] + 1
      BY <1>1, <2>2, <2>7, SequentialAssumption DEF SequentialTypes
    <3>3. stries[scur] < RetryMax + Cardinality(Begun) /\ ratt'[x] = stries[scur] + 1
      <4> HIDE DEF Begun
      <4>. QED BY <3>1, <3>2, <2>6
    <3> HIDE DEF Begun
    <3>. QED BY <3>1, <3>3, <2>1, <2>3, <2>6, <2>7 DEF HolderRow, ReplaySafe
  <2>8. \A y \in Run : y # x => ratt'[y] = ratt[y] /\ (rseen'[y] => rseen[y])
    BY <1>1, <2>2 DEF SequentialTypes
  <2>. QED BY <2>1, <2>2, <2>3, <2>4, <2>5, <2>7, <2>8, PlaceKeeps
<1>. QED BY <1>2, <1>3

LEMMA QueuedReadKeeps == ASSUME SequentialInv, NEW x \in Run, ReadQueuedWorkflow(x) PROVE Kept
<1>1. SequentialTypes /\ AnyRun(x)
  BY DEF SequentialInv
<1>2. /\ swf = "queued" /\ rpc[x] = "idle" /\ rseen' = [rseen EXCEPT ![x] = TRUE] /\ rpc' = [rpc EXCEPT ![x] = "leasing"]
      /\ UNCHANGED <<workflowVars, leaseVars, opRows, runVars, stepHistory>>
  BY DEF ReadQueuedWorkflow, ReadWorkflow, Proceed
<1>3. /\ UNCHANGED <<workflowVars, leaseVars, sop, stries, sstep, stepHistory, ridx, rsnap, rkind, ratt, srouted>>
      /\ UNCHANGED <<swf, scancel, slease, slate>>
  BY <1>2 DEF runVars, workflowVars, opRows, leaseVars, stepHistory
<1>4. rpc'[x] = "leasing"
  BY <1>1, <1>2 DEF SequentialTypes
<1>5. AnyRun(x)'
  BY <1>1, <1>2, <1>3, <1>4 DEF AnyRun, LoopPlaces
<1>6. Holder(x)'
  BY <1>4 DEF Holder, LoopPlaces
<1>7. \A y \in Run : y # x => rseen'[y] = rseen[y]
  BY <1>1, <1>2 DEF SequentialTypes
<1>8. "leasing" \notin Acts /\ x \notin Begun
  BY <1>2 DEF Acts, Begun
<1>. QED BY <1>2, <1>3, <1>5, <1>6, <1>7, <1>8, LocalKeeps

LEMMA ListKeeps == ASSUME SequentialInv, NEW x \in Run, ListOperations(x) PROVE Kept
<1>1. SequentialTypes /\ AnyRun(x) /\ RowsInOrder
  BY DEF SequentialInv
<1>2. /\ rpc[x] = "listing" /\ rpc' = [rpc EXCEPT ![x] = "next"]
      /\ rsnap' = [rsnap EXCEPT ![x] = [states |-> sop, attempts |-> stries]]
      /\ UNCHANGED <<workflowVars, leaseVars, opRows, ridx, ratt, rkind, rseen, stepHistory>>
  BY DEF ListOperations, Proceed
<1>3. /\ UNCHANGED <<workflowVars, leaseVars, sop, stries, sstep, stepHistory, ridx, rkind, ratt, srouted, rseen>>
      /\ UNCHANGED <<swf, scur, scancel, slease, slive, slate>>
  BY <1>2 DEF workflowVars, opRows, leaseVars, stepHistory
<1>4. /\ rpc'[x] = "next" /\ rsnap'[x].states = sop /\ rsnap'[x].attempts = stries
      /\ \A y \in Run : y # x => rsnap'[y] = rsnap[y]
  BY <1>1, <1>2 DEF SequentialTypes
<1>5. AnyRun(x)'
  BY <1>1, <1>2, <1>3, <1>4 DEF AnyRun, LoopPlaces
<1>6. Holder(x)'
  <2>. SUFFICES ASSUME Holds(x) PROVE Holder(x)'
    BY <1>3 DEF Holder, Holds
  <2>1. rpc[x] \in LoopPlaces \ {"next", "renew"}
    BY <1>2 DEF LoopPlaces
  <2>2. /\ swf \in InProgress /\ scur = ridx[x] /\ scur \in StepNo /\ HolderRow(x, scur)
    BY <2>1, HolderKnows
  <2>3. \A t \in StepNo : t > ridx[x] => sop[t] = "created" /\ stries[t] = 0
    BY <1>1, <2>2 DEF RowsInOrder
  <2>4. Begun' = Begun
    BY <1>1, <1>2, <2>1, SameBegun DEF LoopPlaces
  <2>5. HolderRow(x, scur)'
    BY <2>2, <2>4, <1>2, <1>3, <1>4 DEF HolderRow
  <2>. QED BY <2>2, <2>3, <2>5, <1>3, <1>4, HolderStays
<1>7. "next" \notin Acts
  BY DEF Acts
<1>. QED BY <1>2, <1>3, <1>4, <1>5, <1>6, <1>7, LocalKeeps

LEMMA NextKeeps == ASSUME SequentialInv, NEW x \in Run, NextStep(x) PROVE Kept
<1>1. SequentialTypes /\ AnyRun(x) /\ Holder(x) /\ WorkflowRow /\ CurrentRow
  BY DEF SequentialInv
<1>2. /\ rpc[x] = "next" /\ UNCHANGED <<workflowVars, leaseVars, opRows, stepHistory>>
  BY DEF NextStep
<1>3. /\ UNCHANGED <<sop, stries, sstep, srouted, swf, scur, scancel, slease, slive, slate>>
  BY <1>2 DEF workflowVars, opRows, leaseVars, stepHistory
<1>4. ASSUME Holds(x), ridx[x] < StepCount
      PROVE  /\ swf \in InProgress /\ scur = ridx[x] /\ scur \in StepNo /\ HolderRow(x, scur)
             /\ \A t \in StepNo : t > ridx[x] => rsnap[x].states[t] = "created" /\ rsnap[x].attempts[t] = 0
  <2>1. ~(StepCount < StepCount)
    BY SequentialAssumption
  <2>2. /\ swf \in InProgress /\ scur = ridx[x] /\ HolderRow(x, scur)
        /\ \A t \in StepNo : t > ridx[x] => rsnap[x].states[t] = "created" /\ rsnap[x].attempts[t] = 0
    BY <1>1, <1>2, <1>4, <2>1 DEF Holder, LoopPlaces
  <2>. QED BY <2>2, <1>1, CurrentStep DEF InProgress
<1>5. CASE Leaves(x)
  BY <1>5, <1>2, RaisingKeeps DEF Raises
<1>6. CASE /\ ridx[x] < StepCount /\ rsnap[x].states[ridx[x]] = "succeeded"
           /\ ridx' = [ridx EXCEPT ![x] = @ + 1] /\ UNCHANGED <<rpc, ratt, rsnap, rkind, rseen>>
  <2>1. rpc' = [rpc EXCEPT ![x] = "next"] /\ rpc'[x] = "next"
    BY <1>1, <1>2, <1>6 DEF SequentialTypes
  <2>2. AnyRun(x)'
    BY <1>1, <1>2, <1>3, <1>6, <2>1 DEF AnyRun
  <2>3. ~Holds(x)
    BY <1>2, <1>4, <1>6 DEF HolderRow
  <2>4. Holder(x)'
    BY <2>3, <1>3 DEF Holder, Holds
  <2>5. \A y \in Run : y # x => ridx'[y] = ridx[y]
    BY <1>1, <1>6 DEF SequentialTypes
  <2>6. "next" \notin Acts
    BY DEF Acts
  <2>. QED BY <1>2, <1>3, <1>6, <2>1, <2>2, <2>4, <2>5, <2>6, LocalKeeps
<1>7. CASE /\ ridx[x] < StepCount /\ rpc' = [rpc EXCEPT ![x] = IF CancelAsked THEN "cancelOperation" ELSE "plan"]
           /\ ratt' = [ratt EXCEPT ![x] = rsnap[x].attempts[ridx[x]] + 1]
           /\ UNCHANGED <<ridx, rsnap, rkind, rseen>>
  <2>1. PICK to \in {"cancelOperation", "plan"} : rpc' = [rpc EXCEPT ![x] = to] /\ (to = "plan" => ~CancelAsked)
    BY <1>7
  <2>2. rpc'[x] = to /\ ratt'[x] = rsnap[x].attempts[ridx[x]] + 1 /\ \A y \in Run : y # x => ratt'[y] = ratt[y]
    BY <1>1, <1>7, <2>1 DEF SequentialTypes
  <2>3. to = "plan" => ~scancel
    BY <2>1 DEF CancelAsked
  <2>4. slate[x] \in Nat /\ (slate[x] > 0 => scancel)
    BY <1>1 DEF AnyRun, SequentialTypes
  <2>5. to = "plan" => slate[x] = 0
    BY <2>3, <2>4
  <2>6. ridx[x] \in StepNo
    BY <1>1, <1>7, StepArithmetic, SequentialAssumption DEF SequentialTypes
  <2>7. AnyRun(x)'
    BY <1>1, <1>2, <1>3, <1>7, <2>2, <2>5, <2>6 DEF AnyRun
  <2>8. Holder(x)'
    <3>. SUFFICES ASSUME Holds(x) PROVE Holder(x)'
      BY <1>3 DEF Holder, Holds
    <3>1. Begun' = Begun
      BY <1>1, <1>2, <2>1, SameBegun DEF LoopPlaces
    <3>2. /\ sop[scur] \in {"created", "failed", "unresolvable"} /\ (sop[scur] # "created" => ReplaySafe(scur))
          /\ stries[scur] < RetryMax + Cardinality(Begun) /\ ratt'[x] = stries[scur] + 1
      BY <1>2, <1>4, <1>7, <2>2 DEF HolderRow
    <3>3. to = "plan" /\ sop[scur] = "failed" => stries[scur] # 0
      BY <1>1, <1>4, <1>7, <2>3 DEF CurrentRow
    <3>4. to = "plan" /\ sop[scur] = "failed" => stries[scur] > 0
      <4>1. stries[scur] \in Nat
        BY <1>1, <1>4, <1>7 DEF SequentialTypes
      <4>. QED BY <3>3, <4>1
    <3>5. HolderRow(x, scur)'
      BY <3>1, <3>2, <3>4, <1>3, <2>2 DEF HolderRow, ReplaySafe
    <3>. QED BY <3>5, <1>3, <1>4, <1>7, <2>2, HolderStays
  <2>9. to \notin Acts
    BY DEF Acts
  <2>. QED BY <1>2, <1>3, <1>7, <2>1, <2>2, <2>7, <2>8, <2>9, LocalKeeps
<1>. QED BY <1>5, <1>6, <1>7 DEF NextStep, Proceed

LEMMA RenewKeeps == ASSUME SequentialInv, NEW x \in Run, Renew(x) PROVE Kept
<1>1. SequentialTypes /\ AnyRun(x) /\ Holder(x) /\ WorkflowRow /\ RowsInOrder
  BY DEF SequentialInv
<1>2. CASE Raises(x)
  BY <1>2, RaisingKeeps
<1>3. CASE ~Raises(x)
  <2>1. /\ rpc[x] = "renew" /\ Holds(x) /\ rpc' = [rpc EXCEPT ![x] = "next"] /\ ridx' = [ridx EXCEPT ![x] = @ + 1]
        /\ UNCHANGED <<workflowVars, leaseVars, opRows, ratt, rsnap, rkind, rseen, stepHistory>>
    BY <1>3 DEF Renew, Proceed
  <2>2. /\ UNCHANGED <<sop, stries, sstep, srouted, swf, scur, scancel, slease, slive, slate>>
    BY <2>1 DEF workflowVars, opRows, leaseVars, stepHistory
  <2>3. rpc'[x] = "next" /\ ridx'[x] = ridx[x] + 1 /\ (\A y \in Run : y # x => ridx'[y] = ridx[y]) /\ ridx[x] \in Int
    BY <1>1, <2>1 DEF SequentialTypes
  <2>4. AnyRun(x)'
    BY <1>1, <2>1, <2>2, <2>3 DEF AnyRun
  <2>5. Holder(x)'
    <3>1. CASE swf = "completed" /\ ridx[x] = StepCount - 1
      <4>1. ridx'[x] = StepCount
        BY <3>1, <2>3, SequentialAssumption
      <4>. QED BY <3>1, <4>1, <2>2, <2>3 DEF Holder
    <3>2. CASE ~(swf = "completed" /\ ridx[x] = StepCount - 1)
      <4>1. /\ swf \in InProgress /\ scur = ridx[x] + 1 /\ HolderRow(x, scur)
            /\ \A t \in StepNo : t > ridx[x] => rsnap[x].states[t] = "created" /\ rsnap[x].attempts[t] = 0
        BY <1>1, <2>1, <3>2 DEF Holder, LoopPlaces
      <4>2. scur \in StepNo
        BY <4>1, <1>1, CurrentStep DEF InProgress
      <4>3. sop[scur] = "created" /\ stries[scur] = 0
        BY <4>1, <4>2, <1>1, <2>1 DEF HolderRow, RowsInOrder
      <4> DEFINE i == ridx[x]
      <4>a. i \in Int
        BY <2>3
      <4>4. \A t \in StepNo : t > i + 1 => t > i
        <5> HIDE DEF i
        <5>. QED BY <4>a, StepRange
      <4>5. scur > ridx[x]
        BY <2>3, <4>1
      <4>6. rsnap[x].states[scur] = "created" /\ rsnap[x].attempts[scur] = 0
        BY <4>1, <4>2, <4>5
      <4>7. Begun' = Begun /\ Cardinality(Begun) \in Nat /\ Cardinality(Begun) > 0
        BY <1>1, <2>1, SameBegun, LoopBegun DEF LoopPlaces
      <4>8. stries[scur] < RetryMax + Cardinality(Begun)
        <5> HIDE DEF Begun
        <5>. QED BY <4>3, <4>7, SequentialAssumption
      <4>9. HolderRow(x, scur)'
        BY <4>3, <4>6, <4>7, <4>8, <2>1, <2>2, <2>3 DEF HolderRow
      <4>. QED BY <4>1, <4>4, <4>9, <2>1, <2>2, <2>3, HolderStays
    <3>. QED BY <3>1, <3>2
  <2>6. "next" \notin Acts
    BY DEF Acts
  <2>. QED BY <2>1, <2>2, <2>3, <2>4, <2>5, <2>6, LocalKeeps
<1>. QED BY <1>2, <1>3

LEMMA StartKeeps == ASSUME SequentialInv, NEW x \in Run, StartAction(x) PROVE Kept
<1>1. SequentialTypes /\ AnyRun(x) /\ AboutToAct(x) /\ Holder(x) /\ RowInv
  BY DEF SequentialInv, RowInv
<1>2. /\ rpc[x] = "act" /\ rpc' = [rpc EXCEPT ![x] = "acting"] /\ sstarted' = [sstarted EXCEPT ![ridx[x]] = @ + 1]
      /\ slate' = [slate EXCEPT ![x] = @ + IF scancel THEN 1 ELSE 0]
      /\ UNCHANGED <<workflowVars, leaseVars, opRows, runVars, rseen>>
  BY DEF StartAction, Proceed
<1>3. RowsSame /\ UNCHANGED <<srouted, swf, scur, scancel, slease, slive, ridx, ratt, rsnap, rkind, rseen>>
  BY <1>2 DEF workflowVars, opRows, leaseVars, runVars, RowsSame
<1>4. ridx[x] \in StepNo /\ rpc'[x] = "acting" /\ \A y \in Run : y # x => rpc'[y] = rpc[y] /\ slate'[y] = slate[y]
  BY <1>1, <1>2 DEF AnyRun, LoopPlaces, SequentialTypes
<1>5. /\ \A t \in StepNo : t # ridx[x] => sstarted'[t] = sstarted[t]
      /\ sstarted'[ridx[x]] = sstarted[ridx[x]] + 1
  BY <1>1, <1>2, <1>4 DEF SequentialTypes
<1>6. slate'[x] = IF scancel THEN 1 ELSE 0
  <2>1. slate[x] = 0
    BY <1>1, <1>2 DEF AnyRun
  <2>2. slate'[x] = slate[x] + IF scancel THEN 1 ELSE 0
    BY <1>1, <1>2 DEF SequentialTypes
  <2>. QED BY <2>1, <2>2
<1>7. RunStep(x)
  <2>1. x \in Begun'
    BY <1>4 DEF Begun
  <2>2. \A y \in Run : y # x => Same(y) /\ (rseen'[y] => rseen[y] /\ swf' = swf)
    BY <1>3, <1>4 DEF Same
  <2>. QED BY <1>2, <1>3, <1>4, <1>5, <2>1, <2>2 DEF RunStep, RowsSame, Acts
<1>8. Begun' = Begun
  BY <1>1, <1>2, SameBegun DEF LoopPlaces
<1>9. RowInv'
  <2>1. WorkflowRow' /\ CurrentRow' /\ TriesBound'
    BY <1>1, <1>3, <1>8 DEF RowInv, WorkflowRow, CurrentRow, RestingRow, WorkingRow, TriesBound, RowsSame
  <2>2. RowsInOrder'
    BY <1>1, <1>2, <1>3, <1>4, <1>5 DEF RowInv, RowsInOrder, RowsSame, AboutToAct
  <2>3. ridx[x] \in Mutating => sstarted'[ridx[x]] = 1
    BY <1>1, <1>2, <1>5 DEF AboutToAct
  <2>4. ridx[x] \in Intent => ridx[x] \in srouted
    BY <1>1, <1>2 DEF AnyRun
  <2>5. ActedOnce'
    BY <1>1, <1>3, <1>5, <2>3, <2>4 DEF RowInv, ActedOnce
  <2>. QED BY <2>1, <2>2, <2>5 DEF RowInv
<1>10. RunInv(x)'
  <2>1. slate'[x] <= 1 /\ (slate'[x] > 0 => scancel)
    BY <1>6
  <2>2. AnyRun(x)'
    BY <1>1, <1>2, <1>3, <1>4, <2>1 DEF AnyRun, LoopPlaces
  <2>3. AboutToAct(x)'
    BY <1>4 DEF AboutToAct
  <2>4. Holder(x)'
    <3>. SUFFICES ASSUME Holds(x) PROVE Holder(x)'
      BY <1>3 DEF Holder, Holds
    <3>1. rpc[x] \in LoopPlaces \ {"next", "renew"}
      BY <1>2 DEF LoopPlaces
    <3>2. HolderRow(x, scur)'
      BY <3>1, HolderKnows, <1>2, <1>3, <1>4 DEF HolderRow, RowsSame
    <3>. QED BY <3>1, <3>2, HolderKnows, <1>2, <1>3, <1>4, HolderStays
  <2>. QED BY <2>2, <2>3, <2>4 DEF RunInv
<1>. QED BY <1>7, <1>9, <1>10, StepKeeps

-----------------------------------------------------------------------------
(* The operation row and the step row, written by the holder.              *)

LEMMA WriteOperationKeeps ==
    ASSUME SequentialInv, SequentialTypes', NEW x \in Run, Holds(x), rpc[x] \in LoopPlaces \ {"next", "renew", "listing"},
           NEW state \in OperationStates \ {"created"}, NEW tried \in {0, 1},
           NEW to \in LoopPlaces \ {"renew", "next", "listing", "act", "plan", "begin"},
           rpc' = [rpc EXCEPT ![x] = to],
           sop' = [sop EXCEPT ![scur] = state], stries' = [stries EXCEPT ![scur] = @ + tried],
           UNCHANGED <<workflowVars, leaseVars, srouted, sstep, ridx, ratt, rsnap, rseen, stepHistory>>,
           \A y \in Run : y # x => rkind'[y] = rkind[y],
           rkind'[x] = "failed" \/ to \in {"failStep", "failRead", "failWorkflow"},
           to = "beginStep" => rpc[x] = "begin",
           WorkingRow(scur)', HolderRow(x, scur)',
           state \in {"failed", "uncertain"} => stries[scur] > 0,
           stries[scur] + tried <= RetryMax + Cardinality(Begun)
    PROVE  Kept
<1>1. SequentialTypes /\ AnyRun(x) /\ RowsInOrder
  BY DEF SequentialInv
<1>2. UNCHANGED <<swf, scur, scancel, slease, slive, sstarted, slate>>
  BY DEF workflowVars, leaseVars, stepHistory
<1>3. /\ swf \in InProgress /\ scur = ridx[x] /\ scur \in StepNo /\ HolderRow(x, scur)
      /\ \A t \in StepNo : t > ridx[x] => rsnap[x].states[t] = "created" /\ rsnap[x].attempts[t] = 0
  BY HolderKnows
<1>4. rpc'[x] = to /\ \A y \in Run : y # x => rpc'[y] = rpc[y]
  BY <1>1 DEF SequentialTypes
<1>5. sop'[scur] = state /\ \A t \in StepNo : t # scur => sop'[t] = sop[t]
  BY <1>1, <1>3 DEF SequentialTypes
<1>6. to = "beginStep" /\ scur \in Mutating => sop[scur] = "created"
  BY <1>3 DEF HolderRow, ReplaySafe
<1>7. RunStep(x)
  <2>1. x \in Begun'
    BY <1>4 DEF Begun, LoopPlaces
  <2>2. \A y \in Run : y # x => Same(y) /\ (rseen'[y] => rseen[y] /\ swf' = swf)
    BY <1>2, <1>4 DEF Same
  <2>. QED BY <1>2, <1>3, <1>4, <1>5, <1>6, <2>1, <2>2 DEF RunStep, Acts
<1>8. RowInv'
  BY <1>2, <1>3, <1>7, OperationRows
<1>9. AnyRun(x)'
  <2>1. to \notin {"idle", "leasing", "starting", "act", "plan", "begin"}
    BY DEF LoopPlaces
  <2>2. to = "beginStep" => slate[x] = 0 /\ (ridx[x] \in Intent => ridx[x] \in srouted)
    BY <1>1 DEF AnyRun
  <2>. QED BY <1>1, <1>2, <1>3, <1>4, <2>1, <2>2 DEF AnyRun
<1>10. AboutToAct(x)'
  <2>. SUFFICES ASSUME to = "beginStep" PROVE AboutToAct(x)'
    BY <1>4 DEF AboutToAct
  <2>1. ASSUME scur \in Mutating
        PROVE  sstarted[scur] = 0 /\ \A y \in Run : rpc'[y] \in {"beginStep", "act"} /\ ridx[y] = scur => y = x
    <3>1. sop[scur] = "created" /\ sstarted[scur] = 0
      BY <1>1, <1>3, <1>6, <2>1 DEF RowsInOrder
    <3>2. ASSUME NEW y \in Run, y # x PROVE ~(rpc[y] \in {"beginStep", "act"} /\ ridx[y] = scur)
      <4>1. AboutToAct(y)
        BY DEF SequentialInv
      <4>. QED BY <3>1, <4>1 DEF AboutToAct
    <3>. QED BY <3>1, <3>2, <1>4
  <2>. QED BY <2>1, <1>2, <1>3, <1>5 DEF AboutToAct
<1>11. Holder(x)'
  BY <1>2, <1>3, <1>4, HolderStays
<1>. QED BY <1>7, <1>8, <1>9, <1>10, <1>11, StepKeeps DEF RunInv

LEMMA WriteStepKeeps ==
    ASSUME SequentialInv, SequentialTypes', NEW x \in Run, Holds(x), rpc[x] \in LoopPlaces \ {"next", "renew", "listing"},
           NEW state \in StepStates, NEW to \in LoopPlaces \ {"renew", "next", "listing", "beginStep", "plan", "begin"},
           rpc' = [rpc EXCEPT ![x] = to], sstep' = [sstep EXCEPT ![scur] = state],
           UNCHANGED <<workflowVars, leaseVars, sop, stries, srouted, ridx, ratt, rsnap, rkind, rseen, stepHistory>>,
           rkind[x] = "failed" \/ to \in {"failStep", "failRead", "failWorkflow"},
           to = "act" => rpc[x] = "beginStep", sop[scur] # "created",
           WorkingRow(scur)', HolderRow(x, scur)'
    PROVE  Kept
<1>1. SequentialTypes /\ AnyRun(x) /\ AboutToAct(x)
  BY DEF SequentialInv
<1>2. UNCHANGED <<swf, scur, scancel, slease, slive, sstarted, slate>>
  BY DEF workflowVars, leaseVars, stepHistory
<1>3. /\ swf \in InProgress /\ scur = ridx[x] /\ scur \in StepNo
      /\ \A t \in StepNo : t > ridx[x] => rsnap[x].states[t] = "created" /\ rsnap[x].attempts[t] = 0
  BY HolderKnows
<1>4. rpc'[x] = to /\ \A y \in Run : y # x => rpc'[y] = rpc[y]
  BY <1>1 DEF SequentialTypes
<1>5. RunStep(x)
  <2>1. x \in Begun'
    BY <1>4 DEF Begun, LoopPlaces
  <2>2. \A y \in Run : y # x => Same(y) /\ (rseen'[y] => rseen[y] /\ swf' = swf)
    BY <1>2, <1>4 DEF Same
  <2>. QED BY <1>2, <1>3, <1>4, <2>1, <2>2 DEF RunStep, Acts
<1>6. RowInv'
  BY <1>2, <1>3, <1>5, StepRows
<1>7. AnyRun(x)'
  <2>1. to \notin {"idle", "leasing", "starting", "beginStep", "plan", "begin"}
    BY DEF LoopPlaces
  <2>2. to = "act" => slate[x] = 0 /\ (ridx[x] \in Intent => ridx[x] \in srouted)
    BY <1>1 DEF AnyRun
  <2>. QED BY <1>1, <1>2, <1>3, <1>4, <2>1, <2>2 DEF AnyRun
<1>8. AboutToAct(x)'
  <2>. SUFFICES ASSUME to = "act" PROVE AboutToAct(x)'
    BY <1>4 DEF AboutToAct
  <2>. QED BY <1>1, <1>2, <1>4 DEF AboutToAct
<1>9. Holder(x)'
  BY <1>2, <1>3, <1>4, HolderStays
<1>. QED BY <1>5, <1>6, <1>7, <1>8, <1>9, StepKeeps DEF RunInv

\* The current step has a bounded number of tries, and its row is typed.
LEMMA CurrentTries ==
    ASSUME SequentialInv, scur \in StepNo
    PROVE  stries[scur] \in Nat /\ stries[scur] + 0 <= RetryMax + Cardinality(Begun) /\ stries[scur] + 0 = stries[scur]
<1>1. stries[scur] \in Nat /\ stries[scur] <= RetryMax + Cardinality(Begun)
  BY DEF SequentialInv, SequentialTypes, TriesBound
<1> HIDE DEF Begun
<1>. QED BY <1>1

\* A checkpoint that counts a try: the action is about to begin, or its plan failed.
LEMMA RunningKeeps ==
    ASSUME SequentialInv, SequentialTypes', NEW x \in Run, NEW from \in {"planFailed", "begin"},
           NEW to \in {"planFailedStep", "beginStep"}, from = "begin" <=> to = "beginStep",
           CheckpointOperation(x, from, "running", 1, to)
    PROVE  Kept
<1>1. SequentialTypes /\ AnyRun(x) /\ RowsInOrder
  BY DEF SequentialInv
<1>2. CASE Raises(x)
  BY <1>2, RaisingKeeps
<1>3. CASE ~Raises(x)
  <2>1. /\ rpc[x] = from /\ Holds(x) /\ OperationMoves(sop[ridx[x]], "running")
        /\ sop' = [sop EXCEPT ![ridx[x]] = "running"] /\ stries' = [stries EXCEPT ![ridx[x]] = @ + 1]
        /\ rpc' = [rpc EXCEPT ![x] = to]
        /\ UNCHANGED <<workflowVars, leaseVars, srouted, sstep, runVars, rseen, stepHistory>>
    BY <1>3 DEF CheckpointOperation, Proceed
  <2>2. UNCHANGED <<scur, ridx, ratt, rsnap, rkind>>
    BY <2>1 DEF workflowVars, runVars
  <2>3. /\ from \in LoopPlaces \ {"next", "renew", "listing"}
        /\ to \in LoopPlaces \ {"renew", "next", "listing", "act", "plan", "begin"}
    BY DEF LoopPlaces
  <2>4. scur = ridx[x] /\ scur \in StepNo /\ HolderRow(x, scur) /\ WorkingRow(scur)
    BY <2>1, <2>3, HolderKnows
  <2>5. /\ sop[scur] \in {"created", "failed", "unresolvable"} /\ stries[scur] < RetryMax + Cardinality(Begun)
        /\ ratt[x] = stries[scur] + 1 /\ (sop[scur] = "failed" => stries[scur] > 0)
    BY <2>1, <2>4 DEF HolderRow
  <2>6. sop[scur] # "unresolvable"
    BY <2>1, <2>4 DEF OperationMoves
  <2>7. stries[scur] \in Nat /\ Cardinality(Begun) \in Nat /\ RetryMax \in Nat
    BY <1>1, <2>1, <2>3, <2>4, LoopBegun, SequentialAssumption DEF SequentialTypes
  <2>8. /\ stries[scur] + 1 <= RetryMax + Cardinality(Begun) /\ stries[scur] + 1 > 0
        /\ sop[scur] = "failed" => stries[scur] + 1 > 1
    <3> HIDE DEF Begun
    <3>. QED BY <2>5, <2>7
  <2>9. sop'[scur] = "running" /\ stries'[scur] = stries[scur] + 1 /\ rpc'[x] = to
    BY <1>1, <2>1, <2>4 DEF SequentialTypes
  <2>10. sop[scur] = "created" => sstep[scur] = "created"
    BY <1>1, <2>4 DEF RowsInOrder
  <2>11. WorkingRow(scur)'
    BY <2>1, <2>2, <2>4, <2>5, <2>6, <2>8, <2>9, <2>10 DEF WorkingRow
  <2>12. HolderRow(x, scur)'
    BY <2>1, <2>2, <2>5, <2>9 DEF HolderRow
  <2>13. rkind[x] = "failed"
    BY <1>1, <2>1 DEF AnyRun
  <2>. QED BY <2>1, <2>2, <2>3, <2>4, <2>8, <2>11, <2>12, <2>13, WriteOperationKeeps DEF OperationStates
<1>. QED BY <1>2, <1>3

\* The outcome of the action is recorded, or the operation is cancelled.
LEMMA OutcomeKeeps ==
    ASSUME SequentialInv, SequentialTypes', NEW x \in Run, NEW from, NEW state, NEW to,
           CheckpointOperation(x, from, state, 0, to),
           \/ from = "succeeded" /\ state = "succeeded" /\ to = "succeededStep"
           \/ from = "transientOperation" /\ state = "failed" /\ to = "afterTransient"
           \/ from = "failedOperation" /\ state = "failed" /\ to = "failStep"
           \/ from = "cancelOperation" /\ state = "cancelled" /\ to = "cancelStep"
    PROVE  Kept
<1>1. SequentialTypes /\ AnyRun(x)
  BY DEF SequentialInv
<1>2. CASE Raises(x)
  BY <1>2, RaisingKeeps
<1>3. CASE ~Raises(x)
  <2>1. /\ rpc[x] = from /\ Holds(x)
        /\ sop' = [sop EXCEPT ![ridx[x]] = state] /\ stries' = [stries EXCEPT ![ridx[x]] = @ + 0]
        /\ rpc' = [rpc EXCEPT ![x] = to]
        /\ UNCHANGED <<workflowVars, leaseVars, srouted, sstep, runVars, rseen, stepHistory>>
    BY <1>3 DEF CheckpointOperation, Proceed
  <2>2. UNCHANGED <<scur, ridx, ratt, rsnap, rkind>>
    BY <2>1 DEF workflowVars, runVars
  <2>3. /\ from \in LoopPlaces \ {"next", "renew", "listing"} /\ state \in OperationStates \ {"created"}
        /\ to \in LoopPlaces \ {"renew", "next", "listing", "act", "plan", "begin"} /\ to # "beginStep"
    BY DEF LoopPlaces, OperationStates
  <2>4. scur = ridx[x] /\ scur \in StepNo /\ HolderRow(x, scur) /\ WorkingRow(scur)
    BY <2>1, <2>3, HolderKnows
  <2>5. sop'[scur] = state /\ stries'[scur] = stries[scur] /\ rpc'[x] = to
    BY <1>1, <2>1, <2>4, CurrentTries DEF SequentialTypes
  <2>6. rkind[x] = "failed"
    BY <1>1, <2>1 DEF AnyRun
  <2>7. state = "failed" => stries[scur] > 0 /\ sstep[scur] = "running"
    BY <2>1, <2>4 DEF HolderRow, WorkingRow
  <2>8. WorkingRow(scur)'
    BY <2>1, <2>2, <2>5, <2>7 DEF WorkingRow
  <2>9. HolderRow(x, scur)'
    BY <2>1, <2>2, <2>4, <2>5, <2>6, <2>7 DEF HolderRow
  <2>10. state # "uncertain" /\ 0 \in {0, 1} /\ stries[scur] + 0 <= RetryMax + Cardinality(Begun)
    BY <2>4, CurrentTries
  <2>. QED BY <2>1, <2>2, <2>3, <2>4, <2>6, <2>7, <2>8, <2>9, <2>10, WriteOperationKeeps
<1>. QED BY <1>2, <1>3

LEMMA UncertainKeeps == ASSUME SequentialInv, SequentialTypes', NEW x \in Run, RecordUncertain(x) PROVE Kept
<1>1. SequentialTypes /\ AnyRun(x)
  BY DEF SequentialInv
<1>2. CASE Raises(x)
  BY <1>2, RaisingKeeps
<1>3. CASE ~Raises(x)
  <2>1. /\ rpc[x] = "uncertainOperation" /\ Holds(x)
        /\ sop' = [sop EXCEPT ![ridx[x]] = "uncertain"] /\ rkind' = [rkind EXCEPT ![x] = "uncertain"]
        /\ rpc' = [rpc EXCEPT ![x] = "failStep"]
        /\ UNCHANGED <<workflowVars, leaseVars, stries, srouted, sstep, ridx, ratt, rsnap, rseen, stepHistory>>
    BY <1>3 DEF RecordUncertain, Proceed
  <2>2. UNCHANGED scur
    BY <2>1 DEF workflowVars
  <2>3. /\ rpc[x] \in LoopPlaces \ {"next", "renew", "listing"} /\ "uncertain" \in OperationStates \ {"created"}
        /\ "failStep" \in LoopPlaces \ {"renew", "next", "listing", "act", "plan", "begin"}
    BY <2>1 DEF LoopPlaces, OperationStates
  <2>4. scur = ridx[x] /\ scur \in StepNo /\ HolderRow(x, scur) /\ WorkingRow(scur)
    BY <2>1, <2>3, HolderKnows
  <2>5. /\ sop'[scur] = "uncertain" /\ rpc'[x] = "failStep" /\ rkind'[x] = "uncertain"
        /\ \A y \in Run : y # x => rkind'[y] = rkind[y]
    BY <1>1, <2>1, <2>4 DEF SequentialTypes
  <2>6. stries' = [stries EXCEPT ![scur] = @ + 0]
    BY <1>1, <2>1, <2>4, CurrentTries DEF SequentialTypes
  <2>7. stries[scur] > 0 /\ sstep[scur] = "running"
    BY <2>1, <2>4 DEF HolderRow, WorkingRow
  <2>8. WorkingRow(scur)'
    BY <2>1, <2>2, <2>5, <2>7 DEF WorkingRow
  <2>9. HolderRow(x, scur)'
    BY <2>1, <2>2, <2>5 DEF HolderRow
  <2>10. 0 \in {0, 1} /\ stries[scur] + 0 <= RetryMax + Cardinality(Begun)
    BY <2>4, CurrentTries
  <2>. QED BY <2>1, <2>3, <2>4, <2>5, <2>6, <2>7, <2>8, <2>9, <2>10, WriteOperationKeeps
<1>. QED BY <1>2, <1>3

LEMMA CheckpointStepKeeps ==
    ASSUME SequentialInv, SequentialTypes', NEW x \in Run, NEW from, NEW state, NEW to, CheckpointStep(x, from, state, to),
           \/ from = "planFailedStep" /\ state = "running" /\ to = "failedOperation"
           \/ from = "beginStep" /\ state = "running" /\ to = "act"
           \/ from = "succeededStep" /\ state = "completed" /\ to = "latest"
           \/ from = "failStep" /\ state = rkind[x] /\ to = "failRead"
           \/ from = "cancelStep" /\ state = "cancelled" /\ to = "cancelRead"
    PROVE  Kept
<1>1. SequentialTypes /\ AnyRun(x) /\ rkind[x] \in {"failed", "uncertain"}
  BY DEF SequentialInv, SequentialTypes
<1>2. CASE Raises(x)
  BY <1>2, RaisingKeeps
<1>3. CASE ~Raises(x)
  <2>1. /\ rpc[x] = from /\ Holds(x) /\ sstep' = [sstep EXCEPT ![ridx[x]] = state] /\ rpc' = [rpc EXCEPT ![x] = to]
        /\ UNCHANGED <<workflowVars, leaseVars, sop, stries, srouted, runVars, rseen, stepHistory>>
    BY <1>3 DEF CheckpointStep, Proceed
  <2>2. UNCHANGED <<scur, ridx, ratt, rsnap, rkind, sop, stries>>
    BY <2>1 DEF workflowVars, runVars
  <2>3. /\ from \in LoopPlaces \ {"next", "renew", "listing"} /\ state \in StepStates
        /\ to \in LoopPlaces \ {"renew", "next", "listing", "beginStep", "plan", "begin"}
        /\ to = "act" => from = "beginStep"
    BY <1>1 DEF LoopPlaces, StepStates
  <2>4. scur = ridx[x] /\ scur \in StepNo /\ HolderRow(x, scur) /\ WorkingRow(scur)
    BY <2>1, <2>3, HolderKnows
  <2>5. sstep'[scur] = state /\ rpc'[x] = to
    BY <1>1, <2>1, <2>4 DEF SequentialTypes
  <2>6. rkind[x] = "failed" \/ to \in {"failStep", "failRead", "failWorkflow"}
    BY <1>1, <2>1 DEF AnyRun
  <2>7. sop[scur] # "created"
    BY <1>1, <2>1, <2>4 DEF HolderRow
  <2>8. WorkingRow(scur)'
    BY <1>1, <2>1, <2>2, <2>4, <2>5 DEF WorkingRow, HolderRow
  <2>9. HolderRow(x, scur)'
    BY <1>1, <2>1, <2>2, <2>4, <2>5 DEF HolderRow
  <2>. QED BY <2>1, <2>2, <2>3, <2>4, <2>6, <2>7, <2>8, <2>9, WriteStepKeeps
<1>. QED BY <1>2, <1>3

LEMMA CancelledAgainKeeps ==
    ASSUME SequentialInv, NEW x \in Run, rpc[x] = "cancelOperation", sop[ridx[x]] = "cancelled", Proceed(x, "cancelStep"),
           UNCHANGED <<workflowVars, leaseVars, opRows, runVars, rseen, stepHistory>>
    PROVE  Kept
<1>1. SequentialTypes /\ AnyRun(x)
  BY DEF SequentialInv
<1>2. rpc' = [rpc EXCEPT ![x] = "cancelStep"]
  BY DEF Proceed
<1>3. /\ UNCHANGED <<workflowVars, leaseVars, sop, stries, sstep, stepHistory, ridx, rsnap, rkind, scur, ratt, srouted>>
  BY DEF runVars, workflowVars, opRows
<1>4. rkind[x] = "failed"
  BY <1>1 DEF AnyRun
<1>5. HolderRow(x, scur) /\ scur = ridx[x] /\ rpc'[x] = "cancelStep" => HolderRow(x, scur)'
  BY <1>3 DEF HolderRow
<1>6. "cancelStep" \in LoopPlaces \ (Acts \cup {"renew", "next", "listing"}) /\ rpc[x] \in LoopPlaces \ {"next", "renew", "listing"}
  BY DEF LoopPlaces, Acts
<1>. QED BY <1>2, <1>3, <1>4, <1>5, <1>6, PlaceKeeps
-----------------------------------------------------------------------------
(* The workflow row, written by the holder.                                *)

LEMMA WritingRun ==
    ASSUME SequentialTypes, NEW x \in Run, Holds(x), NEW to, to \notin Acts \cup {"idle", "leasing", "starting"},
           rpc' = [rpc EXCEPT ![x] = to], rseen' = [y \in Run |-> FALSE],
           UNCHANGED <<scancel, leaseVars, opRows, stepHistory>>,
           \A y \in Run : y # x => /\ ridx'[y] = ridx[y] /\ ratt'[y] = ratt[y] /\ rsnap'[y] = rsnap[y]
                                   /\ rkind'[y] = rkind[y]
    PROVE  RunStep(x)
<1>1. UNCHANGED <<sop, srouted, slease, slive, sstarted, slate>>
  BY DEF leaseVars, opRows, stepHistory
<1>2. rpc'[x] = to /\ \A y \in Run : y # x => rpc'[y] = rpc[y]
  BY DEF SequentialTypes
<1>3. \A y \in Run : y # x => Same(y) /\ ~rseen'[y]
  BY <1>1, <1>2 DEF Same
<1>4. x \in Begun'
  BY <1>2 DEF Begun
<1>. QED BY <1>1, <1>2, <1>3, <1>4 DEF RunStep

\* An execution that writes the row for the last time and leaves.
LEMMA LeavingWriter ==
    ASSUME SequentialInv, NEW x \in Run, Holds(x), rpc[x] \in LoopPlaces, Forgets(x, "leaving"),
           rseen' = [y \in Run |-> FALSE], UNCHANGED <<scancel, leaseVars, opRows, stepHistory>>
    PROVE  RunStep(x) /\ RunInv(x)' /\ Begun' = Begun
<1>1. SequentialTypes /\ AnyRun(x)
  BY DEF SequentialInv
<1>2. /\ rpc' = [rpc EXCEPT ![x] = "leaving"] /\ ridx' = [ridx EXCEPT ![x] = 0] /\ ratt' = [ratt EXCEPT ![x] = 0]
      /\ rsnap' = [rsnap EXCEPT ![x] = NoRows] /\ rkind' = [rkind EXCEPT ![x] = "failed"]
  BY DEF Forgets, Proceed
<1>3. /\ rpc'[x] = "leaving" /\ rkind'[x] = "failed" /\ ~rseen'[x]
      /\ \A y \in Run : y # x => /\ ridx'[y] = ridx[y] /\ ratt'[y] = ratt[y] /\ rsnap'[y] = rsnap[y]
                                 /\ rkind'[y] = rkind[y] /\ rpc'[y] = rpc[y]
  BY <1>1, <1>2 DEF SequentialTypes
<1>4. RunStep(x)
  BY <1>1, <1>2, <1>3, WritingRun DEF Acts
<1>5. UNCHANGED <<scancel, slease, slate>>
  BY DEF leaseVars, stepHistory
<1>6. RunInv(x)'
  BY <1>1, <1>3, <1>5 DEF RunInv, AnyRun, AboutToAct, Holder, LoopPlaces
<1>7. Begun' = Begun
  <2>1. \A y \in Run : rpc[y] \in {"idle", "leasing", "starting"} <=> rpc'[y] \in {"idle", "leasing", "starting"}
    BY <1>3 DEF LoopPlaces
  <2>. QED BY <2>1 DEF Begun
<1>. QED BY <1>4, <1>6, <1>7

LEMMA BeginKeeps == ASSUME SequentialInv, NEW x \in Run, BeginRunning(x) PROVE Kept
<1>1. SequentialTypes /\ AnyRun(x) /\ RowInv
  BY DEF SequentialInv, RowInv
<1>2. CASE Raises(x)
  BY <1>2, RaisingKeeps
<1>3. CASE ~Raises(x)
  <2>1. /\ rpc[x] = "starting" /\ rseen[x] /\ Holds(x) /\ swf' = "running" /\ scur' = scur /\ rseen' = [y \in Run |-> FALSE]
        /\ ridx' = [ridx EXCEPT ![x] = scur] /\ rpc' = [rpc EXCEPT ![x] = "listing"]
        /\ UNCHANGED <<scancel, leaseVars, opRows, ratt, rsnap, rkind, stepHistory>>
    BY <1>3 DEF BeginRunning, WriteWorkflow, Proceed
  <2>2. UNCHANGED <<sop, stries, sstep, srouted, slease, slive, sstarted, slate>>
    BY <2>1 DEF leaseVars, opRows, stepHistory
  <2>3. swf = "queued" /\ scur \in StepNo
    BY <1>1, <2>1, CurrentStep DEF AnyRun, RowInv
  <2>4. rpc'[x] = "listing" /\ ridx'[x] = scur /\ ~rseen'[x] /\ \A y \in Run : y # x => ridx'[y] = ridx[y] /\ rpc'[y] = rpc[y]
    BY <1>1, <2>1 DEF SequentialTypes
  <2>5. RunStep(x)
    BY <1>1, <2>1, <2>4, WritingRun DEF Acts
  <2>6. /\ sop[scur] = "created" \/ (sop[scur] \in {"failed", "unresolvable"} /\ ReplaySafe(scur))
        /\ sop[scur] \in {"failed", "unresolvable"} => sstep[scur] = "failed"
    BY <1>1, <2>3 DEF RowInv, CurrentRow, RestingRow
  <2>7. RowInv'
    <3>1. WorkflowRow' /\ RowsInOrder' /\ ActedOnce'
      BY <1>1, <2>1, <2>2, <2>3 DEF RowInv, WorkflowRow, RowsInOrder, ActedOnce
    <3>2. CurrentRow'
      BY <1>1, <2>1, <2>2, <2>6 DEF RowInv, CurrentRow, WorkingRow
    <3>3. TriesBound'
      <4>1. \A s \in StepNo : stries'[s] = stries[s] /\ stries[s] \in Nat /\ stries[s] <= RetryMax + Cardinality(Begun)
        BY <1>1, <2>2 DEF SequentialTypes, RowInv, TriesBound
      <4>2. ASSUME NEW s \in StepNo PROVE stries'[s] <= RetryMax + Cardinality(Begun')
        <5> HIDE DEF Begun
        <5>. QED BY <4>1, <2>5, BegunGrows, SequentialAssumption
      <4>. QED BY <4>2 DEF TriesBound
    <3>. QED BY <3>1, <3>2, <3>3 DEF RowInv
  <2>8. RunInv(x)'
    <3>1. AnyRun(x)'
      BY <1>1, <2>1, <2>2, <2>3, <2>4 DEF AnyRun
    <3>2. AboutToAct(x)'
      BY <2>4 DEF AboutToAct
    <3>3. x \notin Begun /\ x \in Begun'
      BY <2>1, <2>4 DEF Begun
    <3>4. stries[scur] \in Nat /\ stries[scur] <= RetryMax + Cardinality(Begun)
      BY <1>1, <2>3 DEF SequentialTypes, RowInv, TriesBound
    <3>5. stries[scur] < RetryMax + Cardinality(Begun')
      <4>1. Begun \in SUBSET Run /\ Begun' \in SUBSET Run /\ Begun \subseteq Begun'
        BY <2>5, BegunGrows
      <4> HIDE DEF Begun
      <4>2. Cardinality(Begun) < Cardinality(Begun') /\ Cardinality(Begun) \in Nat /\ Cardinality(Begun') \in Nat
        BY <3>3, <4>1, RunSets
      <4>. QED BY <3>4, <4>2, SequentialAssumption
    <3>6. HolderRow(x, scur)'
      BY <2>1, <2>2, <2>4, <2>6, <3>5 DEF HolderRow, ReplaySafe
    <3>7. Holder(x)'
      BY <3>6, <2>1, <2>4, HolderStays DEF InProgress
    <3>. QED BY <3>1, <3>2, <3>7 DEF RunInv
  <2>. QED BY <2>5, <2>7, <2>8, StepKeeps
<1>. QED BY <1>2, <1>3

\* The row moves past the current step, which has succeeded.
LEMMA RowsAdvance ==
    ASSUME SequentialTypes, RowInv, scur \in StepNo, sop'[scur] \in Succeeded, sstep'[scur] = "completed",
           \A t \in StepNo : t # scur => sop'[t] = sop[t] /\ sstep'[t] = sstep[t],
           UNCHANGED <<stries, srouted, sstarted>>, Begun' = Begun, scur' = scur + 1,
           swf' \in {"cancelled", "completed", "running", "paused"}, swf' = "completed" => scur' = StepCount,
           scur' = StepCount => swf' \in {"completed", "cancelled"}
    PROVE  RowInv' /\ (scur' # StepCount => scur' \in StepNo /\ sop'[scur'] = "created")
<1>1. WorkflowRow'
  BY DEF WorkflowRow
<1>2. /\ \A t \in StepNo : t < scur + 1 => t < scur \/ t = scur
      /\ \A t \in StepNo : t > scur + 1 => t > scur /\ t # scur
      /\ \A t \in StepNo : t < scur => t # scur
  BY StepRange
<1>3. RowsInOrder'
  <2>1. ASSUME NEW t \in StepNo, t < scur + 1 PROVE sop'[t] \in Succeeded /\ sstep'[t] = "completed"
    BY <1>2, <2>1 DEF RowInv, RowsInOrder
  <2>2. ASSUME NEW t \in StepNo, t > scur + 1 PROVE sop'[t] = "created"
    BY <1>2, <2>2 DEF RowInv, RowsInOrder
  <2>3. ASSUME NEW t \in StepNo, sop'[t] = "created" PROVE sstep'[t] = "created" /\ stries[t] = 0 /\ sstarted[t] = 0
    BY <2>3 DEF RowInv, RowsInOrder, Succeeded
  <2>. QED BY <2>1, <2>2, <2>3 DEF RowsInOrder
<1>4. ASSUME scur' # StepCount PROVE scur' \in StepNo /\ sop'[scur'] = "created" /\ sstep'[scur'] = "created"
  <2>1. scur + 1 \in StepNo /\ scur + 1 > scur /\ scur + 1 # scur
    BY <1>4, StepArithmetic, StepRange
  <2>2. sop[scur + 1] = "created"
    BY <2>1 DEF RowInv, RowsInOrder
  <2>. QED BY <2>1, <2>2, <1>3 DEF RowsInOrder
<1>5. CurrentRow'
  <2>1. StepCount \notin StepNo
    BY SequentialAssumption DEF StepNo
  <2>2. ASSUME swf' \in {"running", "paused"} PROVE sop'[scur'] = "created"
    BY <1>4, <2>2
  <2>3. ASSUME scur' \in StepNo PROVE sop'[scur'] = "created"
    BY <1>4, <2>1, <2>3
  <2>. QED BY <2>2, <2>3 DEF CurrentRow, RestingRow, WorkingRow, InProgress
<1>6. ActedOnce' /\ TriesBound'
  BY DEF RowInv, ActedOnce, TriesBound
<1>. QED BY <1>1, <1>3, <1>4, <1>5, <1>6 DEF RowInv

LEMMA ConcludeKeeps == ASSUME SequentialInv, NEW x \in Run, Conclude(x) PROVE Kept
<1>1. SequentialTypes /\ AnyRun(x) /\ RowInv
  BY DEF SequentialInv, RowInv
<1>2. CASE Raises(x)
  BY <1>2, RaisingKeeps
<1>3. CASE ~Raises(x)
  <2>1. /\ rpc[x] = "conclude" /\ Holds(x) /\ scur' = ridx[x] + 1 /\ rseen' = [y \in Run |-> FALSE]
        /\ UNCHANGED <<scancel, leaseVars, opRows, stepHistory>>
        /\ \/ swf' = "cancelled" /\ Forgets(x, "leaving")
           \/ /\ swf' = (IF ridx[x] + 1 = StepCount THEN "completed" ELSE "running")
              /\ rpc' = [rpc EXCEPT ![x] = "renew"] /\ UNCHANGED runVars
    BY <1>3 DEF Conclude, WriteWorkflow, Proceed
  <2>2. UNCHANGED <<sop, stries, sstep, srouted, slease, slive, sstarted, slate>>
    BY <2>1 DEF leaseVars, opRows, stepHistory
  <2>3. rpc[x] \in LoopPlaces /\ rpc[x] \notin {"next", "renew", "listing"}
    BY <2>1 DEF LoopPlaces
  <2>4. /\ scur = ridx[x] /\ scur \in StepNo /\ HolderRow(x, scur)
        /\ \A t \in StepNo : t > ridx[x] => rsnap[x].states[t] = "created" /\ rsnap[x].attempts[t] = 0
    BY <2>1, <2>3, HolderKnows
  <2>5. sop[scur] = "succeeded" /\ sstep[scur] = "completed"
    BY <2>1, <2>4 DEF HolderRow
  <2>6. ASSUME Begun' = Begun PROVE RowInv' /\ (scur' # StepCount => scur' \in StepNo /\ sop'[scur'] = "created")
    BY <1>1, <2>1, <2>2, <2>4, <2>5, <2>6, RowsAdvance DEF Succeeded
  <2>7. CASE Forgets(x, "leaving")
    BY <2>1, <2>3, <2>6, <2>7, LeavingWriter, StepKeeps
  <2>8. CASE /\ swf' = (IF ridx[x] + 1 = StepCount THEN "completed" ELSE "running")
             /\ rpc' = [rpc EXCEPT ![x] = "renew"] /\ UNCHANGED runVars
    <3>1. UNCHANGED <<ridx, ratt, rsnap, rkind>> /\ rpc'[x] = "renew" /\ ~rseen'[x]
      BY <1>1, <2>1, <2>8 DEF runVars, SequentialTypes
    <3>2. Begun' = Begun
      BY <1>1, <2>3, <2>8, SameBegun DEF LoopPlaces
    <3>3. RunStep(x)
      BY <1>1, <2>1, <2>8, <3>1, WritingRun DEF Acts
    <3>4. AnyRun(x)' /\ AboutToAct(x)'
      BY <1>1, <2>1, <2>2, <2>3, <3>1 DEF AnyRun, AboutToAct
    <3>5. Holder(x)'
      <4>1. CASE ridx[x] + 1 = StepCount
        <5>1. ridx[x] = StepCount - 1
          BY <4>1, <2>4, StepRange
        <5>. QED BY <4>1, <5>1, <2>8, <3>1 DEF Holder
      <4>2. CASE ridx[x] + 1 # StepCount
        <5>1. swf' \in InProgress /\ sop'[scur'] = "created"
          BY <4>2, <2>1, <2>6, <2>8, <3>2 DEF InProgress
        <5>2. HolderRow(x, scur)'
          BY <5>1, <3>1 DEF HolderRow
        <5>. QED BY <5>1, <5>2, <2>1, <2>4, <3>1 DEF Holder
      <4>. QED BY <4>1, <4>2
    <3>. QED BY <2>6, <3>2, <3>3, <3>4, <3>5, StepKeeps DEF RunInv
  <2>. QED BY <2>1, <2>7, <2>8
<1>. QED BY <1>2, <1>3

LEMMA EndWorkflowKeeps ==
    ASSUME SequentialInv, NEW x \in Run, CancelWorkflow(x) \/ FailWorkflow(x)
    PROVE  Kept
<1>1. SequentialTypes /\ AnyRun(x) /\ RowInv
  BY DEF SequentialInv, RowInv
<1>2. CASE Raises(x)
  BY <1>2, RaisingKeeps
<1>3. CASE ~Raises(x)
  <2>1. /\ Holds(x) /\ rseen' = [y \in Run |-> FALSE] /\ Forgets(x, "leaving")
        /\ UNCHANGED <<scancel, leaseVars, opRows, stepHistory>>
        /\ \/ rpc[x] = "cancelWorkflow" /\ swf' = "cancelled" /\ scur' = ridx[x]
           \/ rpc[x] = "failWorkflow" /\ swf' = rkind[x] /\ scur' = scur
    BY <1>3 DEF CancelWorkflow, FailWorkflow, WriteWorkflow
  <2>2. UNCHANGED <<sop, stries, sstep, srouted, slease, slive, sstarted, slate>>
    BY <2>1 DEF leaseVars, opRows, stepHistory
  <2>3. rpc[x] \in LoopPlaces /\ rpc[x] \notin {"next", "renew", "listing"}
    BY <2>1 DEF LoopPlaces
  <2>4. scur = ridx[x] /\ scur \in StepNo /\ HolderRow(x, scur)
    BY <2>1, <2>3, HolderKnows
  <2>5. RunStep(x) /\ RunInv(x)' /\ Begun' = Begun
    BY <2>1, <2>3, LeavingWriter
  <2>6. scur' = scur /\ rkind[x] \in {"failed", "uncertain"} /\ scur # StepCount
    <3>1. StepCount \notin StepNo
      BY SequentialAssumption DEF StepNo
    <3>. QED BY <3>1, <1>1, <2>1, <2>4 DEF SequentialTypes
  <2>7. WorkflowRow' /\ RowsInOrder' /\ ActedOnce' /\ TriesBound'
    BY <1>1, <2>1, <2>2, <2>5, <2>6 DEF RowInv, WorkflowRow, RowsInOrder, ActedOnce, TriesBound
  <2>8. CurrentRow'
    <3>1. CASE rpc[x] = "cancelWorkflow"
      BY <3>1, <1>1, <2>1, <2>2, <2>6 DEF RowInv, CurrentRow, InProgress
    <3>2. CASE rpc[x] = "failWorkflow"
      <4>1. sop[scur] = rkind[x] /\ sstep[scur] = rkind[x] /\ swf' = rkind[x]
        BY <3>2, <2>1, <2>4 DEF HolderRow
      <4>2. RestingRow(scur)'
        BY <4>1, <2>2, <2>6 DEF RestingRow
      <4>. QED BY <4>1, <4>2, <1>1, <2>1, <2>2, <2>6 DEF RowInv, CurrentRow, InProgress
    <3>. QED BY <2>1, <3>1, <3>2
  <2>. QED BY <2>5, <2>7, <2>8, StepKeeps DEF RowInv
<1>. QED BY <1>2, <1>3

-----------------------------------------------------------------------------
(* The lease.                                                              *)

\* The lease changes hands outside the loop: nobody inside the loop gains it.
LEMMA LeaseKeeps ==
    ASSUME SequentialInv, NEW x \in Run, rpc[x] \notin LoopPlaces,
           NEW to \in {"starting", "done"}, rpc' = [rpc EXCEPT ![x] = to], x \in Begun => to = "done",
           UNCHANGED <<workflowVars, opRows, runVars, rseen, stepHistory>>,
           \A y \in Run : slease' = y => y = x \/ slease = y,
           \A y \in Run : y # x /\ Holds(y)' => Holds(y),
           to = "starting" => rpc[x] \in {"leasing", "starting"}
    PROVE  Kept
<1>1. SequentialTypes /\ RowInv
  BY DEF SequentialInv, RowInv
<1>2. RowsSame /\ UNCHANGED <<swf, scur, scancel, srouted, sstarted, slate, ridx, ratt, rsnap, rkind, rseen>>
  BY DEF workflowVars, opRows, runVars, stepHistory, RowsSame
<1>3. rpc'[x] = to /\ to \notin LoopPlaces /\ to \notin {"idle", "leasing"} /\ \A y \in Run : y # x => rpc'[y] = rpc[y]
  BY <1>1 DEF SequentialTypes, LoopPlaces
<1>4. /\ Begun \in SUBSET Run /\ Begun' \in SUBSET Run /\ Begun \subseteq Begun'
  BY <1>3 DEF Begun
<1>5. Cardinality(Begun) \in Nat /\ Cardinality(Begun') \in Nat /\ Cardinality(Begun) <= Cardinality(Begun')
  <2> HIDE DEF Begun
  <2>. QED BY <1>4, RunSets
<1>6. RowInv'
  <2>1. WorkflowRow' /\ RowsInOrder' /\ ActedOnce'
    BY <1>1, <1>2 DEF RowInv, WorkflowRow, RowsInOrder, ActedOnce, RowsSame
  <2>2. CurrentRow'
    BY <1>1, <1>2 DEF RowInv, CurrentRow, RestingRow, WorkingRow, RowsSame
  <2>3. \A s \in StepNo : stries'[s] = stries[s] /\ stries[s] \in Nat /\ stries[s] <= RetryMax + Cardinality(Begun)
    BY <1>1, <1>2 DEF SequentialTypes, RowInv, TriesBound, RowsSame
  <2>4. ASSUME NEW s \in StepNo PROVE stries'[s] <= RetryMax + Cardinality(Begun')
    <3> HIDE DEF Begun
    <3>. QED BY <2>3, <1>5, SequentialAssumption
  <2>. QED BY <2>1, <2>2, <2>4 DEF RowInv, TriesBound
<1>7. RunInv(x)'
  <2>1. AnyRun(x)
    BY DEF SequentialInv
  <2>2. to \notin {"failStep", "failRead", "failWorkflow", "begin", "beginStep", "act", "plan"}
    OBVIOUS
  <2>3. rkind[x] = "failed"
    BY <2>1 DEF AnyRun, LoopPlaces
  <2>4. AnyRun(x)'
    BY <2>1, <2>2, <2>3, <1>2, <1>3 DEF AnyRun
  <2>. QED BY <2>4, <1>3 DEF RunInv, AboutToAct, Holder
<1>8. ASSUME NEW y \in Run, y # x PROVE RunInv(y)'
  <2>1. AnyRun(y) /\ AboutToAct(y) /\ Holder(y)
    BY DEF SequentialInv
  <2>2. AnyRun(y)'
    BY <1>2, <1>3, <1>8, <2>1 DEF AnyRun
  <2>3. AboutToAct(y)'
    BY <1>2, <1>3, <1>8, <2>1 DEF AboutToAct, RowsSame
  <2>4. Holder(y)'
    <3>. SUFFICES ASSUME Holds(y)', rpc'[y] \in LoopPlaces PROVE Holder(y)'
      BY DEF Holder
    <3>1. Holds(y) /\ rpc[y] \in LoopPlaces /\ Same(y)
      BY <1>2, <1>3, <1>8 DEF Same
    <3> DEFINE Done(z) == (rpc[z] = "renew" /\ ridx[z] = StepCount - 1) \/ (rpc[z] = "next" /\ ridx[z] = StepCount)
    <3>2. CASE swf = "completed" /\ Done(y)
      BY <1>2, <3>1, <3>2 DEF Holder, Same
    <3>3. CASE ~(swf = "completed" /\ Done(y))
      <4>1. /\ swf \in InProgress /\ scur = (IF rpc[y] = "renew" THEN ridx[y] + 1 ELSE ridx[y])
            /\ rpc[y] # "listing" =>
                  \A t \in StepNo : t > ridx[y] => rsnap[y].states[t] = "created" /\ rsnap[y].attempts[t] = 0
            /\ HolderRow(y, scur)
        BY <2>1, <3>1, <3>3 DEF Holder
      <4>2. scur \in StepNo
        BY <4>1, <1>1, CurrentStep DEF InProgress, RowInv
      <4>3. HolderRow(y, scur)'
        BY <4>1, <4>2, <1>1, <1>2, <1>5, <3>1, HolderRowKept
      <4>. QED BY <4>1, <4>3, <1>2, <3>1 DEF Holder, Same
    <3>. QED BY <3>2, <3>3
  <2>. QED BY <2>2, <2>3, <2>4 DEF RunInv
<1>. QED BY <1>6, <1>7, <1>8 DEF Kept

LEMMA TakeKeeps == ASSUME SequentialInv, NEW x \in Run, TakeLease(x) PROVE Kept
<1>1. SequentialTypes /\ AnyRun(x)
  BY DEF SequentialInv
<1>2. rpc[x] = "leasing" /\ rpc[x] \notin LoopPlaces /\ x \notin Begun /\ UNCHANGED <<workflowVars, opRows, runVars, stepHistory>>
  BY DEF TakeLease, LoopPlaces, Begun
<1>3. CASE slease' = x /\ slive' = TRUE /\ rpc' = [rpc EXCEPT ![x] = "starting"] /\ UNCHANGED rseen
  <2>1. \A y \in Run : y # x => slease' # y /\ ~Holds(y)'
    BY <1>3 DEF Holds
  <2>. QED BY <1>2, <1>3, <2>1, LeaseKeeps
<1>4. CASE rpc' = [rpc EXCEPT ![x] = "done"] /\ rseen' = [rseen EXCEPT ![x] = FALSE] /\ UNCHANGED leaseVars
  <2>1. UNCHANGED <<swf, scancel, slease, slate, srouted, sop, stries, sstep, ridx, ratt, rsnap, rkind>>
    BY <1>2, <1>4 DEF workflowVars, opRows, leaseVars, runVars, stepHistory
  <2>2. rpc'[x] = "done" /\ ~rseen'[x] /\ \A y \in Run : y # x => rseen'[y] = rseen[y]
    BY <1>1, <1>4 DEF SequentialTypes
  <2>3. AnyRun(x)' /\ Holder(x)'
    BY <1>1, <1>2, <2>1, <2>2 DEF AnyRun, Holder, LoopPlaces
  <2>. QED BY <1>2, <1>4, <2>1, <2>2, <2>3, LocalKeeps DEF Acts
<1>. QED BY <1>3, <1>4 DEF TakeLease, Proceed

LEMMA ReleaseKeeps == ASSUME SequentialInv, NEW x \in Run, ReleaseOwnLease(x) PROVE Kept
<1>1. /\ rpc[x] = "leaving" /\ rpc[x] \notin LoopPlaces /\ rpc' = [rpc EXCEPT ![x] = "done"]
      /\ UNCHANGED <<workflowVars, opRows, runVars, rseen, stepHistory>>
  BY DEF ReleaseOwnLease, Proceed, LoopPlaces
<1>2. (slease' = NoRun /\ slive' = FALSE) \/ UNCHANGED <<slease, slive>>
  BY DEF ReleaseOwnLease, leaseVars
<1>3. \A y \in Run : (slease' = y => slease = y) /\ (Holds(y)' => Holds(y))
  BY <1>2, SequentialAssumption DEF Holds
<1>. QED BY <1>1, <1>3, LeaseKeeps
-----------------------------------------------------------------------------
(* Every step of an execution keeps the invariant.                         *)

LEMMA InvParts == SequentialInv <=> SequentialTypes /\ RowInv /\ \A y \in Run : RunInv(y)
BY DEF SequentialInv, RowInv, RunInv

LEMMA ExecuteKeeps == ASSUME SequentialInv, NEW x \in Run, Execute(x) PROVE SequentialInv'
<1>1. SequentialTypes'
  <2>1. SequentialTypes /\ AnyRun(x) /\ WorkflowRow
    BY DEF SequentialInv
  <2>. QED BY <2>1, CurrentStep, ExecuteTypes
<1>2. Kept
  <2>1. CASE ReadQueuedWorkflow(x) \/ TakeLease(x) \/ BeginRunning(x) \/ ListOperations(x) \/ NextStep(x) \/ PlanRoute(x)
    BY <2>1, QueuedReadKeeps, TakeKeeps, BeginKeeps, ListKeeps, NextKeeps, PlanKeeps
  <2>2. CASE \/ CheckpointOperation(x, "planFailed", "running", 1, "planFailedStep")
             \/ CheckpointOperation(x, "begin", "running", 1, "beginStep")
    BY <2>2, <1>1, RunningKeeps
  <2>3. CASE \/ CheckpointStep(x, "planFailedStep", "running", "failedOperation")
             \/ CheckpointStep(x, "beginStep", "running", "act")
             \/ CheckpointStep(x, "succeededStep", "completed", "latest")
             \/ CheckpointStep(x, "failStep", rkind[x], "failRead")
             \/ CheckpointStep(x, "cancelStep", "cancelled", "cancelRead")
    BY <2>3, <1>1, CheckpointStepKeeps
  <2>4. CASE \/ CheckpointOperation(x, "succeeded", "succeeded", 0, "succeededStep")
             \/ CheckpointOperation(x, "transientOperation", "failed", 0, "afterTransient")
             \/ CheckpointOperation(x, "failedOperation", "failed", 0, "failStep")
    BY <2>4, <1>1, OutcomeKeeps
  <2>5. CASE StartAction(x) \/ EndAction(x) \/ Conclude(x) \/ Renew(x) \/ AfterTransient(x) \/ TryAgain(x) \/ RecordUncertain(x)
    BY <2>5, <1>1, StartKeeps, EndKeeps, ConcludeKeeps, RenewKeeps, TransientKeeps, AgainKeeps, UncertainKeeps
  <2>6. CASE \/ ReadWorkflow(x, "latest", "conclude") \/ ReadWorkflow(x, "failRead", "failWorkflow")
             \/ ReadWorkflow(x, "cancelRead", "cancelWorkflow")
    BY <2>6, ReadKeeps
  <2>7. CASE CancelOperation(x)
    BY <2>7, <1>1, CancelledAgainKeeps, OutcomeKeeps DEF CancelOperation
  <2>8. CASE CancelWorkflow(x) \/ FailWorkflow(x) \/ ReleaseOwnLease(x)
    BY <2>8, EndWorkflowKeeps, ReleaseKeeps
  <2>. QED BY <2>1, <2>2, <2>3, <2>4, <2>5, <2>6, <2>7, <2>8, ZenonT(30) DEF Execute
<1>3. (RowInv /\ \A y \in Run : RunInv(y))'
  BY <1>2 DEF Kept
<1>. QED BY <1>1, <1>3 DEF SequentialInv, RowInv, RunInv

LEMMA CrashKeeps == ASSUME SequentialInv, NEW x \in Run, CrashRun(x) PROVE SequentialInv'
<1>1. SequentialTypes
  BY DEF SequentialInv
<1>2. rseen' \in [Run -> BOOLEAN]
  BY <1>1 DEF CrashRun, SequentialTypes
<1>3. SequentialTypes'
  BY <1>1, <1>2, ForgetsTypes DEF CrashRun, SequentialTypes, workflowVars, leaseVars, opRows, stepHistory
<1>4. Kept
  BY LeavingKeeps DEF CrashRun
<1>. QED BY <1>3, <1>4 DEF Kept, SequentialInv, RowInv, RunInv

-----------------------------------------------------------------------------
(* Recovery, the operator and time: they change no execution.              *)

\* What the executions know survives a change of the rows that nobody inside the loop relies on.
LEMMA EnvironmentRuns ==
    ASSUME SequentialInv, UNCHANGED <<rpc, runVars, stepHistory, srouted>>, scancel => scancel',
           \A y \in Run : rseen'[y] => rseen[y] /\ swf' = swf,
           \A y \in Run : slease' = y => slease = y,
           \A t \in StepNo : sop'[t] = "created" => sop[t] = "created",
           NEW y \in Run, Holder(y)'
    PROVE  RunInv(y)'
<1>1. AnyRun(y) /\ AboutToAct(y)
  BY DEF SequentialInv
<1>2. UNCHANGED <<rpc, ridx, ratt, rsnap, rkind, sstarted, slate, srouted>>
  BY DEF runVars, stepHistory
<1>3. AnyRun(y)'
  BY <1>1, <1>2 DEF AnyRun
<1>4. rpc[y] \in {"beginStep", "act"} => ridx[y] \in StepNo
  BY <1>1 DEF AnyRun, LoopPlaces
<1>5. AboutToAct(y)'
  BY <1>1, <1>2, <1>4 DEF AboutToAct
<1>. QED BY <1>3, <1>5 DEF RunInv

LEMMA ExpireKeeps == ASSUME SequentialInv, LeaseExpires PROVE SequentialInv'
<1>1. SequentialTypes /\ RowInv
  BY DEF SequentialInv, RowInv
<1>2. /\ slive' = FALSE /\ RowsSame
      /\ UNCHANGED <<swf, scur, scancel, slease, sop, stries, srouted, sstep, rpc, ridx, ratt, rsnap, rseen, rkind, sstarted, slate>>
  BY DEF LeaseExpires, workflowVars, opRows, runVars, stepHistory, RowsSame
<1>3. SequentialTypes'
  BY <1>1, <1>2 DEF SequentialTypes
<1>4. RowInv'
  BY <1>1, <1>2 DEF RowInv, WorkflowRow, RowsInOrder, CurrentRow, RestingRow, WorkingRow, ActedOnce, TriesBound, Begun
<1>5. ASSUME NEW y \in Run PROVE RunInv(y)'
  <2>1. Holder(y)'
    BY <1>2 DEF Holder, Holds
  <2>. QED BY <2>1, <1>2, EnvironmentRuns DEF runVars, stepHistory
<1>. QED BY <1>3, <1>4, <1>5 DEF SequentialInv, RowInv, RunInv

LEMMA CancelKeeps == ASSUME SequentialInv, CancelRequest PROVE SequentialInv'
<1>1. SequentialTypes /\ RowInv
  BY DEF SequentialInv, RowInv
<1>2. /\ swf \notin {"completed", "cancelled", "cancelling"} /\ scancel' = TRUE
      /\ swf' = (IF swf = "running" THEN "cancelling" ELSE "cancelled") /\ rseen' = [y \in Run |-> FALSE]
      /\ UNCHANGED <<scur, slease, slive, sop, stries, srouted, sstep, rpc, ridx, ratt, rsnap, rkind, sstarted, slate>>
  BY DEF CancelRequest, WriteWorkflow, leaseVars, opRows, runVars, stepHistory
<1>3. SequentialTypes'
  <2>1. rseen' \in [Run -> BOOLEAN] /\ scancel' \in BOOLEAN
    BY <1>2
  <2>. QED BY <2>1, <1>1, <1>2 DEF SequentialTypes
<1>4. scur \in StepNo /\ scur # StepCount
  BY <1>1, <1>2, CurrentStep DEF RowInv, WorkflowRow
<1>5. RowInv'
  <2>1. WorkflowRow' /\ RowsInOrder' /\ ActedOnce' /\ TriesBound'
    BY <1>1, <1>2, <1>4 DEF RowInv, WorkflowRow, RowsInOrder, ActedOnce, TriesBound, Begun
  <2>2. CurrentRow'
    BY <1>1, <1>2 DEF RowInv, CurrentRow, WorkingRow, InProgress
  <2>. QED BY <2>1, <2>2 DEF RowInv
<1>6. ASSUME NEW y \in Run PROVE RunInv(y)'
  <2>1. Holder(y)'
    <3>. SUFFICES ASSUME Holds(y), rpc[y] \in LoopPlaces PROVE Holder(y)'
      BY <1>2 DEF Holder, Holds
    <3>1. Holder(y)
      BY DEF SequentialInv
    <3>2. /\ swf \in InProgress /\ scur = (IF rpc[y] = "renew" THEN ridx[y] + 1 ELSE ridx[y])
          /\ rpc[y] # "listing" =>
                \A t \in StepNo : t > ridx[y] => rsnap[y].states[t] = "created" /\ rsnap[y].attempts[t] = 0
          /\ HolderRow(y, scur)
      BY <1>2, <3>1 DEF Holder
    <3>3. HolderRow(y, scur)'
      BY <1>2, <3>2 DEF HolderRow, ReplaySafe, Begun
    <3>4. swf' \in InProgress
      BY <1>2, <3>2 DEF InProgress
    <3>. QED BY <1>2, <3>2, <3>3, <3>4 DEF Holder
  <2>. QED BY <2>1, <1>2, EnvironmentRuns DEF runVars, stepHistory
<1>. QED BY <1>3, <1>5, <1>6 DEF SequentialInv, RowInv, RunInv

\* A workflow at rest has no holder inside the loop.
LEMMA RestingRuns ==
    ASSUME SequentialInv, swf \in {"paused", "failed", "uncertain"}, rseen' = [y \in Run |-> FALSE],
           UNCHANGED <<scancel, slease, slive, rpc, runVars, stepHistory, srouted>>,
           \A t \in StepNo : sop'[t] = "created" => sop[t] = "created",
           NEW y \in Run
    PROVE  RunInv(y)'
<1>1. Holder(y)
  BY DEF SequentialInv
<1>2. ~(Holds(y) /\ rpc[y] \in LoopPlaces)
  BY <1>1 DEF Holder, InProgress
<1>3. Holder(y)'
  BY <1>2 DEF Holder, Holds
<1>. QED BY <1>3, EnvironmentRuns

LEMMA ResumeKeeps == ASSUME SequentialInv, ResumeSequential PROVE SequentialInv'
<1>1. SequentialTypes /\ RowInv
  BY DEF SequentialInv, RowInv
<1>2. /\ swf \in {"paused", "failed"} /\ swf' = "queued" /\ rseen' = [y \in Run |-> FALSE]
      /\ \A s \in StepNo : /\ sop[s] \notin {"running", "waiting", "uncertain", "reconciling"}
                           /\ sop[s] \in {"failed", "unresolvable"} => ReplaySafe(s)
      /\ UNCHANGED <<scur, scancel, slease, slive, sop, stries, srouted, sstep, rpc, ridx, ratt, rsnap, rkind, sstarted, slate>>
  BY DEF ResumeSequential, WriteWorkflow, leaseVars, opRows, runVars, stepHistory
<1>3. SequentialTypes'
  <2>1. rseen' \in [Run -> BOOLEAN]
    BY <1>2
  <2>. QED BY <2>1, <1>1, <1>2 DEF SequentialTypes
<1>4. scur \in StepNo /\ scur # StepCount
  BY <1>1, <1>2, CurrentStep DEF RowInv, WorkflowRow
<1>5. RowInv'
  <2>1. WorkflowRow' /\ RowsInOrder' /\ ActedOnce' /\ TriesBound'
    BY <1>1, <1>2, <1>4 DEF RowInv, WorkflowRow, RowsInOrder, ActedOnce, TriesBound, Begun
  <2>2. RestingRow(scur)'
    BY <1>1, <1>2, <1>4 DEF RowInv, CurrentRow, RestingRow, ReplaySafe
  <2>3. CurrentRow'
    BY <1>1, <1>2, <2>2 DEF RowInv, CurrentRow, InProgress
  <2>. QED BY <2>1, <2>3 DEF RowInv
<1>6. ASSUME NEW y \in Run PROVE RunInv(y)'
  BY <1>2, RestingRuns DEF runVars, stepHistory
<1>. QED BY <1>3, <1>5, <1>6 DEF SequentialInv, RowInv, RunInv

LEMMA ResolveKeeps ==
    ASSUME SequentialInv, NEW s \in StepNo, NEW result \in {"succeeded", "acknowledged", "failed", "unresolvable"},
           ResolveSequential(s, result)
    PROVE  SequentialInv'
<1>1. SequentialTypes /\ RowInv
  BY DEF SequentialInv, RowInv
<1>2. /\ swf = "uncertain" /\ sop[s] = "uncertain" /\ sop' = [sop EXCEPT ![s] = result] /\ rseen' = [y \in Run |-> FALSE]
      /\ UNCHANGED <<scancel, slease, slive, stries, srouted, rpc, ridx, ratt, rsnap, rkind, sstarted, slate>>
      /\ \/ /\ result \in Succeeded /\ sstep' = [sstep EXCEPT ![s] = "completed"] /\ scur' = s + 1
            /\ swf' = (IF s + 1 = StepCount THEN "completed" ELSE "paused")
         \/ /\ result \notin Succeeded /\ sstep' = [sstep EXCEPT ![s] = "failed"] /\ scur' = s /\ swf' = "failed"
  BY DEF ResolveSequential, WriteWorkflow, leaseVars, runVars, stepHistory
<1>3. scur \in StepNo /\ scur # StepCount
  BY <1>1, <1>2, CurrentStep DEF RowInv, WorkflowRow
<1>4. s = scur
  <2>1. ~(s < scur) /\ ~(s > scur)
    BY <1>1, <1>2 DEF RowInv, RowsInOrder, Succeeded
  <2>. QED BY <2>1, <1>3, StepRange
<1>5. /\ sop'[scur] = result /\ (\A t \in StepNo : t # scur => sop'[t] = sop[t] /\ sstep'[t] = sstep[t])
      /\ sstep'[scur] = (IF result \in Succeeded THEN "completed" ELSE "failed")
  BY <1>1, <1>2, <1>4 DEF SequentialTypes
<1>6. SequentialTypes'
  <2>1. rseen' \in [Run -> BOOLEAN]
    BY <1>2
  <2>2. scur' \in 0 .. StepCount
    BY <1>2, StepArithmetic, StepRange
  <2>3. sop' \in [StepNo -> OperationStates] /\ sstep' \in [StepNo -> StepStates]
    BY <1>1, <1>2 DEF SequentialTypes, OperationStates, StepStates
  <2>. QED BY <2>1, <2>2, <2>3, <1>1, <1>2 DEF SequentialTypes
<1>7. Begun' = Begun
  BY <1>2 DEF Begun
<1>8. RowInv'
  <2>1. CASE result \in Succeeded
    BY <2>1, <1>1, <1>2, <1>3, <1>4, <1>5, <1>7, RowsAdvance
  <2>2. CASE result \notin Succeeded
    <3>1. scur' = scur /\ swf' = "failed" /\ result \in {"failed", "unresolvable"} /\ sstep'[scur] = "failed"
      BY <2>2, <1>2, <1>4, <1>5 DEF Succeeded
    <3>2. ~(scur < scur) /\ ~(scur > scur)
      BY <1>1 DEF SequentialTypes
    <3>3. RowsInOrder'
      BY <3>1, <3>2, <1>1, <1>2, <1>5 DEF RowInv, RowsInOrder
    <3>4. WorkflowRow' /\ ActedOnce' /\ TriesBound'
      BY <3>1, <1>1, <1>2, <1>3, <1>7 DEF RowInv, WorkflowRow, ActedOnce, TriesBound
    <3>5. CurrentRow'
      BY <3>1, <1>1, <1>2, <1>3, <1>4, <1>5 DEF RowInv, CurrentRow, RestingRow, InProgress
    <3>. QED BY <3>3, <3>4, <3>5 DEF RowInv
  <2>. QED BY <2>1, <2>2
<1>9. ASSUME NEW y \in Run PROVE RunInv(y)'
  <2>1. \A t \in StepNo : sop'[t] = "created" => sop[t] = "created"
    BY <1>5
  <2>. QED BY <2>1, <1>2, RestingRuns DEF runVars, stepHistory
<1>. QED BY <1>6, <1>8, <1>9 DEF SequentialInv, RowInv, RunInv

LEMMA RecoverKeeps == ASSUME SequentialInv, RecoverSequential PROVE SequentialInv'
<1>1. SequentialTypes /\ RowInv
  BY DEF SequentialInv, RowInv
<1>2. /\ swf \in InProgress /\ slease' = NoRun /\ slive' = FALSE /\ rseen' = [y \in Run |-> FALSE]
      /\ UNCHANGED <<scancel, stries, srouted, rpc, ridx, ratt, rsnap, rkind, sstarted, slate>>
  BY DEF RecoverSequential, Interrupted, WriteWorkflow, runVars, stepHistory
<1>3. scur \in StepNo /\ scur # StepCount
  BY <1>1, <1>2, CurrentStep DEF RowInv, WorkflowRow, InProgress
<1>4. WorkingRow(scur)
  BY <1>1, <1>2 DEF RowInv, CurrentRow
<1>5. Begun' = Begun /\ ~(scur < scur) /\ ~(scur > scur)
  BY <1>1, <1>2 DEF Begun, SequentialTypes
<1> DEFINE Cleared(state) ==
              /\ sop' = sop /\ sstep' = [sstep EXCEPT ![scur] = state] /\ state \in StepStates
              /\ swf' = state /\ scur' = scur
           RowTypes == /\ scur' \in 0 .. StepCount /\ sop' \in [StepNo -> OperationStates] /\ sstep' \in [StepNo -> StepStates]
                       /\ swf' \in {"failed", "cancelled", "paused", "completed", "uncertain"}
                       /\ \A t \in StepNo : sop'[t] = "created" => sop[t] = "created"
<1>6. ASSUME /\ sop[scur] = "succeeded" /\ sstep' = [sstep EXCEPT ![scur] = "completed"] /\ sop' = sop /\ scur' = scur + 1
             /\ swf' = (IF scancel THEN "cancelled" ELSE IF scur + 1 >= StepCount THEN "completed" ELSE "paused")
      PROVE  RowInv' /\ RowTypes
  <2>1. sstep'[scur] = "completed" /\ \A t \in StepNo : t # scur => sstep'[t] = sstep[t]
    BY <1>1, <1>3, <1>6 DEF SequentialTypes
  <2>2. scur + 1 \in 0 .. StepCount /\ (scur + 1 >= StepCount <=> scur + 1 = StepCount)
    BY <1>3, SequentialAssumption DEF StepNo
  <2>3. RowInv'
    BY <2>1, <2>2, <1>1, <1>2, <1>3, <1>5, <1>6, RowsAdvance DEF Succeeded
  <2>4. RowTypes
    BY <2>2, <1>1, <1>6 DEF SequentialTypes, StepStates
  <2>. QED BY <2>3, <2>4
<1>7. ASSUME (sop[scur] \in {"failed", "unresolvable"} /\ Cleared("failed")) \/ (sop[scur] = "cancelled" /\ Cleared("cancelled"))
      PROVE  RowInv' /\ RowTypes
  <2>1. PICK state \in {"failed", "cancelled"} :
           /\ sop' = sop /\ sstep' = [sstep EXCEPT ![scur] = state] /\ swf' = state /\ scur' = scur
           /\ IF state = "failed" THEN sop[scur] \in {"failed", "unresolvable"} ELSE sop[scur] = "cancelled"
    BY <1>7
  <2>2. sstep'[scur] = state /\ \A t \in StepNo : t # scur => sstep'[t] = sstep[t]
    BY <1>1, <1>3, <2>1 DEF SequentialTypes
  <2>3. RowsInOrder'
    BY <2>1, <2>2, <1>1, <1>2, <1>5 DEF RowInv, RowsInOrder
  <2>4. WorkflowRow' /\ ActedOnce' /\ TriesBound'
    BY <2>1, <1>1, <1>2, <1>3, <1>5 DEF RowInv, WorkflowRow, ActedOnce, TriesBound
  <2>5. CurrentRow'
    BY <2>1, <2>2, <1>1, <1>2, <1>3 DEF RowInv, CurrentRow, RestingRow, InProgress
  <2>6. RowTypes
    BY <2>1, <1>1 DEF SequentialTypes, StepStates
  <2>. QED BY <2>3, <2>4, <2>5, <2>6 DEF RowInv
<1>8. ASSUME Untouched(scur) /\ swf' = "paused" /\ scur' = scur /\ UNCHANGED <<sop, sstep>>
      PROVE  RowInv' /\ RowTypes
  <2>1. RowsInOrder' /\ WorkflowRow' /\ ActedOnce' /\ TriesBound'
    BY <1>1, <1>2, <1>3, <1>5, <1>8 DEF RowInv, RowsInOrder, WorkflowRow, ActedOnce, TriesBound
  <2>2. CurrentRow'
    BY <1>1, <1>2, <1>3, <1>8 DEF RowInv, CurrentRow, RestingRow, InProgress, Untouched
  <2>3. RowTypes
    BY <1>1, <1>8 DEF SequentialTypes
  <2>. QED BY <2>1, <2>2, <2>3 DEF RowInv
<1>9. ASSUME /\ sop[scur] \in {"created", "running", "uncertain", "acknowledged"} /\ ~Untouched(scur)
             /\ swf' = "uncertain" /\ scur' = scur
             /\ sstep' = [sstep EXCEPT ![scur] = IF @ \in {"created", "running"} THEN "uncertain" ELSE @]
             /\ sop' = [sop EXCEPT ![scur] = IF @ \in {"created", "running"} THEN "uncertain" ELSE @]
      PROVE  RowInv' /\ RowTypes
  <2>1. /\ sop[scur] \in {"created", "running", "uncertain"} /\ sop'[scur] = "uncertain"
        /\ sstep'[scur] = (IF sstep[scur] \in {"created", "running"} THEN "uncertain" ELSE sstep[scur])
        /\ \A t \in StepNo : t # scur => sop'[t] = sop[t] /\ sstep'[t] = sstep[t]
    BY <1>1, <1>3, <1>4, <1>9 DEF SequentialTypes, WorkingRow
  <2>2. sop[scur] = "created" => sstep[scur] = "created" /\ stries[scur] = 0
    BY <1>1, <1>3 DEF RowInv, RowsInOrder
  <2>3. RowsInOrder'
    BY <2>1, <1>1, <1>2, <1>5, <1>9 DEF RowInv, RowsInOrder
  <2>4. WorkflowRow' /\ ActedOnce' /\ TriesBound'
    BY <1>1, <1>2, <1>3, <1>5, <1>9 DEF RowInv, WorkflowRow, ActedOnce, TriesBound
  <2>5. RestingRow(scur)'
    BY <2>1, <2>2, <1>2, <1>4, <1>9 DEF RestingRow, WorkingRow
  <2>6. stries[scur] = 0 => scancel
    <3>1. sop[scur] = "created" => swf # "running" \/ scancel
      BY <2>2, <1>9 DEF Untouched
    <3>2. swf = "cancelling" => scancel
      BY <1>1 DEF RowInv, WorkflowRow
    <3>3. sop[scur] = "running" => stries[scur] # 0
      BY <1>1, <1>3, <1>4 DEF WorkingRow, SequentialTypes
    <3>4. sop[scur] = "uncertain" /\ stries[scur] = 0 => scancel
      BY <1>1, <1>3 DEF RowInv, CurrentRow
    <3>. QED BY <2>1, <3>1, <3>2, <3>3, <3>4, <1>2 DEF InProgress
  <2>7. CurrentRow'
    BY <2>5, <2>6, <1>2, <1>9 DEF CurrentRow, InProgress
  <2>8. RowTypes
    <3>1. sop' \in [StepNo -> OperationStates] /\ sstep' \in [StepNo -> StepStates]
      BY <1>1, <1>9 DEF SequentialTypes, StepStates, OperationStates
    <3>2. \A t \in StepNo : sop'[t] = "created" => sop[t] = "created"
      BY <2>1
    <3>. QED BY <3>1, <3>2, <1>1, <1>9 DEF SequentialTypes
  <2>. QED BY <2>3, <2>4, <2>7, <2>8 DEF RowInv
<1>10. RowInv' /\ RowTypes
  <2> HIDE DEF RowTypes
  <2>1. \/ /\ sop[scur] = "succeeded" /\ sstep' = [sstep EXCEPT ![scur] = "completed"] /\ sop' = sop /\ scur' = scur + 1
           /\ swf' = (IF scancel THEN "cancelled" ELSE IF scur + 1 >= StepCount THEN "completed" ELSE "paused")
        \/ (sop[scur] \in {"failed", "unresolvable"} /\ Cleared("failed")) \/ (sop[scur] = "cancelled" /\ Cleared("cancelled"))
        \/ Untouched(scur) /\ swf' = "paused" /\ scur' = scur /\ UNCHANGED <<sop, sstep>>
        \/ /\ sop[scur] \in {"created", "running", "uncertain", "acknowledged"} /\ ~Untouched(scur)
           /\ swf' = "uncertain" /\ scur' = scur
           /\ sstep' = [sstep EXCEPT ![scur] = IF @ \in {"created", "running"} THEN "uncertain" ELSE @]
           /\ sop' = [sop EXCEPT ![scur] = IF @ \in {"created", "running"} THEN "uncertain" ELSE @]
    BY DEF RecoverSequential, WriteWorkflow, StepStates
  <2>2. CASE (sop[scur] \in {"failed", "unresolvable"} /\ Cleared("failed")) \/ (sop[scur] = "cancelled" /\ Cleared("cancelled"))
    BY <2>2, <1>7
  <2> HIDE DEF Cleared
  <2>. QED BY <2>1, <2>2, <1>6, <1>8, <1>9, ZenonT(30)
<1>11. SequentialTypes'
  <2>1. rseen' \in [Run -> BOOLEAN] /\ slive' \in BOOLEAN
    BY <1>2
  <2>. QED BY <2>1, <1>1, <1>2, <1>10 DEF SequentialTypes
<1>12. ASSUME NEW y \in Run PROVE RunInv(y)'
  <2>1. Holder(y)'
    BY <1>2 DEF Holder, Holds
  <2>2. \A z \in Run : slease' # z
    BY <1>2, SequentialAssumption
  <2>. QED BY <2>1, <2>2, <1>2, <1>10, EnvironmentRuns DEF runVars, stepHistory
<1>. QED BY <1>10, <1>11, <1>12 DEF SequentialInv, RowInv, RunInv
-----------------------------------------------------------------------------
LEMMA SequentialStarts == SequentialInit => SequentialInv
<1>. SUFFICES ASSUME SequentialInit PROVE SequentialInv
  OBVIOUS
<1>1. SequentialTypes
  <2>1. rseen \in [Run -> BOOLEAN] /\ scancel \in BOOLEAN /\ slive \in BOOLEAN
    BY DEF SequentialInit
  <2>2. scur \in 0 .. StepCount /\ ridx \in [Run -> 0 .. StepCount] /\ ratt \in [Run -> Nat] /\ slate \in [Run -> Nat]
        /\ stries \in [StepNo -> Nat] /\ sstarted \in [StepNo -> Nat]
    BY SequentialAssumption DEF SequentialInit
  <2>. QED BY <2>1, <2>2, EmptySnapshot DEF SequentialInit, SequentialTypes, OperationStates, StepStates
<1>2. Begun = {}
  BY DEF SequentialInit, Begun
<1>3. TriesBound
  <2>1. Cardinality(Begun) = 0
    BY <1>2, FS_EmptySet
  <2>2. \A s \in StepNo : stries[s] = 0
    BY DEF SequentialInit
  <2>. QED BY <2>1, <2>2, SequentialAssumption DEF TriesBound
<1>4. RowInv
  <2>1. WorkflowRow
    BY SequentialAssumption DEF SequentialInit, WorkflowRow
  <2>2. RowsInOrder
    <3>1. \A t \in StepNo : ~(t < 0)
      BY StepRange
    <3>. QED BY <3>1 DEF SequentialInit, RowsInOrder
  <2>3. CurrentRow
    BY StepRange DEF SequentialInit, CurrentRow, RestingRow, InProgress
  <2>4. ActedOnce
    <3>1. \A s \in StepNo : sstarted[s] = 0
      BY DEF SequentialInit
    <3>. QED BY <3>1 DEF ActedOnce
  <2>. QED BY <2>1, <2>2, <2>3, <2>4, <1>3 DEF RowInv
<1>5. ASSUME NEW y \in Run PROVE RunInv(y)
  <2>1. rpc[y] = "idle" /\ rkind[y] = "failed" /\ slate[y] = 0 /\ slease # y /\ ~slive
    BY SequentialAssumption DEF SequentialInit
  <2>2. 0 <= 1 /\ ~(0 > 0)
    OBVIOUS
  <2>. QED BY <2>1, <2>2 DEF RunInv, AnyRun, AboutToAct, Holder, Holds, LoopPlaces
<1>. QED BY <1>1, <1>4, <1>5 DEF SequentialInv, RowInv, RunInv

LEMMA SequentialSteps == SequentialInv /\ [SequentialNext]_sequentialVars => SequentialInv'
<1>. SUFFICES ASSUME SequentialInv, [SequentialNext]_sequentialVars PROVE SequentialInv'
  OBVIOUS
<1>1. ASSUME NEW x \in Run, Execute(x) \/ CrashRun(x) PROVE SequentialInv'
  BY <1>1, ExecuteKeeps, CrashKeeps
<1>2. CASE LeaseExpires \/ RecoverSequential \/ CancelRequest \/ ResumeSequential
  BY <1>2, ExpireKeeps, RecoverKeeps, CancelKeeps, ResumeKeeps
<1>3. ASSUME NEW s \in StepNo, NEW result \in {"succeeded", "acknowledged", "failed", "unresolvable"},
             ResolveSequential(s, result)
      PROVE  SequentialInv'
  BY <1>3, ResolveKeeps
<1>4. CASE UNCHANGED sequentialVars
  <2>1. UNCHANGED <<swf, scur, scancel, slease, slive, sop, stries, srouted, sstep, rpc, ridx, ratt, rsnap, rseen, rkind, sstarted, slate>>
    BY <1>4 DEF sequentialVars
  <2>2. SequentialTypes /\ RowInv
    BY DEF SequentialInv, RowInv
  <2>3. SequentialTypes'
    BY <2>1, <2>2 DEF SequentialTypes
  <2>4. RowInv'
    BY <2>1, <2>2 DEF RowInv, WorkflowRow, RowsInOrder, CurrentRow, RestingRow, WorkingRow, ActedOnce, TriesBound, Begun
  <2>5. ASSUME NEW y \in Run PROVE RunInv(y)'
    <3>1. Holder(y)
      BY DEF SequentialInv
    <3>2. Holder(y)'
      BY <2>1, <3>1, SMTT(30) DEF Holder, Holds, HolderRow, ReplaySafe, Begun
    <3>. QED BY <2>1, <3>2, EnvironmentRuns DEF runVars, stepHistory
  <2>. QED BY <2>3, <2>4, <2>5 DEF SequentialInv, RowInv, RunInv
<1>. QED BY <1>1, <1>2, <1>3, <1>4 DEF SequentialNext

LEMMA SequentialInvSound == SequentialInv => SequentialSound
<1>. SUFFICES ASSUME SequentialInv PROVE SequentialSound
  OBVIOUS
<1>1. SequentialTypes /\ RowInv
  BY DEF SequentialInv, RowInv
<1>2. SequentialTypeOK
  <2>1. ASSUME NEW s \in StepNo PROVE stries[s] <= RetryMax + Cardinality(Run)
    <3>1. Begun \in SUBSET Run /\ Run \in SUBSET Run /\ Begun \subseteq Run
      BY DEF Begun
    <3>2. stries[s] \in Nat /\ stries[s] <= RetryMax + Cardinality(Begun)
      BY <1>1 DEF SequentialTypes, RowInv, TriesBound
    <3> HIDE DEF Begun
    <3>3. Cardinality(Begun) \in Nat /\ Cardinality(Run) \in Nat /\ Cardinality(Begun) <= Cardinality(Run)
      BY <3>1, RunSets
    <3>. QED BY <3>2, <3>3, SequentialAssumption
  <2>2. swf \in InProgress => scur \in StepNo
    BY <1>1, CurrentStep DEF InProgress, RowInv
  <2>. QED BY <1>1, <2>1, <2>2 DEF SequentialTypeOK, SequentialTypes, RowInv, WorkflowRow
<1>3. MutatesOnce
  BY <1>1, SequentialAssumption DEF MutatesOnce, RowInv, ActedOnce
<1>4. StepsInOrder
  <2>. SUFFICES ASSUME NEW s \in StepNo, sstarted[s] > 0
                PROVE  (\A t \in 0 .. s - 1 : sop[t] \in Succeeded) /\ (s \in Intent => s \in srouted)
    BY DEF StepsInOrder
  <2>1. sstarted[s] # 0
    OBVIOUS
  <2>2. ~(s > scur)
    BY <1>1, <2>1 DEF RowInv, RowsInOrder
  <2>3. ASSUME NEW t \in 0 .. s - 1 PROVE t \in StepNo /\ t < scur
    BY <1>1, <2>2, SequentialAssumption DEF SequentialTypes, StepNo
  <2>. QED BY <1>1, <2>3 DEF RowInv, RowsInOrder, ActedOnce
<1>5. RestIsConsistent
  <2>. SUFFICES ASSUME swf \in {"paused", "failed", "uncertain", "completed"}, NEW s \in StepNo
                PROVE  /\ sop[s] # "running"
                       /\ swf = "completed" => sop[s] \in Succeeded
                       /\ swf \in {"paused", "failed"} => sop[s] # "uncertain"
                       /\ sop[s] \in Succeeded <=> sstep[s] = "completed"
                       /\ sop[s] \in {"failed", "unresolvable"} => sstep[s] = "failed"
                       /\ sop[s] = "uncertain" => sstep[s] = "uncertain" \/ (sstep[s] = "failed" /\ stries[s] > 1)
    BY DEF RestIsConsistent
  <2>1. s < scur \/ s = scur \/ s > scur
    BY <1>1, StepRange DEF SequentialTypes
  <2>2. swf = "completed" => s < scur
    BY <1>1, SequentialAssumption DEF RowInv, WorkflowRow, StepNo
  <2>3. CASE s < scur
    BY <2>3, <1>1 DEF RowInv, RowsInOrder, Succeeded
  <2>4. CASE s > scur /\ swf # "completed"
    BY <2>4, <1>1 DEF RowInv, RowsInOrder, Succeeded
  <2>5. CASE s = scur /\ swf # "completed"
    <3>1. RestingRow(s) /\ (sop[s] = "created" => sstep[s] = "created")
      BY <2>5, <1>1 DEF RowInv, CurrentRow, RowsInOrder
    <3>. QED BY <2>5, <3>1 DEF RestingRow, Succeeded
  <2>. QED BY <2>1, <2>2, <2>3, <2>4, <2>5
<1>6. CancelStopsSoon
  BY DEF CancelStopsSoon, SequentialInv, AnyRun
<1>. QED BY <1>2, <1>3, <1>4, <1>5, <1>6 DEF SequentialSound

\* An operation is written only by what OPERATION_TRANSITIONS allows, and an uncertain one is never cancelled by an execution.
LEMMA KnownSteps == SequentialInv /\ [SequentialNext]_sequentialVars => KnownStays
<1>. SUFFICES ASSUME SequentialInv, [SequentialNext]_sequentialVars PROVE KnownStays
  OBVIOUS
<1>1. SequentialTypes /\ RowInv
  BY DEF SequentialInv, RowInv
<1>2. CASE sop' = sop
  BY <1>2 DEF KnownStays
<1>3. ASSUME NEW s \in StepNo, NEW state, sop' = [sop EXCEPT ![s] = state],
             sop[s] \notin Succeeded \cup {"cancelled", "unresolvable"}, sop[s] = "uncertain" => swf = "uncertain"
      PROVE  KnownStays
  <2>1. \A t \in StepNo : t # s => sop'[t] = sop[t]
    BY <1>1, <1>3 DEF SequentialTypes
  <2>. QED BY <1>3, <2>1 DEF KnownStays
<1>4. ASSUME NEW x \in Run, NEW from \in LoopPlaces \ {"next", "renew"},
             NEW state \in {"running", "succeeded", "failed", "uncertain", "cancelled"},
             rpc[x] = from, Holds(x), OperationMoves(sop[ridx[x]], state), sop' = [sop EXCEPT ![ridx[x]] = state],
             state = "cancelled" => from = "cancelOperation"
      PROVE  KnownStays
  <2>1. scur = ridx[x] /\ ridx[x] \in StepNo /\ HolderRow(x, scur)
    BY <1>4, HolderKnows
  <2>2. sop[ridx[x]] \in {"created", "running", "uncertain", "failed"}
    BY <1>4 DEF OperationMoves
  <2>3. sop[ridx[x]] = "uncertain" => state = "cancelled"
    BY <1>4 DEF OperationMoves
  <2>4. state = "cancelled" => sop[ridx[x]] # "uncertain"
    BY <1>4, <2>1 DEF HolderRow
  <2>. QED BY <1>3, <1>4, <2>1, <2>2, <2>3, <2>4 DEF Succeeded
<1>5. ASSUME NEW x \in Run, Execute(x), sop' # sop PROVE KnownStays
  <2>1. ASSUME NEW from \in LoopPlaces \ {"next", "renew"},
               NEW state \in {"running", "succeeded", "failed", "uncertain", "cancelled"}, NEW tried, NEW to,
               CheckpointOperation(x, from, state, tried, to), state = "cancelled" => from = "cancelOperation"
        PROVE  KnownStays
    <3>1. rpc[x] = from /\ Holds(x) /\ OperationMoves(sop[ridx[x]], state) /\ sop' = [sop EXCEPT ![ridx[x]] = state]
      BY <1>5, <2>1 DEF CheckpointOperation, Raises, opRows
    <3>. QED BY <1>4, <2>1, <3>1
  <2>2. CASE RecordUncertain(x)
    <3>1. /\ rpc[x] = "uncertainOperation" /\ Holds(x) /\ OperationMoves(sop[ridx[x]], "uncertain")
          /\ sop' = [sop EXCEPT ![ridx[x]] = "uncertain"]
      BY <1>5, <2>2 DEF RecordUncertain, Raises, opRows
    <3>2. "uncertainOperation" \in LoopPlaces \ {"next", "renew"}
      BY DEF LoopPlaces
    <3>. QED BY <1>4, <3>1, <3>2
  <2>3. {"planFailed", "begin", "succeeded", "transientOperation", "failedOperation", "cancelOperation"} \subseteq LoopPlaces \ {"next", "renew"}
    BY DEF LoopPlaces
  <2>4. CASE \/ CheckpointOperation(x, "planFailed", "running", 1, "planFailedStep")
             \/ CheckpointOperation(x, "begin", "running", 1, "beginStep")
             \/ CheckpointOperation(x, "succeeded", "succeeded", 0, "succeededStep")
             \/ CheckpointOperation(x, "transientOperation", "failed", 0, "afterTransient")
             \/ CheckpointOperation(x, "failedOperation", "failed", 0, "failStep")
             \/ CheckpointOperation(x, "cancelOperation", "cancelled", 0, "cancelStep")
    BY <2>1, <2>3, <2>4
  <2>5. CASE CancelOperation(x)
    BY <1>5, <2>4, <2>5, ZenonT(30) DEF CancelOperation, opRows
  <2>6. ~\/ ReadQueuedWorkflow(x) \/ TakeLease(x) \/ BeginRunning(x) \/ ListOperations(x) \/ NextStep(x) \/ PlanRoute(x)
         \/ StartAction(x) \/ EndAction(x) \/ Conclude(x) \/ Renew(x)
    BY <1>5 DEF ReadQueuedWorkflow, ReadWorkflow, TakeLease, BeginRunning, ListOperations, NextStep, PlanRoute,
                StartAction, EndAction, Conclude, Renew, Raises, opRows
  <2>7. ~\/ AfterTransient(x) \/ TryAgain(x) \/ CancelWorkflow(x) \/ FailWorkflow(x) \/ ReleaseOwnLease(x)
         \/ ReadWorkflow(x, "latest", "conclude") \/ ReadWorkflow(x, "failRead", "failWorkflow")
         \/ ReadWorkflow(x, "cancelRead", "cancelWorkflow")
    BY <1>5 DEF AfterTransient, TryAgain, CancelWorkflow, FailWorkflow, ReleaseOwnLease, ReadWorkflow, Raises, opRows
  <2>8. \A from, state, to : ~CheckpointStep(x, from, state, to)
    BY <1>5 DEF CheckpointStep, Raises, opRows
  <2>. QED BY <1>5, <2>2, <2>4, <2>5, <2>6, <2>7, <2>8, ZenonT(30) DEF Execute
<1>6. CASE RecoverSequential
  <2>1. scur \in StepNo
    BY <1>1, <1>6, CurrentStep DEF RecoverSequential, Interrupted, InProgress, RowInv
  <2>2. \/ sop' = sop
        \/ sop[scur] \in {"created", "running"} /\ sop' = [sop EXCEPT ![scur] = "uncertain"]
    BY <1>1, <1>6, <2>1, ZenonT(30) DEF RecoverSequential, SequentialTypes
  <2>. QED BY <1>2, <1>3, <2>1, <2>2 DEF Succeeded
<1>7. CASE LeaseExpires \/ CancelRequest \/ ResumeSequential
  BY <1>2, <1>7 DEF LeaseExpires, CancelRequest, ResumeSequential, opRows
<1>8. ASSUME NEW s \in StepNo, NEW result \in {"succeeded", "acknowledged", "failed", "unresolvable"},
             ResolveSequential(s, result)
      PROVE  KnownStays
  BY <1>3, <1>8 DEF ResolveSequential, Succeeded
<1>9. ASSUME NEW x \in Run, CrashRun(x) PROVE KnownStays
  BY <1>2, <1>9 DEF CrashRun, opRows
<1>10. CASE UNCHANGED sequentialVars
  BY <1>2, <1>10 DEF sequentialVars
<1>. QED BY <1>2, <1>5, <1>6, <1>7, <1>8, <1>9, <1>10 DEF SequentialNext

\* However many executions of whatever length of workflow crash, lose their
\* leases, are recovered, resumed, resolved and cancelled, in any order: a
\* mutating step acts at most once, steps act in their order and on recorded
\* routes, rows at rest agree, and a cancellation lets an execution begin at
\* most one more action (WorkflowExecutor.execute over WorkflowStore).
THEOREM SequentialIsSound == SequentialSpec => []SequentialSound
<1>1. SequentialInit => SequentialInv
  BY SequentialStarts
<1>2. SequentialInv /\ [SequentialNext]_sequentialVars => SequentialInv'
  BY SequentialSteps
<1>3. SequentialInv => SequentialSound
  BY SequentialInvSound
<1>. QED BY <1>1, <1>2, <1>3, PTL DEF SequentialSpec

\* No step of an execution, of recovery or of the operator changes an operation
\* whose outcome is known; an uncertain one changes in an uncertain workflow
\* only, by a resolution or a cancellation
\* (validate_operation_transition behind the lease fence).
THEOREM KnownOutcomesStay == SequentialSpec => [][KnownStays]_sequentialVars
<1>1. SequentialInit => SequentialInv
  BY SequentialStarts
<1>2. SequentialInv /\ [SequentialNext]_sequentialVars => SequentialInv'
  BY SequentialSteps
<1>3. SequentialInv /\ [SequentialNext]_sequentialVars => [KnownStays]_sequentialVars
  BY KnownSteps
<1>. QED BY <1>1, <1>2, <1>3, PTL DEF SequentialSpec
=============================================================================
