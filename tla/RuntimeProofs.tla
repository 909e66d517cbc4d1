---------------------------- MODULE RuntimeProofs ----------------------------
(***************************************************************************)
(* Proofs about the services around a runtime: the supervisor and the      *)
(* runtime it drains.                                                      *)
(***************************************************************************)
EXTENDS SupervisedRuntime, FiniteSetTheorems, TLAPS

\* Most leaves need no arithmetic: they are tried with Zenon first, then with SMT, then with Zenon for longer.
USE ZenonT(3), SMTT(60), ZenonT(30)
-----------------------------------------------------------------------------
\* The supervisor and its runtime.

\* Mutations are finitely many.
LEMMA MutationSets ==
    ASSUME NEW S \in SUBSET Mutation
    PROVE  /\ IsFiniteSet(S) /\ Cardinality(S) \in 0 .. Cardinality(Mutation)
           /\ Cardinality(S) = 0 <=> S = {}
           /\ \A m \in Mutation \ S : Cardinality(S) + 1 \in 0 .. Cardinality(Mutation)
           /\ \A m \in S : Cardinality(S \ {m}) = Cardinality(S) - 1
<1>1. IsFiniteSet(S) /\ Cardinality(S) \in Nat /\ Cardinality(Mutation) \in Nat /\ Cardinality(S) <= Cardinality(Mutation)
  BY FS_Subset, FS_CardinalityType, RuntimeAssumption
<1>2. Cardinality(S) = 0 <=> S = {}
  BY <1>1, FS_EmptySet
<1>3. ASSUME NEW m \in Mutation \ S PROVE Cardinality(S) + 1 \in 0 .. Cardinality(Mutation)
  <2>1. Cardinality(S \cup {m}) = Cardinality(S) + 1
    BY <1>1, FS_AddElement
  <2>2. Cardinality(S \cup {m}) <= Cardinality(Mutation)
    BY FS_Subset, RuntimeAssumption
  <2>. QED BY <1>1, <2>1, <2>2
<1>4. ASSUME NEW m \in S PROVE Cardinality(S \ {m}) = Cardinality(S) - 1
  BY <1>1, FS_RemoveElement
<1>. QED BY <1>1, <1>2, <1>3, <1>4

\* What a publication of the status leaves in its file.
LEMMA PublishEffect ==
    ASSUME SupervisedTypeOK, NEW l \in {"RUNNING", "DRAINING", "STOPPING"}, NEW r \in BOOLEAN,
           NEW n \in 0 .. Cardinality(Mutation), PublishStatus(l, r, n)
    PROVE  /\ statusFile' \in {statusFile, [state |-> l, request |-> r, active |-> n]}
           /\ statusFile' \in [state : {"none", "RUNNING", "DRAINING", "STOPPING"}, request : BOOLEAN,
                               active : 0 .. Cardinality(Mutation)]
           /\ dirty' \in BOOLEAN /\ supFaults' \in 0 .. FaultMax
<1>1. CASE Published(l, r, n) /\ UNCHANGED supFaults
  BY <1>1 DEF Published, SupervisedTypeOK
<1>2. CASE Faults(1) /\ dirty' = TRUE /\ UNCHANGED statusFile
  BY <1>2, RuntimeAssumption DEF Faults, SupervisedTypeOK
<1>. QED BY <1>1, <1>2 DEF PublishStatus

\* What the read of the control request changes.
LEMMA ReadEffect ==
    ASSUME SupervisedTypeOK, NEW p \in Poller, ReadControl(p)
    PROVE  /\ statusFile' \in {statusFile, [state |-> life, request |-> request, active |-> Cardinality(active)]}
           /\ statusFile' \in [state : {"none", "RUNNING", "DRAINING", "STOPPING"}, request : BOOLEAN,
                               active : 0 .. Cardinality(Mutation)]
           /\ dirty' \in BOOLEAN /\ supFaults' \in 0 .. FaultMax
           /\ \/ controlSeen' = [controlSeen EXCEPT ![p] = control] /\ mishap' = mishap
              \/ /\ control # "none" /\ controlSeen' = [controlSeen EXCEPT ![p] = "none"]
                 /\ mishap' = IF mishap = "restarted" THEN "misread" ELSE mishap
           /\ UNCHANGED <<sup, eventVars, missed, stalls, streak, why, drained, asked, proc, control, life, request,
                          active, thread>>
           /\ proc = "up" /\ controlSeen[p] = "unread"
<1>1. active \in SUBSET Mutation /\ life \in {"RUNNING", "DRAINING", "STOPPING"} /\ request \in BOOLEAN
  BY DEF SupervisedTypeOK
<1>2. Cardinality(active) \in 0 .. Cardinality(Mutation)
  BY <1>1, MutationSets
<1>3. PICK writes \in {0, 1}, reads \in {0, 1} :
         /\ (writes = 1 => dirty) /\ (reads = 1 => control # "none")
         /\ Faults(writes + reads)
         /\ IF dirty /\ writes = 0 THEN Published(life, request, Cardinality(active)) ELSE UNCHANGED <<statusFile, dirty>>
         /\ controlSeen' = [controlSeen EXCEPT ![p] = IF reads = 1 THEN "none" ELSE control]
         /\ mishap' = IF reads = 1 /\ mishap = "restarted" THEN "misread" ELSE mishap
  BY DEF ReadControl
<1>4. supFaults' \in 0 .. FaultMax
  BY <1>3, RuntimeAssumption DEF Faults, SupervisedTypeOK
<1>5. /\ statusFile' \in {statusFile, [state |-> life, request |-> request, active |-> Cardinality(active)]}
      /\ statusFile' \in [state : {"none", "RUNNING", "DRAINING", "STOPPING"}, request : BOOLEAN,
                               active : 0 .. Cardinality(Mutation)]
      /\ dirty' \in BOOLEAN
  <2>1. CASE dirty /\ writes = 0
    <3>1. Published(life, request, Cardinality(active))
      BY <2>1, <1>3
    <3>. QED BY <3>1, <1>1, <1>2 DEF Published
  <2>2. CASE ~(dirty /\ writes = 0)
    BY <2>2, <1>3 DEF SupervisedTypeOK
  <2>. QED BY <2>1, <2>2
<1>6. \/ controlSeen' = [controlSeen EXCEPT ![p] = control] /\ mishap' = mishap
      \/ /\ control # "none" /\ controlSeen' = [controlSeen EXCEPT ![p] = "none"]
         /\ mishap' = IF mishap = "restarted" THEN "misread" ELSE mishap
  <2>1. CASE reads = 1
    BY <2>1, <1>3
  <2>2. CASE reads = 0
    BY <2>2, <1>3
  <2>. QED BY <2>1, <2>2
<1>. QED BY <1>4, <1>5, <1>6 DEF ReadControl

\* Every step keeps the invariant: one step per action, and under it one per conjunct.
LEMMA RuntimeStep ==
    RuntimeInv /\ [SupervisedNext]_supervisedVars => RuntimeInv'
<1>. SUFFICES ASSUME SupervisedTypeOK, RequestInv, QuietInv, ProbeInv, [SupervisedNext]_supervisedVars
              PROVE  SupervisedTypeOK' /\ RequestInv' /\ QuietInv' /\ ProbeInv'
  BY DEF RuntimeInv
<1>0. Cardinality({}) = 0 /\ Cardinality({}) \in 0 .. Cardinality(Mutation)
  BY FS_EmptySet, MutationSets
<1>00. active \in SUBSET Mutation /\ Cardinality(active) \in 0 .. Cardinality(Mutation)
       /\ (Cardinality(active) = 0 <=> active = {})
  BY MutationSets DEF SupervisedTypeOK
<1>1. CASE StartSupervisor
  <2>1. SupervisedTypeOK'
    BY <1>1 DEF SupervisedTypeOK, StartSupervisor, runtimeVars, eventVars
  <2>2. RequestInv'
    BY <1>1 DEF RequestInv, AsItBegins, SupervisedTypeOK, StartSupervisor, runtimeVars, eventVars
  <2>3. QuietInv'
    BY <1>1 DEF QuietInv, NotApplied, AsItBegins, RequestInv, SupervisedTypeOK, StartSupervisor, runtimeVars, eventVars
  <2>4. ProbeInv'
    BY <1>1 DEF ProbeInv, StartSupervisor, runtimeVars, eventVars
  <2>. QED BY <2>1, <2>2, <2>3, <2>4
<1>2. CASE Prepare
  <2>1. SupervisedTypeOK'
    BY <1>2, <1>0 DEF SupervisedTypeOK, Prepare, runtimeVars, NoStatus
  <2>2. RequestInv'
    BY <1>2 DEF RequestInv, AsItBegins, SupervisedTypeOK, Prepare, runtimeVars, NoStatus
  <2>3. QuietInv'
    BY <1>2 DEF QuietInv, NotApplied, AsItBegins, RequestInv, SupervisedTypeOK, Prepare, runtimeVars, NoStatus
  <2>4. ProbeInv'
    BY <1>2 DEF ProbeInv, Prepare, runtimeVars, NoStatus
  <2>. QED BY <2>1, <2>2, <2>3, <2>4
<1>3. CASE Launch
  <2>1. SupervisedTypeOK'
    <3>0. supFaults \in 0 .. FaultMax
      BY DEF SupervisedTypeOK
    <3>1. supFaults' \in 0 .. FaultMax
      BY <1>3, <3>0, RuntimeAssumption DEF Launch
    <3>2. /\ sup' \in {"off", "prepare", "launch", "watch", "leave", "drain", "stopping", "cleanup", "backoff", "stopped"}
          /\ proc' \in {"none", "boot", "up"} /\ asked' \in BOOLEAN
      BY <1>3 DEF Launch, SupervisedTypeOK
    <3>3. UNCHANGED <<eventVars, missed, stalls, streak, why, drained, mishap, control, statusFile, runtimeVars>>
      BY <1>3 DEF Launch
    <3>. QED BY <3>1, <3>2, <3>3 DEF SupervisedTypeOK, runtimeVars, eventVars
  <2>2. RequestInv'
    BY <1>3 DEF RequestInv, AsItBegins, SupervisedTypeOK, Launch, runtimeVars, eventVars, QuietInv
  <2>3. QuietInv'
    BY <1>3 DEF QuietInv, NotApplied, AsItBegins, RequestInv, SupervisedTypeOK, Launch, runtimeVars, eventVars
  <2>4. ProbeInv'
    BY <1>3, RuntimeAssumption DEF ProbeInv, Launch, runtimeVars, eventVars
  <2>. QED BY <2>1, <2>2, <2>3, <2>4
<1>4. CASE LeaveWatch
  <2>1. SupervisedTypeOK'
    BY <1>4, RuntimeAssumption DEF SupervisedTypeOK, LeaveWatch, runtimeVars, eventVars, Watching
  <2>2. RequestInv'
    BY <1>4 DEF RequestInv, AsItBegins, SupervisedTypeOK, LeaveWatch, runtimeVars, eventVars, Watching
  <2>3. QuietInv'
    BY <1>4 DEF QuietInv, NotApplied, AsItBegins, RequestInv, SupervisedTypeOK, LeaveWatch, runtimeVars, eventVars, Watching
  <2>4. ProbeInv'
    BY <1>4 DEF ProbeInv, LeaveWatch, runtimeVars, eventVars, Watching
  <2>. QED BY <2>1, <2>2, <2>3, <2>4
<1>5. CASE DrainPoll
  <2>1. SupervisedTypeOK'
    <3>1. ({stopEvent, forceEvent, restartEvent, drained, asked, request, dirty} \subseteq BOOLEAN)'
      BY <1>5, ZenonT(30) DEF SupervisedTypeOK, DrainPoll, runtimeVars, eventVars
    <3>. QED BY <1>5, <1>0, <3>1 DEF SupervisedTypeOK, DrainPoll, runtimeVars, eventVars
  <2>2. RequestInv'
    <3>1. CASE DrainedStatus
      BY <3>1, <1>5 DEF RequestInv, AsItBegins, DrainPoll, DrainedStatus, runtimeVars
    <3>2. CASE ~DrainedStatus
      BY <3>2, <1>5 DEF RequestInv, AsItBegins, DrainPoll, runtimeVars
    <3>. QED BY <3>1, <3>2
  <2>3. QuietInv'
    BY <1>5, <1>00 DEF QuietInv, NotApplied, AsItBegins, RequestInv, SupervisedTypeOK, DrainPoll, runtimeVars, eventVars, DrainedStatus
  <2>4. ProbeInv'
    BY <1>5 DEF ProbeInv, DrainPoll, runtimeVars, eventVars
  <2>. QED BY <2>1, <2>2, <2>3, <2>4
<1>6. CASE DrainGivesUp
  <2>1. SupervisedTypeOK'
    BY <1>6 DEF SupervisedTypeOK, DrainGivesUp, runtimeVars, eventVars
  <2>2. RequestInv'
    BY <1>6 DEF RequestInv, AsItBegins, SupervisedTypeOK, DrainGivesUp, runtimeVars, eventVars
  <2>3. QuietInv'
    BY <1>6 DEF QuietInv, NotApplied, AsItBegins, RequestInv, SupervisedTypeOK, DrainGivesUp, runtimeVars, eventVars
  <2>4. ProbeInv'
    BY <1>6 DEF ProbeInv, DrainGivesUp, runtimeVars, eventVars
  <2>. QED BY <2>1, <2>2, <2>3, <2>4
<1>7. CASE StopWaited
  <2>1. SupervisedTypeOK'
    BY <1>7 DEF SupervisedTypeOK, StopWaited, runtimeVars, eventVars
  <2>2. RequestInv'
    BY <1>7 DEF RequestInv, AsItBegins, SupervisedTypeOK, StopWaited, runtimeVars, eventVars
  <2>3. QuietInv'
    BY <1>7 DEF QuietInv, NotApplied, AsItBegins, RequestInv, SupervisedTypeOK, StopWaited, runtimeVars, eventVars
  <2>4. ProbeInv'
    BY <1>7 DEF ProbeInv, StopWaited, runtimeVars, eventVars
  <2>. QED BY <2>1, <2>2, <2>3, <2>4
<1>8. CASE Cleanup
  <2>1. SupervisedTypeOK'
    BY <1>8, <1>0 DEF SupervisedTypeOK, Cleanup, Fresh, NoStatus, Poller
  <2>2. RequestInv'
    BY <1>8 DEF RequestInv, AsItBegins, SupervisedTypeOK, Cleanup, Fresh, NoStatus
  <2>3. QuietInv'
    BY <1>8 DEF QuietInv, NotApplied, AsItBegins, RequestInv, SupervisedTypeOK, Cleanup, Fresh, NoStatus
  <2>4. ProbeInv'
    BY <1>8 DEF ProbeInv, Cleanup, Fresh, NoStatus
  <2>. QED BY <2>1, <2>2, <2>3, <2>4
<1>9. CASE Backoff
  <2>1. SupervisedTypeOK'
    BY <1>9 DEF SupervisedTypeOK, Backoff, runtimeVars, eventVars
  <2>2. RequestInv'
    BY <1>9 DEF RequestInv, AsItBegins, SupervisedTypeOK, Backoff, runtimeVars, eventVars
  <2>3. QuietInv'
    BY <1>9 DEF QuietInv, NotApplied, AsItBegins, RequestInv, SupervisedTypeOK, Backoff, runtimeVars, eventVars
  <2>4. ProbeInv'
    BY <1>9 DEF ProbeInv, Backoff, runtimeVars, eventVars
  <2>. QED BY <2>1, <2>2, <2>3, <2>4
<1>10. CASE Configure
  <2>0. /\ statusFile' \in {statusFile, [state |-> "RUNNING", request |-> FALSE, active |-> 0]}
        /\ statusFile' \in [state : {"none", "RUNNING", "DRAINING", "STOPPING"}, request : BOOLEAN,
                            active : 0 .. Cardinality(Mutation)]
        /\ dirty' \in BOOLEAN /\ supFaults' \in 0 .. FaultMax
    BY <1>0, <1>10, PublishEffect DEF Configure
  <2>1. SupervisedTypeOK'
    BY <1>10, <2>0 DEF SupervisedTypeOK, Configure, supVars
  <2>2. RequestInv'
    BY <1>10, <2>0 DEF RequestInv, AsItBegins, SupervisedTypeOK, Configure, supVars
  <2>3. QuietInv'
    BY <1>10, <2>0 DEF QuietInv, NotApplied, AsItBegins, RequestInv, SupervisedTypeOK, Configure, supVars
  <2>4. ProbeInv'
    BY <1>10 DEF ProbeInv, Configure, supVars
  <2>. QED BY <2>1, <2>2, <2>3, <2>4
<1>11. CASE RuntimeExits
  <2>1. SupervisedTypeOK'
    <3>1. ({stopEvent, forceEvent, restartEvent, drained, asked, request, dirty} \subseteq BOOLEAN)'
      BY <1>11, ZenonT(30) DEF SupervisedTypeOK, RuntimeExits, supVars, Fresh
    <3>2. active' = {m \in Mutation : thread'[m] = "active"}
      BY <1>11 DEF RuntimeExits, Fresh, Poller
    <3>. QED BY <1>11, <3>1, <3>2 DEF SupervisedTypeOK, RuntimeExits, supVars, Fresh
  <2>2. RequestInv'
    BY <1>11 DEF RequestInv, AsItBegins, SupervisedTypeOK, RuntimeExits, supVars, Fresh
  <2>3. QuietInv'
    BY <1>11 DEF QuietInv, NotApplied, AsItBegins, RequestInv, SupervisedTypeOK, RuntimeExits, supVars, Fresh
  <2>4. ProbeInv'
    BY <1>11 DEF ProbeInv, RuntimeExits, supVars, Fresh
  <2>. QED BY <2>1, <2>2, <2>3, <2>4
<1>12. CASE McpRestarts
  <2>1. SupervisedTypeOK'
    <3>1. supFaults' \in 0 .. FaultMax /\ mishap' \in {"restarted", mishap}
      BY <1>12, RuntimeAssumption, SMT DEF SupervisedTypeOK, McpRestarts
    <3>2. active' = {m \in Mutation : thread'[m] = "active"}
      BY <1>12 DEF McpRestarts, Fresh, Poller
    <3>3. ({stopEvent, forceEvent, restartEvent, drained, asked, request, dirty} \subseteq BOOLEAN)'
      BY <1>12, ZenonT(30) DEF SupervisedTypeOK, McpRestarts, eventVars, Fresh
    <3>. QED BY <3>1, <3>2, <3>3, <1>12 DEF SupervisedTypeOK, McpRestarts, eventVars, Fresh
  <2>2. RequestInv'
    BY <1>12 DEF RequestInv, AsItBegins, SupervisedTypeOK, McpRestarts, eventVars, Fresh, QuietInv
  <2>3. QuietInv'
    BY <1>12 DEF QuietInv, NotApplied, AsItBegins, RequestInv, SupervisedTypeOK, McpRestarts, eventVars, Fresh
  <2>4. ProbeInv'
    BY <1>12 DEF ProbeInv, McpRestarts, eventVars, Fresh
  <2>. QED BY <2>1, <2>2, <2>3, <2>4
<1>13. CASE RequestRestart
  <2>1. SupervisedTypeOK'
    BY <1>13 DEF SupervisedTypeOK, RequestRestart, runtimeVars
  <2>2. RequestInv'
    BY <1>13 DEF RequestInv, AsItBegins, SupervisedTypeOK, RequestRestart, runtimeVars
  <2>3. QuietInv'
    BY <1>13 DEF QuietInv, NotApplied, AsItBegins, RequestInv, SupervisedTypeOK, RequestRestart, runtimeVars
  <2>4. ProbeInv'
    BY <1>13 DEF ProbeInv, RequestRestart, runtimeVars
  <2>. QED BY <2>1, <2>2, <2>3, <2>4
<1>14. CASE RequestStop
  <2>1. SupervisedTypeOK'
    BY <1>14 DEF SupervisedTypeOK, RequestStop, runtimeVars
  <2>2. RequestInv'
    BY <1>14 DEF RequestInv, AsItBegins, SupervisedTypeOK, RequestStop, runtimeVars
  <2>3. QuietInv'
    BY <1>14 DEF QuietInv, NotApplied, AsItBegins, RequestInv, SupervisedTypeOK, RequestStop, runtimeVars
  <2>4. ProbeInv'
    BY <1>14 DEF ProbeInv, RequestStop, runtimeVars
  <2>. QED BY <2>1, <2>2, <2>3, <2>4
<1>15. CASE \E a, s, g \in BOOLEAN : Probe(a, s, g)
  <2>. PICK a \in BOOLEAN, s \in BOOLEAN, g \in BOOLEAN : Probe(a, s, g)
    BY <1>15
  <2>1. SupervisedTypeOK'
    BY RuntimeAssumption DEF SupervisedTypeOK, Probe, Watching, MissedAfter, runtimeVars, eventVars, ProbeInv
  <2>2. RequestInv'
    BY RuntimeAssumption DEF RequestInv, AsItBegins, SupervisedTypeOK, Probe, Watching, MissedAfter, runtimeVars, eventVars
  <2>3. QuietInv'
    BY RuntimeAssumption DEF QuietInv, NotApplied, AsItBegins, RequestInv, SupervisedTypeOK, Probe, Watching, MissedAfter, runtimeVars, eventVars
  <2>4. ProbeInv'
    BY RuntimeAssumption DEF ProbeInv, Probe, Watching, MissedAfter, runtimeVars, eventVars, SupervisedTypeOK
  <2>. QED BY <2>1, <2>2, <2>3, <2>4
<1>16. CASE \E p \in Poller : ReadControl(p)
  <2>. PICK p \in Poller : ReadControl(p)
    BY <1>16
  <2>0. /\ statusFile' \in {statusFile, [state |-> life, request |-> request, active |-> Cardinality(active)]}
        /\ statusFile' \in [state : {"none", "RUNNING", "DRAINING", "STOPPING"}, request : BOOLEAN,
                            active : 0 .. Cardinality(Mutation)]
        /\ dirty' \in BOOLEAN /\ supFaults' \in 0 .. FaultMax
        /\ \/ controlSeen' = [controlSeen EXCEPT ![p] = control] /\ mishap' = mishap
           \/ /\ control # "none" /\ controlSeen' = [controlSeen EXCEPT ![p] = "none"]
              /\ mishap' = IF mishap = "restarted" THEN "misread" ELSE mishap
        /\ UNCHANGED <<sup, stopEvent, forceEvent, restartEvent, missed, stalls, streak, why, drained, asked, proc,
                       control, life, request, active, thread>>
        /\ proc = "up" /\ controlSeen[p] = "unread"
    BY ReadEffect DEF eventVars
  <2>1. SupervisedTypeOK'
    BY <2>0 DEF SupervisedTypeOK, SupervisedTypeOK
  <2>2. RequestInv'
    BY <2>0 DEF RequestInv, AsItBegins, SupervisedTypeOK, RequestInv
  <2>3. QuietInv'
    BY <2>0, <1>00 DEF QuietInv, NotApplied, AsItBegins, RequestInv, SupervisedTypeOK, QuietInv
  <2>4. ProbeInv'
    BY <2>0 DEF ProbeInv, ProbeInv
  <2>. QED BY <2>1, <2>2, <2>3, <2>4
<1>17. CASE \E p \in Poller : ApplyControl(p)
  <2>. PICK p \in Poller : ApplyControl(p)
    BY <1>17
  <2>a. /\ proc = "up" /\ controlSeen[p] # "unread"
        /\ controlSeen' = [controlSeen EXCEPT ![p] = "unread"]
        /\ thread' = [thread EXCEPT ![p] = CASE @ = "idle" /\ p # Watcher -> "enter" [] @ = "leave" -> "idle" [] OTHER -> @]
        /\ UNCHANGED <<supVars, proc, control, active>>
    BY DEF ApplyControl
  <2>b. \/ controlSeen[p] = "none" /\ UNCHANGED <<life, request, statusFile, dirty, supFaults>>
        \/ /\ controlSeen[p] \in {"drain", "stop"} /\ request' = TRUE /\ life' \in {"DRAINING", "STOPPING"}
           /\ statusFile' \in {statusFile, [state |-> life', request |-> TRUE, active |-> Cardinality(active)]}
           /\ statusFile' \in [state : {"none", "RUNNING", "DRAINING", "STOPPING"}, request : BOOLEAN,
                            active : 0 .. Cardinality(Mutation)]
           /\ dirty' \in BOOLEAN /\ supFaults' \in 0 .. FaultMax
    <3>1. CASE controlSeen[p] = "none"
      BY <3>1 DEF ApplyControl
    <3>2. CASE controlSeen[p] # "none"
      <4>1. controlSeen[p] \in {"drain", "stop"} /\ life' \in {"DRAINING", "STOPPING"} /\ request' = TRUE
            /\ PublishStatus(life', TRUE, Cardinality(active))
        BY <3>2, <2>a DEF ApplyControl, SupervisedTypeOK
      <4>. QED BY <4>1, <1>00, PublishEffect
    <3>. QED BY <3>1, <3>2
  <2>1. SupervisedTypeOK'
    <3>1. /\ thread' \in [Poller -> {"idle", "enter", "active", "leave"}]
          /\ \A m \in Mutation : thread'[m] = "active" <=> thread[m] = "active"
      BY <2>a DEF SupervisedTypeOK, Poller
    <3>2. active' = {m \in Mutation : thread'[m] = "active"}
      BY <2>a, <3>1 DEF SupervisedTypeOK
    <3>3. ({stopEvent, forceEvent, restartEvent, drained, asked, request, dirty} \subseteq BOOLEAN)'
      BY <2>a, <2>b, ZenonT(30) DEF SupervisedTypeOK, supVars
    <3>4. life' \in {"RUNNING", "DRAINING", "STOPPING"} /\ supFaults' \in 0 .. FaultMax
          /\ statusFile' \in [state : {"none", "RUNNING", "DRAINING", "STOPPING"}, request : BOOLEAN,
                              active : 0 .. Cardinality(Mutation)]
      BY <2>b DEF SupervisedTypeOK
    <3>5. controlSeen' \in [Poller -> {"unread", "none", "drain", "stop"}]
      BY <2>a DEF SupervisedTypeOK
    <3>. QED BY <2>a, <3>1, <3>2, <3>3, <3>4, <3>5 DEF SupervisedTypeOK, supVars
  <2>2. RequestInv'
    BY <2>a, <2>b DEF RequestInv, AsItBegins, SupervisedTypeOK, supVars
  <2>3. QuietInv'
    BY <2>a, <2>b, <1>0, <1>00 DEF QuietInv, NotApplied, AsItBegins, RequestInv, SupervisedTypeOK, supVars
  <2>4. ProbeInv'
    BY <2>a, <2>b DEF ProbeInv, supVars
  <2>. QED BY <2>1, <2>2, <2>3, <2>4
<1>18. CASE \E m \in Mutation : EnterMutation(m)
  <2>. PICK m \in Mutation : EnterMutation(m)
    BY <1>18
  <2>a. proc = "up" /\ thread[m] = "enter" /\ m \in Poller /\ UNCHANGED <<supVars, proc, control, life, request, controlSeen>>
    BY DEF EnterMutation, Poller
  <2>b. \/ thread' = [thread EXCEPT ![m] = "idle"] /\ UNCHANGED <<active, statusFile, dirty, supFaults>>
        \/ /\ life = "RUNNING" /\ active' = active \cup {m} /\ thread' = [thread EXCEPT ![m] = "active"]
           /\ statusFile' \in {statusFile, [state |-> life, request |-> request, active |-> Cardinality(active) + 1]}
           /\ statusFile' \in [state : {"none", "RUNNING", "DRAINING", "STOPPING"}, request : BOOLEAN,
                            active : 0 .. Cardinality(Mutation)]
           /\ dirty' \in BOOLEAN /\ supFaults' \in 0 .. FaultMax
    <3>1. CASE ~Admits
      BY <3>1 DEF EnterMutation
    <3>2. CASE Admits
      <4>1. life = "RUNNING" /\ active' = active \cup {m} /\ thread' = [thread EXCEPT ![m] = "active"]
            /\ PublishStatus(life, request, Cardinality(active) + 1) /\ request \in BOOLEAN
        BY <3>2 DEF EnterMutation, Admits, SupervisedTypeOK
      <4>2. Cardinality(active) + 1 \in 0 .. Cardinality(Mutation)
        <5>1. m \in Mutation \ active
          BY <2>a DEF SupervisedTypeOK
        <5>. QED BY <5>1, <1>00, MutationSets
      <4>. QED BY <4>1, <4>2, PublishEffect
    <3>. QED BY <3>1, <3>2
  <2>1. SupervisedTypeOK'
    BY <2>a, <2>b DEF SupervisedTypeOK, supVars, Poller
  <2>2. RequestInv'
    BY <2>a, <2>b DEF RequestInv, AsItBegins, SupervisedTypeOK, supVars
  <2>3. QuietInv'
    BY <2>a, <2>b DEF QuietInv, NotApplied, AsItBegins, RequestInv, SupervisedTypeOK, supVars
  <2>4. ProbeInv'
    BY <2>a, <2>b DEF ProbeInv, supVars
  <2>. QED BY <2>1, <2>2, <2>3, <2>4
<1>19. CASE \E m \in Mutation : ExitMutation(m)
  <2>. PICK m \in Mutation : ExitMutation(m)
    BY <1>19
  <2>a. /\ proc = "up" /\ thread[m] = "active" /\ m \in Poller /\ m \in active
        /\ active' = active \ {m} /\ thread' = [thread EXCEPT ![m] = "leave"]
        /\ UNCHANGED <<supVars, proc, control, life, request, controlSeen>>
    BY DEF ExitMutation, Poller, SupervisedTypeOK
  <2>c. Cardinality(active') = Cardinality(active) - 1 /\ Cardinality(active') \in 0 .. Cardinality(Mutation)
    <3>1. Cardinality(active \ {m}) = Cardinality(active) - 1
      BY <2>a, <1>00, MutationSets
    <3>2. active \ {m} \in SUBSET Mutation
      BY <1>00
    <3>3. Cardinality(active \ {m}) \in 0 .. Cardinality(Mutation)
      BY <3>2, MutationSets
    <3>. QED BY <2>a, <3>1, <3>3
  <2>b. /\ statusFile' \in {statusFile, [state |-> life, request |-> request, active |-> Cardinality(active')]}
        /\ statusFile' \in [state : {"none", "RUNNING", "DRAINING", "STOPPING"}, request : BOOLEAN,
                            active : 0 .. Cardinality(Mutation)]
        /\ dirty' \in BOOLEAN /\ supFaults' \in 0 .. FaultMax
    <3>1. life \in {"RUNNING", "DRAINING", "STOPPING"} /\ request \in BOOLEAN
      BY DEF SupervisedTypeOK
    <3>2. PublishStatus(life, request, Cardinality(active'))
      BY <2>c DEF ExitMutation
    <3>. QED BY <3>1, <3>2, <2>c, PublishEffect
  <2>1. SupervisedTypeOK'
    BY <2>a, <2>b DEF SupervisedTypeOK, supVars, Poller
  <2>2. RequestInv'
    BY <2>a, <2>b DEF RequestInv, AsItBegins, SupervisedTypeOK, supVars
  <2>3. QuietInv'
    BY <2>a, <2>b, <2>c, <1>00 DEF QuietInv, NotApplied, AsItBegins, RequestInv, SupervisedTypeOK, supVars
  <2>4. ProbeInv'
    BY <2>a, <2>b DEF ProbeInv, supVars
  <2>. QED BY <2>1, <2>2, <2>3, <2>4
<1>20. CASE UNCHANGED supervisedVars
  <2>1. SupervisedTypeOK'
    BY <1>20 DEF SupervisedTypeOK, supervisedVars
  <2>2. RequestInv'
    BY <1>20 DEF RequestInv, AsItBegins, SupervisedTypeOK, supervisedVars
  <2>3. QuietInv'
    BY <1>20 DEF QuietInv, NotApplied, AsItBegins, RequestInv, SupervisedTypeOK, supervisedVars
  <2>4. ProbeInv'
    BY <1>20 DEF ProbeInv, supervisedVars
  <2>. QED BY <2>1, <2>2, <2>3, <2>4
<1>. QED BY <1>1, <1>2, <1>3, <1>4, <1>5, <1>6, <1>7, <1>8, <1>9, <1>10, <1>11, <1>12, <1>13, <1>14, <1>15, <1>16, <1>17, <1>18, <1>19, <1>20 DEF SupervisedNext, SupervisorStep

\* A supervisor that has not begun, and has no runtime, is as the invariant says.
LEMMA RuntimeBegins == SupervisedInit => RuntimeInv
<1>. SUFFICES ASSUME SupervisedInit PROVE RuntimeInv
  OBVIOUS
<1>0. Cardinality({}) = 0 /\ Cardinality({}) \in 0 .. Cardinality(Mutation)
  BY FS_EmptySet, MutationSets
<1>1. SupervisedTypeOK
  <2>1. missed \in 0 .. MissedMax /\ stalls \in 0 .. Confirmations /\ streak \in 0 .. MissedMax /\ supFaults \in 0 .. FaultMax
    BY RuntimeAssumption DEF SupervisedInit
  <2>2. statusFile \in [state : {"none", "RUNNING", "DRAINING", "STOPPING"}, request : BOOLEAN,
                       active : 0 .. Cardinality(Mutation)]
    BY <1>0 DEF SupervisedInit, NoStatus
  <2>3. active = {m \in Mutation : thread[m] = "active"}
    BY DEF SupervisedInit, Poller
  <2>4. /\ thread \in [Poller -> {"idle", "enter", "active", "leave"}]
        /\ controlSeen \in [Poller -> {"unread", "none", "drain", "stop"}]
    BY DEF SupervisedInit
  <2>. QED BY <2>1, <2>2, <2>3, <2>4 DEF SupervisedInit, SupervisedTypeOK
<1>2. RequestInv
  BY DEF SupervisedInit, RequestInv, AsItBegins, NoStatus
<1>3. QuietInv
  BY DEF SupervisedInit, QuietInv
<1>4. ProbeInv
  BY DEF SupervisedInit, ProbeInv
<1>. QED BY <1>1, <1>2, <1>3, <1>4 DEF RuntimeInv

LEMMA RuntimeAlways == SupervisedSpec => []RuntimeInv
BY RuntimeBegins, RuntimeStep, PTL DEF SupervisedSpec

\* For any number of mutations, faults of files and restarts of the MCP
\* process: a runtime drains for a request of its own generation only, and
\* one that the drain called quiet runs no mutation until it is killed
\* (drain_runtime, poll_control, enter_mutation).
THEOREM RuntimeIsSound == SupervisedSpec => []RuntimeSound
<1>1. RuntimeInv => RuntimeSound
  <2>. SUFFICES ASSUME RuntimeInv PROVE RuntimeSound
    OBVIOUS
  <2>1. SupervisedTypeOK
    BY DEF RuntimeInv
  <2>2. DrainedIsQuiet
    BY DEF RuntimeInv, QuietInv, NotApplied, DrainedIsQuiet
  <2>3. DrainsOnRequest
    BY DEF RuntimeInv, RequestInv, DrainsOnRequest
  <2>. QED BY <2>1, <2>2, <2>3 DEF RuntimeSound
<1>. QED BY <1>1, RuntimeAlways, PTL

\* The watchdog never ends a runtime of which the last MissedMax probes did
\* not all fail, whatever the probes before it and the confirmations of a
\* stall were (the watch loop of Supervisor.run).
THEOREM WatchdogIsPatient == SupervisedSpec => [][WatchdogPatience]_supervisedVars
<1>1. RuntimeInv /\ RuntimeInv' /\ [SupervisedNext]_supervisedVars => [WatchdogPatience]_supervisedVars
  <2>. SUFFICES ASSUME RuntimeInv, RuntimeInv', SupervisedNext, sup = "watch", sup' = "leave"
                PROVE  streak' >= MissedMax
    BY DEF WatchdogPatience
  <2>1. \E a, s, g \in BOOLEAN : Probe(a, s, g)
    <3>1. ~StartSupervisor /\ ~Prepare /\ ~Launch /\ ~LeaveWatch /\ ~DrainPoll /\ ~DrainGivesUp /\ ~StopWaited
          /\ ~Cleanup /\ ~Backoff
      BY DEF StartSupervisor, Prepare, Launch, LeaveWatch, DrainPoll, DrainGivesUp, StopWaited, Cleanup, Backoff
    <3>2. ~Configure /\ ~RuntimeExits /\ ~McpRestarts /\ ~RequestRestart /\ ~RequestStop
      BY DEF Configure, RuntimeExits, McpRestarts, RequestRestart, RequestStop, supVars
    <3>3. \A p \in Poller : ~ReadControl(p) /\ ~ApplyControl(p)
      BY DEF ReadControl, ApplyControl, supVars
    <3>4. \A m \in Mutation : ~EnterMutation(m) /\ ~ExitMutation(m)
      BY DEF EnterMutation, ExitMutation, supVars
    <3>. QED BY <3>1, <3>2, <3>3, <3>4 DEF SupervisedNext, SupervisorStep
  <2>2. missed' >= MissedMax
    BY <2>1 DEF Probe
  <2>3. missed' \in 0 .. MissedMax /\ streak' \in 0 .. MissedMax /\ missed' <= streak'
    BY DEF RuntimeInv, SupervisedTypeOK, ProbeInv
  <2>. QED BY <2>2, <2>3, RuntimeAssumption
<1>. QED BY <1>1, RuntimeAlways, PTL DEF SupervisedSpec
=============================================================================
