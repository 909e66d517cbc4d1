-------------------------- MODULE SupervisedRuntime --------------------------
(***************************************************************************)
(* The supervisor's loop (scripts/supervisor.py, Supervisor.run) composed  *)
(* with the runtime's mutation lifecycle (core/lifecycle.py).  They are    *)
(* two processes and share two files: the supervisor writes the control    *)
(* file and reads the status file, every thread of the runtime does the    *)
(* reverse.  Reading and applying a control request are two steps, and a   *)
(* read, a write or the MCP process itself may fail at any moment.         *)
(***************************************************************************)
EXTENDS Integers, FiniteSets

CONSTANTS
    Mutation,       \* mutating operations, each in a thread of the runtime
    Watcher,        \* the task watch_lifecycle of the runtime
    MissedMax,      \* probes that may fail in a row (3)
    Confirmations,  \* tunnel_poll_stall_confirmations
    FaultMax        \* bound on the failures of files and of the MCP process

ASSUME RuntimeAssumption ==
    /\ Watcher \notin Mutation /\ IsFiniteSet(Mutation)
    /\ MissedMax \in Nat \ {0} /\ Confirmations \in Nat /\ FaultMax \in Nat

VARIABLES
    sup,            \* "off", "prepare", "launch", "watch", "drain", "stopping", "cleanup", "backoff", "stopped"
    stopEvent, forceEvent, restartEvent,    \* the events of the supervisor
    missed,         \* failed probes in a row after the grace period
    stalls,         \* _transport_stall_observations
    streak,         \* history: the probes that failed since one succeeded, up to MissedMax
    why,            \* reason of the end of this runtime
    drained,        \* the drain saw no active mutation
    asked,          \* history: a restart was asked for and no runtime launched since
    mishap,         \* history: "restarted" when the MCP process was started again under a control
                    \* request, "misread" when a read of the request failed after that
    proc,           \* the runtime process: "none", "boot", "up"
    control,        \* control file: "none", "drain", "stop"
    statusFile,         \* status file: the snapshot published last
    life,           \* _state of the runtime
    request,        \* _request_id: the drain of this generation is known
    dirty,          \* _status_dirty
    active,         \* mutations counted in _active_mutations
    thread,         \* phase of a thread
    controlSeen,           \* the control request a thread has read and not applied
    supFaults

supVars == <<sup, stopEvent, forceEvent, restartEvent, missed, stalls, streak, why, drained, asked, mishap>>
runtimeVars == <<life, request, dirty, active, thread, controlSeen>>
supervisedVars == <<sup, stopEvent, forceEvent, restartEvent, missed, stalls, streak, why, drained, asked, mishap,
                    proc, control, statusFile, life, request, dirty, active, thread, controlSeen, supFaults>>
eventVars == <<stopEvent, forceEvent, restartEvent>>
Poller == Mutation \cup {Watcher}
NoStatus == [state |-> "none", request |-> FALSE, active |-> 0]

SupervisedInit ==
    /\ sup = "off" /\ stopEvent = FALSE /\ forceEvent = FALSE /\ restartEvent = FALSE
    /\ missed = 0 /\ stalls = 0 /\ streak = 0 /\ why = "runtime_exit" /\ drained = FALSE
    /\ asked = FALSE /\ mishap = "none" /\ proc = "none" /\ control = "none" /\ statusFile = NoStatus
    /\ life = "RUNNING" /\ request = FALSE /\ dirty = FALSE /\ active = {}
    /\ thread = [p \in Poller |-> "idle"] /\ controlSeen = [p \in Poller |-> "unread"] /\ supFaults = 0
-----------------------------------------------------------------------------
(* The runtime.                                                            *)

Faults(n) == supFaults + n <= FaultMax /\ supFaults' = supFaults + n

\* _publish_locked with the given snapshot: the status file is replaced, or
\* the write fails and is owed.
Published(l, r, n) == statusFile' = [state |-> l, request |-> r, active |-> n] /\ dirty' = FALSE
PublishStatus(l, r, n) ==
    \/ Published(l, r, n) /\ UNCHANGED supFaults
    \/ Faults(1) /\ dirty' = TRUE /\ UNCHANGED statusFile

\* The state of a runtime that is gone, or has not been configured.
Fresh ==
    /\ life' = "RUNNING" /\ request' = FALSE /\ dirty' = FALSE /\ active' = {}
    /\ thread' = [p \in Poller |-> "idle"] /\ controlSeen' = [p \in Poller |-> "unread"]

\* configure: the MCP process is up.
Configure ==
    /\ proc = "boot" /\ proc' = "up"
    /\ PublishStatus("RUNNING", FALSE, 0)
    /\ UNCHANGED <<supVars, control, life, request, active, thread, controlSeen>>

\* poll_control up to its read; enter_mutation and exit_mutation call it too.
\* The status that is owed is written first.  Both may fail: a read that fails
\* is one without a request.
ReadControl(p) ==
    /\ proc = "up" /\ controlSeen[p] = "unread" /\ (p = Watcher \/ thread[p] \in {"idle", "leave"})
    /\ \E writes, reads \in {0, 1} :
         /\ (writes = 1 => dirty) /\ (reads = 1 => control # "none")
         /\ Faults(writes + reads)
         /\ IF dirty /\ writes = 0 THEN Published(life, request, Cardinality(active)) ELSE UNCHANGED <<statusFile, dirty>>
         /\ controlSeen' = [controlSeen EXCEPT ![p] = IF reads = 1 THEN "none" ELSE control]
         /\ mishap' = IF reads = 1 /\ mishap = "restarted" THEN "misread" ELSE mishap
    /\ UNCHANGED <<sup, eventVars, missed, stalls, streak, why, drained, asked, proc, control, life, request, active, thread>>

\* The rest of poll_control, under the lock.
ApplyControl(p) ==
    /\ proc = "up" /\ controlSeen[p] # "unread"
    /\ controlSeen' = [controlSeen EXCEPT ![p] = "unread"]
    /\ thread' = [thread EXCEPT ![p] = CASE @ = "idle" /\ p # Watcher -> "enter" [] @ = "leave" -> "idle" [] OTHER -> @]
    /\ IF controlSeen[p] = "none" THEN UNCHANGED <<life, request, statusFile, dirty, supFaults>>
       ELSE /\ request' = TRUE
            /\ life' = IF controlSeen[p] = "stop" THEN "STOPPING" ELSE IF life = "RUNNING" THEN "DRAINING" ELSE life
            /\ PublishStatus(life', TRUE, Cardinality(active))
    /\ UNCHANGED <<supVars, proc, control, active>>

\* A version of the test below that admits while the runtime drains.
AdmitsUntilStopping == life # "STOPPING"

Admits == life = "RUNNING"

\* The rest of enter_mutation, under the lock.
EnterMutation(m) ==
    /\ proc = "up" /\ thread[m] = "enter"
    /\ IF Admits
       THEN /\ active' = active \cup {m} /\ thread' = [thread EXCEPT ![m] = "active"]
            /\ PublishStatus(life, request, Cardinality(active) + 1)
       ELSE thread' = [thread EXCEPT ![m] = "idle"] /\ UNCHANGED <<active, statusFile, dirty, supFaults>>
    /\ UNCHANGED <<supVars, proc, control, life, request, controlSeen>>

ExitMutation(m) ==
    /\ proc = "up" /\ thread[m] = "active"
    /\ active' = active \ {m} /\ thread' = [thread EXCEPT ![m] = "leave"]
    /\ PublishStatus(life, request, Cardinality(active) - 1)
    /\ UNCHANGED <<supVars, proc, control, life, request, controlSeen>>

\* The runtime ends by itself: a crash, or mark_stopping and its shutdown.
RuntimeExits ==
    /\ proc \in {"boot", "up"} /\ proc' = "none"
    /\ Fresh
    /\ UNCHANGED <<supVars, control, statusFile, supFaults>>

\* The MCP process alone dies and the tunnel client starts it again.
McpRestarts ==
    /\ proc = "up" /\ supFaults < FaultMax
    /\ proc' = "boot" /\ supFaults' = supFaults + 1
    /\ mishap' = IF control # "none" /\ mishap = "none" THEN "restarted" ELSE mishap
    /\ Fresh
    /\ UNCHANGED <<sup, eventVars, missed, stalls, streak, why, drained, asked, control, statusFile>>
-----------------------------------------------------------------------------
(* The supervisor.                                                         *)

\* main: the loop of the supervisor begins.
StartSupervisor ==
    /\ sup = "off" /\ sup' = "prepare"
    /\ UNCHANGED <<eventVars, missed, stalls, streak, why, drained, asked, mishap, proc, control, statusFile,
                   runtimeVars, supFaults>>

\* The top of the loop: the events and the files of a new generation.
Prepare ==
    /\ sup = "prepare"
    /\ sup' = IF stopEvent THEN "stopped" ELSE "launch"
    /\ restartEvent' = (restartEvent /\ stopEvent)
    /\ why' = "runtime_exit" /\ drained' = FALSE
    /\ control' = "none" /\ statusFile' = NoStatus
    /\ mishap' = "none"
    /\ UNCHANGED <<stopEvent, forceEvent, missed, stalls, streak, asked, proc, runtimeVars, supFaults>>

Launch ==
    /\ sup = "launch"
    /\ \/ sup' = "watch" /\ proc' = "boot" /\ asked' = FALSE /\ UNCHANGED supFaults
       \/ /\ supFaults < FaultMax /\ supFaults' = supFaults + 1
          /\ sup' = "cleanup" /\ UNCHANGED <<proc, asked>>
    /\ UNCHANGED <<eventVars, missed, stalls, streak, why, drained, mishap, control, statusFile, runtimeVars>>

\* A version of the watch that only a stop ends.
WatchingUntilStop == sup = "watch" /\ proc # "none" /\ ~stopEvent

Watching == sup = "watch" /\ proc # "none" /\ ~stopEvent /\ ~restartEvent

MissedAfter(good) == IF good THEN 0 ELSE missed + 1

\* One round: healthy() with the heartbeat and the readiness, and with the
\* diagnosis of the transport, whose stall counts once it is confirmed.
Probe(alive, stalled, graceOver) ==
    /\ Watching
    /\ stalls' = IF ~stalled THEN 0 ELSE IF stalls < Confirmations THEN stalls + 1 ELSE stalls
    /\ LET good == alive /\ stalls' < Confirmations IN
       /\ missed' = IF good \/ graceOver THEN MissedAfter(good) ELSE missed
       /\ streak' = IF good THEN 0 ELSE IF streak < MissedMax THEN streak + 1 ELSE streak
       /\ IF missed' >= MissedMax
          THEN why' = "watchdog" /\ sup' = "leave"
          ELSE UNCHANGED <<why, sup>>
    /\ UNCHANGED <<eventVars, drained, asked, mishap, proc, control, statusFile, runtimeVars, supFaults>>

\* The watch is over: the runtime is drained first, if it lives and was not
\* lost by itself.  The write of the request may fail for good.
LeaveWatch ==
    /\ sup = "leave" \/ (sup = "watch" /\ ~Watching)
    /\ LET r == IF stopEvent THEN "user_stop" ELSE IF restartEvent THEN "user_restart" ELSE why
       IN  /\ why' = r
           /\ IF proc # "none" /\ r # "runtime_exit"
              THEN \/ sup' = "drain" /\ control' = "drain" /\ UNCHANGED supFaults
                   \/ sup' = "cleanup" /\ supFaults < FaultMax /\ supFaults' = supFaults + 1 /\ UNCHANGED control
              ELSE sup' = "cleanup" /\ UNCHANGED <<control, supFaults>>
    /\ missed' = 0 /\ stalls' = 0 /\ streak' = 0
    /\ UNCHANGED <<eventVars, drained, asked, mishap, proc, statusFile, runtimeVars>>

\* The status acknowledges this drain and counts no mutation.
DrainedStatus == statusFile # NoStatus /\ statusFile.request /\ statusFile.state \in {"DRAINING", "STOPPING"} /\ statusFile.active = 0

\* A round of drain_runtime that reads the status.
DrainPoll ==
    /\ sup = "drain" /\ proc # "none" /\ ~forceEvent /\ statusFile # NoStatus
    /\ IF DrainedStatus
       THEN drained' = TRUE /\ sup' = "stopping" /\ control' = "stop"
       ELSE UNCHANGED <<drained, sup, control>>
    /\ UNCHANGED <<eventVars, missed, stalls, streak, why, asked, mishap, proc, statusFile, runtimeVars, supFaults>>

\* The drain ends otherwise: its deadline, a forced stop, an exit, or no
\* status within the start grace.
DrainGivesUp ==
    /\ sup = "drain"
    /\ sup' = "cleanup"
    /\ UNCHANGED <<eventVars, missed, stalls, streak, why, drained, asked, mishap, proc, control, statusFile,
                   runtimeVars, supFaults>>

\* The stop was seen, or was waited for long enough.
StopWaited ==
    /\ sup = "stopping" /\ sup' = "cleanup"
    /\ UNCHANGED <<eventVars, missed, stalls, streak, why, drained, asked, mishap, proc, control, statusFile,
                   runtimeVars, supFaults>>

\* cleanup: what is left of the runtime is killed; then the retry, whose
\* restart event is cleared before the wait.
Cleanup ==
    /\ sup = "cleanup"
    /\ proc' = "none" /\ control' = "none" /\ statusFile' = NoStatus
    /\ sup' = IF stopEvent THEN "stopped" ELSE "backoff"
    /\ restartEvent' = (restartEvent /\ stopEvent)
    /\ Fresh
    /\ UNCHANGED <<stopEvent, forceEvent, missed, stalls, streak, why, drained, asked, mishap, supFaults>>

\* The delay is over, or a request ends it.
Backoff ==
    /\ sup = "backoff" /\ sup' = "prepare"
    /\ UNCHANGED <<eventVars, missed, stalls, streak, why, drained, asked, mishap, proc, control, statusFile,
                   runtimeVars, supFaults>>

\* The panel and the console.
RequestRestart ==
    /\ sup \notin {"off", "stopped"} /\ ~restartEvent
    /\ restartEvent' = TRUE /\ asked' = TRUE
    /\ UNCHANGED <<sup, stopEvent, forceEvent, missed, stalls, streak, why, drained, mishap, proc, control, statusFile,
                   runtimeVars, supFaults>>
RequestStop ==
    /\ sup \notin {"off", "stopped"} /\ ~forceEvent
    /\ stopEvent' = TRUE /\ forceEvent' = stopEvent
    /\ UNCHANGED <<sup, restartEvent, missed, stalls, streak, why, drained, asked, mishap, proc, control, statusFile,
                   runtimeVars, supFaults>>

SupervisorStep ==
    \/ Prepare \/ Launch \/ LeaveWatch \/ DrainPoll \/ DrainGivesUp \/ StopWaited \/ Cleanup \/ Backoff

SupervisedNext ==
    \/ StartSupervisor \/ SupervisorStep \/ Configure \/ RuntimeExits \/ McpRestarts \/ RequestRestart \/ RequestStop
    \/ \E a, s, g \in BOOLEAN : Probe(a, s, g)
    \/ \E p \in Poller : ReadControl(p) \/ ApplyControl(p)
    \/ \E m \in Mutation : EnterMutation(m) \/ ExitMutation(m)

SupervisedSpec == SupervisedInit /\ [][SupervisedNext]_supervisedVars
\* The supervisor's thread runs, and each of its waits has a deadline.
SupervisedFairness == WF_supervisedVars(SupervisorStep) /\ WF_supervisedVars(DrainGivesUp)
SupervisedFairSpec == SupervisedSpec /\ SupervisedFairness
-----------------------------------------------------------------------------
\* The type of the state of the supervisor and its runtime.
SupervisedTypeOK ==
    /\ sup \in {"off", "prepare", "launch", "watch", "leave", "drain", "stopping", "cleanup", "backoff", "stopped"}
    /\ {stopEvent, forceEvent, restartEvent, drained, asked, request, dirty} \subseteq BOOLEAN
    /\ missed \in 0 .. MissedMax /\ stalls \in 0 .. Confirmations /\ streak \in 0 .. MissedMax
    /\ mishap \in {"none", "restarted", "misread"}
    /\ why \in {"runtime_exit", "watchdog", "user_stop", "user_restart"}
    /\ proc \in {"none", "boot", "up"} /\ control \in {"none", "drain", "stop"}
    /\ statusFile \in [state : {"none", "RUNNING", "DRAINING", "STOPPING"}, request : BOOLEAN,
                    active : 0 .. Cardinality(Mutation)]
    /\ life \in {"RUNNING", "DRAINING", "STOPPING"}
    /\ active = {m \in Mutation : thread[m] = "active"} /\ supFaults \in 0 .. FaultMax
    /\ thread \in [Poller -> {"idle", "enter", "active", "leave"}]
    /\ controlSeen \in [Poller -> {"unread", "none", "drain", "stop"}]

\* When the drain concludes that the runtime is quiet no mutation runs, and
\* none begins before the runtime is killed, whatever a thread has read
\* before and whichever write of the status failed (drain_runtime,
\* poll_control, enter_mutation).  Only an MCP process that was started again
\* under the request, and whose read of the request fails, may begin one.
DrainedIsQuiet == drained /\ proc = "up" /\ mishap # "misread" => active = {}

\* The runtime drains only for a request of this generation: no control file
\* of an earlier one reaches it (_runtime_lifecycle_paths).
DrainsOnRequest == proc = "up" /\ life # "RUNNING" => sup \notin {"launch", "watch"}

\* The watchdog ends a runtime only after MissedMax probes failed in a row.
WatchdogPatience == sup = "watch" /\ sup' = "leave" => streak' >= MissedMax

\* A restart that is asked for is served by a runtime launched after, also
\* when the request comes while one ends or starts, unless the supervisor is
\* to stop (the clears of the restart event).
RestartServed == asked ~> (~asked \/ stopEvent)

\* A stop ends the supervisor.
StopServed == stopEvent ~> (sup = "stopped")

\* The runtime drains for requests of its own generation only, and is quiet
\* when it is said to be (drain_runtime, poll_control).
RuntimeSound == SupervisedTypeOK /\ DrainedIsQuiet /\ DrainsOnRequest

(***************************************************************************)
(* Why they hold.  A request exists only while the supervisor ends a       *)
(* runtime; a status that acknowledges it is of a runtime that no longer   *)
(* admits and counts at least the mutations that run, or of an MCP process *)
(* that is gone, whose successor has not read the request yet.             *)
(***************************************************************************)
AsItBegins ==
    /\ life = "RUNNING" /\ ~request /\ active = {}
    /\ \A p \in Poller : thread[p] = "idle" /\ controlSeen[p] = "unread"

\* A process that was started again under the request, before a thread of it applies it.
NotApplied ==
    /\ mishap = "restarted" /\ control # "none" /\ life = "RUNNING" /\ active = {}
    /\ \A p \in Poller : thread[p] = "idle" /\ controlSeen[p] # "none"

RequestInv ==
    /\ proc # "up" => AsItBegins
    /\ sup \notin {"drain", "stopping", "cleanup"} => control = "none"
    /\ sup \in {"off", "prepare", "launch", "backoff", "stopped"} => proc = "none"
    /\ control = "none" => /\ life = "RUNNING" /\ ~request /\ ~statusFile.request
                           /\ \A p \in Poller : controlSeen[p] \in {"unread", "none"}
    /\ request => life # "RUNNING"
    /\ proc = "boot" /\ (statusFile.request \/ drained) => mishap # "none"

QuietInv ==
    /\ proc = "up" /\ statusFile.request /\ mishap # "misread" =>
          NotApplied \/ (life # "RUNNING" /\ Cardinality(active) <= statusFile.active)
    /\ drained => /\ sup \notin {"launch", "watch", "leave", "drain"}
                  /\ control = "stop" \/ proc = "none"
    /\ proc = "up" /\ drained /\ mishap # "misread" => NotApplied \/ (life # "RUNNING" /\ active = {})

ProbeInv ==
    /\ missed <= streak /\ (sup = "watch" => missed < MissedMax)
    /\ sup \notin {"watch", "leave"} => missed = 0 /\ stalls = 0 /\ streak = 0

RuntimeInv == SupervisedTypeOK /\ RequestInv /\ QuietInv /\ ProbeInv
=============================================================================
