---------------------------- MODULE ExtensionOwner ---------------------------
(***************************************************************************)
(* The life of one external MCP extension (core/extensions/manager.py): an *)
(* owner task takes signals from a channel and runs the service, which     *)
(* connects, discovers the provider's tools, publishes their catalog and   *)
(* stays with the session.  Operators disable, enable, restart and drain,  *)
(* the provider announces changes and may die at any moment.               *)
(*                                                                         *)
(* All of it runs on one event loop: a step is what happens between two    *)
(* awaits.  A cancelled service still runs until its next await.           *)
(***************************************************************************)
EXTENDS Integers, Sequences

CONSTANTS
    AttemptMax,     \* restart_attempts of a window
    ChannelMax,     \* max_buffer_size of the signal channel (16)
    GenMax          \* bound on the starts

ASSUME OwnerAssumption == {AttemptMax, ChannelMax, GenMax} \subseteq Nat

VARIABLES
    estate,         \* state of the lifecycle state machine
    egen,           \* its generation
    estopped,       \* _stopped
    enabled,        \* is_enabled
    chan,           \* the signal channel
    loop,           \* owner loop: "none", "idle", "backoff", "service", "ended"
    service,        \* "none", "connect", "discover", "live"
    scopeCancel,    \* the scope of the service, or of the backoff, is cancelled
    session,        \* there is an active session
    catalog,        \* generation of the extension's tools in the registry, 0 when retired
    published,      \* _max_published_generations
    candidate,      \* generation under discovery
    refreshWanted,  \* refresh_requested is set
    refreshing,     \* a refresh is discovering
    peer,           \* the provider's process runs
    attempts,       \* restart attempts in the window
    failures,       \* consecutive_failures: 0, or 1 for any more
    shutdown,       \* _shutdown_event
    stopLost        \* history: a STOP met a full channel

ownerVars == <<estate, egen, estopped, enabled, chan, loop, service, scopeCancel, session, catalog, published,
               candidate, refreshWanted, refreshing, peer, attempts, failures, shutdown, stopLost>>
stateVars == <<estate, egen>>
serviceVars == <<service, session, catalog, published, candidate, refreshWanted, refreshing, peer>>
budgetVars == <<attempts, failures>>

\* LEGAL_TRANSITIONS
Legal ==
    [CONFIGURED |-> {"DISABLED", "STARTING"}, DISABLED |-> {"STARTING"},
     STARTING |-> {"HEALTHY", "FAILED", "STOPPING"}, HEALTHY |-> {"DEGRADED", "UNREACHABLE", "STOPPING"},
     DEGRADED |-> {"HEALTHY", "UNREACHABLE", "STOPPING"}, UNREACHABLE |-> {"STARTING", "FAILED", "STOPPING"},
     FAILED |-> {"STARTING"}, STOPPING |-> {"DISABLED", "CONFIGURED"}]

\* The state after "if can_transition(t): transition(t)", for one t after another.
Move(s, t) == IF t \in Legal[s] THEN t ELSE s
Rest(s) == Move(Move(s, "STOPPING"), IF enabled THEN "CONFIGURED" ELSE "DISABLED")

OwnerInit ==
    /\ estate = "CONFIGURED" /\ egen = 0 /\ estopped = FALSE /\ enabled = TRUE
    /\ chan = << >> /\ loop = "none" /\ service = "none" /\ scopeCancel = FALSE
    /\ session = FALSE /\ catalog = 0 /\ published = 0 /\ candidate = 0
    /\ refreshWanted = FALSE /\ refreshing = FALSE /\ peer = FALSE
    /\ attempts = 0 /\ failures = 0 /\ shutdown = FALSE /\ stopLost = FALSE

\* signal(): STOP is remembered; a START of a running extension, or of one
\* that is stopped, is not sent; STOP and RESTART cancel what runs.
Sent(sig) ==
    /\ Len(chan) < ChannelMax
    /\ sig = "STOP" \/ ~estopped
    /\ ~(sig = "START" /\ estate \in {"STARTING", "HEALTHY", "DEGRADED"})
Signal(sig) ==
    /\ estopped' = (estopped \/ sig = "STOP")
    /\ chan' = IF Sent(sig) THEN Append(chan, sig) ELSE chan
    /\ scopeCancel' = (scopeCancel \/ (Sent(sig) /\ sig # "START" /\ loop \in {"backoff", "service"}))
    /\ stopLost' = (stopLost \/ (sig = "STOP" /\ ~Sent(sig)))

\* start_extension_background, once, when the runtime starts.
StartBackground ==
    /\ loop = "none" /\ ~shutdown
    /\ estate # "DISABLED" /\ enabled
    /\ Signal("START")
    /\ loop' = "idle"
    /\ UNCHANGED <<stateVars, enabled, serviceVars, budgetVars, shutdown>>

\* _run_service begins.
Serve ==
    /\ estate' = "STARTING" /\ egen' = egen + 1
    /\ loop' = "service" /\ service' = "connect" /\ scopeCancel' = FALSE
    /\ UNCHANGED <<catalog, published, candidate, refreshWanted, refreshing, peer>>

\* RESTART once its backoff is over: stop, configure, start.
Restart ==
    LET s == Move(Move(estate, "STOPPING"), "CONFIGURED")
    IN  /\ session' = FALSE
        /\ IF "STARTING" \in Legal[s]
           THEN egen < GenMax /\ Serve
           ELSE /\ estate' = s /\ loop' = "idle" /\ scopeCancel' = FALSE
                /\ UNCHANGED <<egen, service, catalog, published, candidate, refreshWanted, refreshing, peer>>

\* What the loop drops: anything but STOP after a stop, and a start of an
\* extension that is not enabled (require_launch_authorization).
Ignored(sig) == sig # "STOP" /\ (estopped \/ ~enabled)

Drop ==
    /\ loop = "idle" /\ chan # << >> /\ Ignored(Head(chan))
    /\ chan' = Tail(chan)
    /\ UNCHANGED <<stateVars, estopped, enabled, loop, scopeCancel, serviceVars, budgetVars, shutdown, stopLost>>

TakeStart ==
    /\ loop = "idle" /\ chan # << >> /\ Head(chan) = "START" /\ ~Ignored("START")
    /\ chan' = Tail(chan)
    /\ IF "STARTING" \in Legal[estate]
       THEN egen < GenMax /\ Serve /\ UNCHANGED session
       ELSE UNCHANGED <<stateVars, loop, scopeCancel, serviceVars>>
    /\ UNCHANGED <<estopped, enabled, budgetVars, shutdown, stopLost>>

TakeStop ==
    /\ loop = "idle" /\ chan # << >> /\ Head(chan) = "STOP"
    /\ chan' = << >>
    /\ estate' = Rest(estate)
    /\ loop' = "ended" /\ session' = FALSE
    /\ UNCHANGED <<egen, estopped, enabled, scopeCancel, service, catalog, published, candidate, refreshWanted,
                   refreshing, peer, budgetVars, shutdown, stopLost>>

\* can_restart
Affordable == attempts < AttemptMax

TakeRestart ==
    /\ loop = "idle" /\ chan # << >> /\ Head(chan) = "RESTART" /\ ~Ignored("RESTART")
    /\ chan' = Tail(chan)
    /\ \/ /\ ~Affordable
          /\ estate' = Move(estate, "FAILED")
          /\ UNCHANGED <<egen, loop, scopeCancel, serviceVars, budgetVars>>
       \/ /\ Affordable
          /\ attempts' = attempts + 1 /\ failures' = 1
          /\ IF failures = 0 THEN Restart
             ELSE loop' = "backoff" /\ scopeCancel' = FALSE /\ UNCHANGED <<stateVars, serviceVars>>
    /\ UNCHANGED <<estopped, enabled, shutdown, stopLost>>

\* The sleep is over, or was cancelled by the signal that is next.
BackoffEnds ==
    /\ loop = "backoff"
    /\ \/ /\ scopeCancel \/ shutdown
          /\ loop' = "idle" /\ scopeCancel' = FALSE
          /\ UNCHANGED <<stateVars, serviceVars>>
       \/ ~scopeCancel /\ Restart
    /\ UNCHANGED <<estopped, enabled, chan, budgetVars, shutdown, stopLost>>

\* The startup gate, the process, the session and its handshake; discover()
\* chooses its generation.
NextGeneration == IF published + 1 > egen THEN published + 1 ELSE egen
Connect ==
    /\ loop = "service" /\ service = "connect" /\ ~scopeCancel /\ enabled
    /\ service' = "discover" /\ session' = TRUE /\ peer' = TRUE
    /\ candidate' = NextGeneration
    /\ UNCHANGED <<stateVars, estopped, enabled, chan, loop, scopeCancel, catalog, published, refreshWanted,
                   refreshing, budgetVars, shutdown, stopLost>>

\* What the service leaves behind: no session and no catalog.
Leave ==
    /\ loop' = "idle" /\ service' = "none" /\ scopeCancel' = FALSE
    /\ session' = FALSE /\ catalog' = 0 /\ peer' = FALSE
    /\ refreshWanted' = FALSE /\ refreshing' = FALSE
    /\ UNCHANGED <<published, candidate>>

\* The service returns: it was cancelled, is to stop, or the runtime ends.
\* An extension that is healthy then has its failures forgotten.
ServiceReturns ==
    /\ loop = "service"
    /\ scopeCancel \/ shutdown \/ (service = "live" /\ estopped)
    /\ Leave
    /\ failures' = IF estate = "HEALTHY" THEN 0 ELSE failures
    /\ UNCHANGED <<stateVars, estopped, enabled, chan, attempts, shutdown, stopLost>>

\* The service raises while it starts: no process, no handshake, no
\* discovery, a timeout, a catalog over its limits.
StartupFails ==
    /\ loop = "service" /\ service \in {"connect", "discover"}
    /\ Leave
    /\ estate' = Move(estate, "FAILED")
    /\ UNCHANGED <<egen, estopped, enabled, chan, budgetVars, shutdown, stopLost>>

\* The tools are listed: the catalog is published, also by a service that is
\* cancelled and has not met an await.
Discovered ==
    /\ loop = "service" /\ (service = "discover" \/ (service = "live" /\ refreshing)) /\ peer
    /\ candidate > published
    /\ catalog' = candidate /\ published' = candidate
    /\ estate' = Move(estate, "HEALTHY")
    /\ service' = "live" /\ refreshing' = FALSE
    /\ UNCHANGED <<egen, estopped, enabled, chan, loop, scopeCancel, session, candidate, refreshWanted, peer,
                   budgetVars, shutdown, stopLost>>

\* The provider announces a change of its tools.
Notified ==
    /\ service = "live" /\ peer /\ ~refreshWanted
    /\ estate' = Move(estate, "DEGRADED")
    /\ refreshWanted' = TRUE
    /\ UNCHANGED <<egen, estopped, enabled, chan, loop, service, scopeCancel, session, catalog, published, candidate,
                   refreshing, peer, budgetVars, shutdown, stopLost>>

RefreshBegins ==
    /\ service = "live" /\ refreshWanted /\ ~refreshing /\ ~scopeCancel /\ published < GenMax + 2
    /\ refreshWanted' = FALSE /\ refreshing' = TRUE
    /\ candidate' = NextGeneration
    /\ UNCHANGED <<stateVars, estopped, enabled, chan, loop, service, scopeCancel, session, catalog, published, peer,
                   budgetVars, shutdown, stopLost>>

RefreshFails ==
    /\ service = "live" /\ refreshing /\ loop = "service"
    /\ Leave
    /\ estate' = Move(Move(estate, "UNREACHABLE"), "FAILED")
    /\ UNCHANGED <<egen, estopped, enabled, chan, budgetVars, shutdown, stopLost>>

PeerDies ==
    /\ peer /\ peer' = FALSE
    /\ UNCHANGED <<stateVars, estopped, enabled, chan, loop, service, scopeCancel, session, catalog, published,
                   candidate, refreshWanted, refreshing, budgetVars, shutdown, stopLost>>

\* watch_transport and handle_transport_loss: the catalog is withdrawn, and
\* the extension restarts, which cancels the service, or fails.
TransportLost ==
    /\ loop = "service" /\ service = "live" /\ ~peer /\ ~scopeCancel
    /\ LET s == Move(estate, "UNREACHABLE")
           lost == estate \in {"HEALTHY", "DEGRADED"}
           again == s = "UNREACHABLE" /\ ~estopped /\ Affordable /\ Len(chan) < ChannelMax
       IN  \/ /\ again
              /\ estate' = s
              /\ chan' = Append(chan, "RESTART") /\ scopeCancel' = TRUE
              /\ catalog' = IF lost THEN 0 ELSE catalog
              /\ session' = (session /\ ~lost)
              /\ UNCHANGED <<loop, service, published, candidate, refreshWanted, refreshing, peer>>
           \/ /\ ~again
              /\ estate' = Move(s, "FAILED")
              /\ chan' = chan
              /\ Leave
    /\ UNCHANGED <<egen, estopped, enabled, budgetVars, shutdown, stopLost>>

\* disable_extension: admission closes first, then the state moves, whatever
\* the owner is doing.
Disable ==
    /\ enabled /\ enabled' = FALSE
    /\ Signal("STOP")
    /\ estate' = Move(Move(estate, "STOPPING"), "DISABLED")
    /\ catalog' = 0 /\ session' = FALSE
    /\ UNCHANGED <<egen, loop, service, published, candidate, refreshWanted, refreshing, peer, budgetVars, shutdown>>

Enable ==
    /\ ~enabled /\ enabled' = TRUE
    /\ attempts' = 0 /\ failures' = 0
    /\ UNCHANGED <<stateVars, estopped, chan, loop, scopeCancel, serviceVars, shutdown, stopLost>>

\* restart_extension and signal_start.
RestartExtension(override) ==
    /\ override \/ Affordable
    /\ IF override THEN attempts' = 0 /\ failures' = 0 ELSE UNCHANGED budgetVars
    /\ Signal("RESTART")
    /\ UNCHANGED <<stateVars, enabled, loop, serviceVars, shutdown>>
SignalStart ==
    /\ Sent("START")
    /\ Signal("START")
    /\ UNCHANGED <<stateVars, enabled, loop, serviceVars, budgetVars, shutdown>>

\* drain_and_stop: admission closes, the waiting services are released, every
\* owner is told to stop, and what still runs is cancelled until it ends.
Drain ==
    /\ ~shutdown /\ shutdown' = TRUE
    /\ catalog' = 0
    /\ Signal("STOP")
    /\ UNCHANGED <<stateVars, enabled, loop, service, session, published, candidate, refreshWanted, refreshing, peer,
                   budgetVars>>

\* The attempts of the window expire.
WindowPasses ==
    /\ attempts > 0 /\ attempts' = 0
    /\ UNCHANGED <<stateVars, estopped, enabled, chan, loop, scopeCancel, serviceVars, failures, shutdown, stopLost>>

OwnerSteps == Drop \/ TakeStart \/ TakeStop \/ TakeRestart \/ BackoffEnds
ServiceSteps == ServiceReturns \/ StartupFails \/ Discovered \/ TransportLost \/ RefreshFails

OwnerNext ==
    \/ StartBackground \/ OwnerSteps \/ Connect \/ ServiceSteps \/ Notified \/ RefreshBegins \/ PeerDies
    \/ Disable \/ Enable \/ SignalStart \/ Drain \/ WindowPasses
    \/ \E override \in BOOLEAN : RestartExtension(override)

\* The event loop runs the owner, and every await of the service is bounded
\* by a timeout.
OwnerFairness == WF_ownerVars(OwnerSteps) /\ WF_ownerVars(ServiceReturns \/ StartupFails \/ Discovered \/ RefreshFails)
OwnerSpec == OwnerInit /\ [][OwnerNext]_ownerVars
OwnerFairSpec == OwnerSpec /\ OwnerFairness
-----------------------------------------------------------------------------
\* The type of the owner's state.
OwnerTypeOK ==
    /\ estate \in DOMAIN Legal /\ egen \in 0 .. GenMax
    /\ {estopped, enabled, scopeCancel, session, refreshWanted, refreshing, peer, shutdown, stopLost} \subseteq BOOLEAN
    /\ chan \in Seq({"START", "STOP", "RESTART"}) /\ Len(chan) <= ChannelMax
    /\ loop \in {"none", "idle", "backoff", "service", "ended"}
    /\ service \in {"none", "connect", "discover", "live"}
    /\ catalog \in 0 .. published /\ published \in Nat /\ candidate \in Nat
    /\ attempts \in Nat /\ failures \in {0, 1}

\* What routes a call, a healthy state, an active session and a catalog,
\* is there only while the service lives: a call that is admitted has a
\* session whose owner will notice its loss (close_active_session,
\* retire_extension_catalog and handle_transport_loss in every way out).
RoutedIsServed == estate = "HEALTHY" /\ session => loop = "service" /\ service = "live"

\* An extension that is disabled neither starts nor serves, whatever was
\* queued or under way when it was disabled (disable_extension), unless the
\* channel was full and the stop was lost.
DisabledIsDown == ~enabled /\ ~stopLost => estate \notin {"STARTING", "HEALTHY", "DEGRADED"}

\* A stop is for good: no start follows it, though restarts may be queued
\* before it and asked for after it (signal, run_owner_loop).
StopsForGood == estopped /\ ~stopLost => egen' = egen

\* Restarts, wanted by an operator or by a lost transport, stay within the
\* budget of the window (RestartBudget).
BudgetHolds == attempts <= AttemptMax

\* An owner whose channel took a stop ends, whatever is queued before it and
\* whatever it is doing (drain_and_stop waits for it).  A stop that meets a
\* full channel is lost: the service ends, the loop waits on.
StopEnds == (loop # "none" /\ \E i \in DOMAIN chan : chan[i] = "STOP") ~> (loop = "ended")

\* The owner of an extension routes to what it serves, keeps a disabled one
\* down, and restarts within its budget (run_owner_loop).
OwnerSound == OwnerTypeOK /\ RoutedIsServed /\ DisabledIsDown /\ BudgetHolds

(***************************************************************************)
(* Why they hold: a session is one of a service, which is not healthy      *)
(* before it is discovered; an extension that is disabled was stopped, and *)
(* a stop that was not lost has cancelled the backoff it met.              *)
(***************************************************************************)
ServedInv ==
    /\ service # "none" <=> loop = "service"
    /\ service = "none" => ~session
    /\ service \in {"connect", "discover"} => estate # "HEALTHY"

StoppedInv ==
    /\ ~enabled => estopped /\ (stopLost \/ estate \in {"DISABLED", "FAILED"})
    /\ estopped /\ ~stopLost /\ loop = "backoff" => scopeCancel

OwnerInv == OwnerTypeOK /\ BudgetHolds /\ ServedInv /\ StoppedInv
=============================================================================
