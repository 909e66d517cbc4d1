--------------------------- MODULE ExtensionsProofs ---------------------------
(***************************************************************************)
(* Proofs about extensions, for any number of extensions, tools, calls and *)
(* generations: the owner that starts and stops an extension, the catalog  *)
(* of external tools and the guarded calls.                                *)
(***************************************************************************)
EXTENDS ExtensionOwner, ExtensionCalls, ExtensionRegistry, FiniteSetTheorems, TLAPS

\* Most leaves need no arithmetic: they are tried with Zenon first, then with SMT, then with Zenon for longer.
USE ZenonT(3), SMTT(60), ZenonT(30)
-----------------------------------------------------------------------------
\* The owner of an extension.

\* The transitions that matter here, from LEGAL_TRANSITIONS.
LEMMA LegalMoves ==
    /\ DOMAIN Legal = {"CONFIGURED", "DISABLED", "STARTING", "HEALTHY", "DEGRADED", "UNREACHABLE", "FAILED", "STOPPING"}
    /\ \A s, t \in DOMAIN Legal : Move(s, t) \in {s, t}
    /\ \A s \in {"DISABLED", "FAILED"}, t \in DOMAIN Legal : t # "STARTING" => Move(s, t) = s
    /\ \A s \in DOMAIN Legal : Move(Move(s, "STOPPING"), "DISABLED") \in {"DISABLED", "FAILED"}
<1>1. DOMAIN Legal = {"CONFIGURED", "DISABLED", "STARTING", "HEALTHY", "DEGRADED", "UNREACHABLE", "FAILED", "STOPPING"}
  BY DEF Legal
<1>2. /\ Legal["CONFIGURED"] = {"DISABLED", "STARTING"} /\ Legal["DISABLED"] = {"STARTING"}
      /\ Legal["STARTING"] = {"HEALTHY", "FAILED", "STOPPING"} /\ Legal["HEALTHY"] = {"DEGRADED", "UNREACHABLE", "STOPPING"}
  BY DEF Legal
<1>3. /\ Legal["DEGRADED"] = {"HEALTHY", "UNREACHABLE", "STOPPING"}
      /\ Legal["UNREACHABLE"] = {"STARTING", "FAILED", "STOPPING"}
      /\ Legal["FAILED"] = {"STARTING"} /\ Legal["STOPPING"] = {"DISABLED", "CONFIGURED"}
  BY DEF Legal
<1>4. \A s, t \in DOMAIN Legal : Move(s, t) \in {s, t}
  BY DEF Move
<1>5. \A s \in {"DISABLED", "FAILED"}, t \in DOMAIN Legal : t # "STARTING" => Move(s, t) = s
  BY <1>2, <1>3 DEF Move
<1>6. ASSUME NEW s \in DOMAIN Legal PROVE Move(Move(s, "STOPPING"), "DISABLED") \in {"DISABLED", "FAILED"}
  <2>1. CASE s \in {"STARTING", "HEALTHY", "DEGRADED", "UNREACHABLE"}
    <3>1. Move(s, "STOPPING") = "STOPPING"
      BY <2>1, <1>2, <1>3 DEF Move
    <3>. QED BY <3>1, <1>3 DEF Move
  <2>2. CASE s \in {"CONFIGURED", "STOPPING"}
    <3>1. Move(s, "STOPPING") = s /\ "DISABLED" \in Legal[s]
      BY <2>2, <1>2, <1>3 DEF Move
    <3>. QED BY <3>1 DEF Move
  <2>3. CASE s \in {"DISABLED", "FAILED"}
    <3>1. Move(s, "STOPPING") = s /\ "DISABLED" \notin Legal[s]
      BY <2>3, <1>2, <1>3 DEF Move
    <3>. QED BY <3>1, <2>3 DEF Move
  <2>. QED BY <1>1, <2>1, <2>2, <2>3
<1>. QED BY <1>1, <1>4, <1>5, <1>6

\* What a signal changes: the channel stays one of signals within its limit,
\* and a stop that is not lost has cancelled what runs.
LEMMA SignalEffect ==
    ASSUME OwnerInv, NEW sig \in {"START", "STOP", "RESTART"}, Signal(sig)
    PROVE  /\ chan' \in Seq({"START", "STOP", "RESTART"}) /\ Len(chan') <= ChannelMax
           /\ estopped' \in BOOLEAN /\ scopeCancel' \in BOOLEAN /\ stopLost' \in BOOLEAN
           /\ (estopped => estopped') /\ (scopeCancel => scopeCancel') /\ (stopLost => stopLost')
           /\ (sig = "STOP" => estopped') /\ (sig # "STOP" => estopped' = estopped)
           /\ sig = "STOP" /\ ~stopLost' /\ loop = "backoff" => scopeCancel'
<1>1. chan \in Seq({"START", "STOP", "RESTART"}) /\ Len(chan) <= ChannelMax /\ Len(chan) \in Nat /\ ChannelMax \in Nat
  BY OwnerAssumption DEF OwnerInv, OwnerTypeOK
<1>2. estopped \in BOOLEAN /\ scopeCancel \in BOOLEAN /\ stopLost \in BOOLEAN
  BY DEF OwnerInv, OwnerTypeOK
<1>3. chan' \in Seq({"START", "STOP", "RESTART"}) /\ Len(chan') <= ChannelMax
  <2>1. CASE Sent(sig)
    <3>1. chan' = Append(chan, sig) /\ Len(chan) < ChannelMax
      BY <2>1 DEF Signal, Sent
    <3>. QED BY <3>1, <1>1
  <2>2. CASE ~Sent(sig)
    BY <2>2, <1>1 DEF Signal
  <2>. QED BY <2>1, <2>2
<1>4. Sent(sig) \in BOOLEAN
  BY DEF Sent
<1>5. /\ estopped' = (estopped \/ sig = "STOP")
      /\ scopeCancel' = (scopeCancel \/ (Sent(sig) /\ sig # "START" /\ loop \in {"backoff", "service"}))
      /\ stopLost' = (stopLost \/ (sig = "STOP" /\ ~Sent(sig)))
  BY DEF Signal
<1>. QED BY <1>2, <1>3, <1>4, <1>5

\* The loop takes a signal off the channel.
LEMMA TailEffect ==
    ASSUME OwnerInv, chan # << >>
    PROVE  Tail(chan) \in Seq({"START", "STOP", "RESTART"}) /\ Len(Tail(chan)) <= ChannelMax
<1>1. chan \in Seq({"START", "STOP", "RESTART"}) /\ Len(chan) <= ChannelMax /\ ChannelMax \in Nat
  BY OwnerAssumption DEF OwnerInv, OwnerTypeOK
<1>. QED BY <1>1


\* Every step of the owner, of its service and of its operators keeps the
\* invariant: one step per action, and under it one per conjunct.
LEMMA OwnerStep == OwnerInv /\ [OwnerNext]_ownerVars => OwnerInv'
<1>. SUFFICES ASSUME OwnerInv, [OwnerNext]_ownerVars
              PROVE  OwnerTypeOK' /\ BudgetHolds' /\ ServedInv' /\ StoppedInv'
  BY DEF OwnerInv
<1>0. OwnerTypeOK /\ BudgetHolds /\ ServedInv /\ StoppedInv
  BY DEF OwnerInv
<1>00. \A s, t \in DOMAIN Legal : Move(s, t) \in DOMAIN Legal
  BY LegalMoves
<1>a. /\ estate \in DOMAIN Legal /\ egen \in 0 .. GenMax /\ catalog \in 0 .. published /\ published \in Nat
      /\ candidate \in Nat /\ attempts \in Nat
  BY <1>0 DEF OwnerTypeOK
<1>b. /\ 0 \in 0 .. published /\ candidate \in 0 .. candidate /\ attempts + 1 \in Nat /\ 0 \in Nat
      /\ (egen < GenMax => egen + 1 \in 0 .. GenMax) /\ NextGeneration \in Nat
  BY <1>a, OwnerAssumption DEF NextGeneration
<1>c. {"CONFIGURED", "DISABLED", "STARTING", "HEALTHY", "DEGRADED", "UNREACHABLE", "FAILED", "STOPPING"} \subseteq DOMAIN Legal
  BY LegalMoves
<1>1. CASE StartBackground
  <2>0. /\ chan' \in Seq({"START", "STOP", "RESTART"}) /\ Len(chan') <= ChannelMax
        /\ estopped' \in BOOLEAN /\ scopeCancel' \in BOOLEAN /\ stopLost' \in BOOLEAN
        /\ (estopped => estopped') /\ (scopeCancel => scopeCancel') /\ (stopLost => stopLost')
        /\ estopped' = estopped
    BY <1>0, <1>1, SignalEffect DEF StartBackground
  <2>1. OwnerTypeOK'
    <3>1. estate' \in DOMAIN Legal
      BY <1>0, <1>1, <1>00, <1>a, <1>c DEF StartBackground, stateVars, serviceVars, budgetVars
    <3>2. /\ egen' \in 0 .. GenMax /\ catalog' \in 0 .. published' /\ published' \in Nat
          /\ candidate' \in Nat /\ attempts' \in Nat
      BY <1>0, <1>1, <1>a, <1>b DEF StartBackground, stateVars, serviceVars, budgetVars
    <3>. QED BY <1>0, <1>1, <2>0, <3>1, <3>2 DEF OwnerTypeOK, StartBackground, stateVars, serviceVars, budgetVars
  <2>2. BudgetHolds'
    BY <1>0, <1>1, OwnerAssumption DEF BudgetHolds, OwnerTypeOK, StartBackground, stateVars, serviceVars, budgetVars
  <2>3. ServedInv'
    BY <1>0, <1>1, LegalMoves DEF ServedInv, OwnerTypeOK, StartBackground, stateVars, serviceVars, budgetVars
  <2>4. StoppedInv'
    BY <1>0, <1>1, <2>0, LegalMoves DEF StoppedInv, OwnerTypeOK, StartBackground, stateVars, serviceVars, budgetVars
  <2>. QED BY <2>1, <2>2, <2>3, <2>4
<1>2. CASE Drop
  <2>0. chan' \in Seq({"START", "STOP", "RESTART"}) /\ Len(chan') <= ChannelMax
    BY <1>0, <1>2, TailEffect DEF Drop
  <2>1. OwnerTypeOK'
    <3>1. estate' \in DOMAIN Legal
      BY <1>0, <1>2, <1>00, <1>a, <1>c DEF Drop, stateVars, serviceVars, budgetVars
    <3>2. /\ egen' \in 0 .. GenMax /\ catalog' \in 0 .. published' /\ published' \in Nat
          /\ candidate' \in Nat /\ attempts' \in Nat
      BY <1>0, <1>2, <1>a, <1>b DEF Drop, stateVars, serviceVars, budgetVars
    <3>. QED BY <1>0, <1>2, <2>0, <3>1, <3>2 DEF OwnerTypeOK, Drop, stateVars, serviceVars, budgetVars
  <2>2. BudgetHolds'
    BY <1>0, <1>2, OwnerAssumption DEF BudgetHolds, OwnerTypeOK, Drop, stateVars, serviceVars, budgetVars
  <2>3. ServedInv'
    BY <1>0, <1>2, LegalMoves DEF ServedInv, OwnerTypeOK, Drop, stateVars, serviceVars, budgetVars
  <2>4. StoppedInv'
    BY <1>0, <1>2, <2>0, LegalMoves DEF StoppedInv, OwnerTypeOK, Drop, stateVars, serviceVars, budgetVars
  <2>. QED BY <2>1, <2>2, <2>3, <2>4
<1>3. CASE TakeStart
  <2>0. chan' \in Seq({"START", "STOP", "RESTART"}) /\ Len(chan') <= ChannelMax
    BY <1>0, <1>3, TailEffect DEF TakeStart
  <2>1. OwnerTypeOK'
    <3>1. estate' \in DOMAIN Legal
      BY <1>0, <1>3, <1>00, <1>a, <1>c DEF TakeStart, Ignored, stateVars, serviceVars, budgetVars, Serve
    <3>2. /\ egen' \in 0 .. GenMax /\ catalog' \in 0 .. published' /\ published' \in Nat
          /\ candidate' \in Nat /\ attempts' \in Nat
      BY <1>0, <1>3, <1>a, <1>b DEF TakeStart, Ignored, stateVars, serviceVars, budgetVars, Serve
    <3>. QED BY <1>0, <1>3, <2>0, <3>1, <3>2 DEF OwnerTypeOK, TakeStart, Ignored, stateVars, serviceVars, budgetVars, Serve
  <2>2. BudgetHolds'
    BY <1>0, <1>3, OwnerAssumption DEF BudgetHolds, OwnerTypeOK, TakeStart, Ignored, stateVars, serviceVars, budgetVars, Serve
  <2>3. ServedInv'
    BY <1>0, <1>3, LegalMoves DEF ServedInv, OwnerTypeOK, TakeStart, Ignored, stateVars, serviceVars, budgetVars, Serve
  <2>4. StoppedInv'
    BY <1>0, <1>3, <2>0, LegalMoves DEF StoppedInv, OwnerTypeOK, TakeStart, Ignored, stateVars, serviceVars, budgetVars, Serve
  <2>. QED BY <2>1, <2>2, <2>3, <2>4
<1>4. CASE TakeStop
  <2>0. chan' \in Seq({"START", "STOP", "RESTART"}) /\ Len(chan') <= ChannelMax
    BY <1>4, OwnerAssumption DEF TakeStop
  <2>1. OwnerTypeOK'
    <3>1. estate' \in DOMAIN Legal
      BY <1>0, <1>4, <1>00, <1>a, <1>c DEF TakeStop, budgetVars, Rest
    <3>2. /\ egen' \in 0 .. GenMax /\ catalog' \in 0 .. published' /\ published' \in Nat
          /\ candidate' \in Nat /\ attempts' \in Nat
      BY <1>0, <1>4, <1>a, <1>b DEF TakeStop, budgetVars, Rest
    <3>. QED BY <1>0, <1>4, <2>0, <3>1, <3>2 DEF OwnerTypeOK, TakeStop, budgetVars, Rest
  <2>2. BudgetHolds'
    BY <1>0, <1>4, OwnerAssumption DEF BudgetHolds, OwnerTypeOK, TakeStop, budgetVars, Rest
  <2>3. ServedInv'
    BY <1>0, <1>4, LegalMoves DEF ServedInv, OwnerTypeOK, TakeStop, budgetVars, Rest
  <2>4. StoppedInv'
    BY <1>0, <1>4, <2>0, LegalMoves DEF StoppedInv, OwnerTypeOK, TakeStop, budgetVars, Rest
  <2>. QED BY <2>1, <2>2, <2>3, <2>4
<1>5. CASE TakeRestart
  <2>0. chan' \in Seq({"START", "STOP", "RESTART"}) /\ Len(chan') <= ChannelMax
    BY <1>0, <1>5, TailEffect DEF TakeRestart
  <2>1. OwnerTypeOK'
    <3>1. estate' \in DOMAIN Legal
      BY <1>0, <1>5, <1>00, <1>a, <1>c DEF TakeRestart, Ignored, stateVars, serviceVars, budgetVars, Restart, Serve, Affordable
    <3>2. /\ egen' \in 0 .. GenMax /\ catalog' \in 0 .. published' /\ published' \in Nat
          /\ candidate' \in Nat /\ attempts' \in Nat
      BY <1>0, <1>5, <1>a, <1>b DEF TakeRestart, Ignored, stateVars, serviceVars, budgetVars, Restart, Serve, Affordable
    <3>. QED BY <1>0, <1>5, <2>0, <3>1, <3>2 DEF OwnerTypeOK, TakeRestart, Ignored, stateVars, serviceVars, budgetVars, Restart, Serve, Affordable
  <2>2. BudgetHolds'
    BY <1>0, <1>5, OwnerAssumption DEF BudgetHolds, OwnerTypeOK, TakeRestart, Ignored, stateVars, serviceVars, budgetVars, Restart, Serve, Affordable
  <2>3. ServedInv'
    BY <1>0, <1>5, LegalMoves DEF ServedInv, OwnerTypeOK, TakeRestart, Ignored, stateVars, serviceVars, budgetVars, Restart, Serve, Affordable
  <2>4. StoppedInv'
    BY <1>0, <1>5, <2>0, LegalMoves DEF StoppedInv, OwnerTypeOK, TakeRestart, Ignored, stateVars, serviceVars, budgetVars, Restart, Serve, Affordable
  <2>. QED BY <2>1, <2>2, <2>3, <2>4
<1>6. CASE BackoffEnds
  <2>1. OwnerTypeOK'
    <3>1. estate' \in DOMAIN Legal
      BY <1>0, <1>6, <1>00, <1>a, <1>c DEF BackoffEnds, stateVars, serviceVars, budgetVars, Restart, Serve
    <3>2. /\ egen' \in 0 .. GenMax /\ catalog' \in 0 .. published' /\ published' \in Nat
          /\ candidate' \in Nat /\ attempts' \in Nat
      BY <1>0, <1>6, <1>a, <1>b DEF BackoffEnds, stateVars, serviceVars, budgetVars, Restart, Serve
    <3>. QED BY <1>0, <1>6, <3>1, <3>2 DEF OwnerTypeOK, BackoffEnds, stateVars, serviceVars, budgetVars, Restart, Serve
  <2>2. BudgetHolds'
    BY <1>0, <1>6, OwnerAssumption DEF BudgetHolds, OwnerTypeOK, BackoffEnds, stateVars, serviceVars, budgetVars, Restart, Serve
  <2>3. ServedInv'
    BY <1>0, <1>6, LegalMoves DEF ServedInv, OwnerTypeOK, BackoffEnds, stateVars, serviceVars, budgetVars, Restart, Serve
  <2>4. StoppedInv'
    BY <1>0, <1>6, LegalMoves DEF StoppedInv, OwnerTypeOK, BackoffEnds, stateVars, serviceVars, budgetVars, Restart, Serve
  <2>. QED BY <2>1, <2>2, <2>3, <2>4
<1>7. CASE Connect
  <2>1. OwnerTypeOK'
    <3>1. estate' \in DOMAIN Legal
      BY <1>0, <1>7, <1>00, <1>a, <1>c DEF Connect, stateVars, budgetVars
    <3>2. /\ egen' \in 0 .. GenMax /\ catalog' \in 0 .. published' /\ published' \in Nat
          /\ candidate' \in Nat /\ attempts' \in Nat
      BY <1>0, <1>7, <1>a, <1>b DEF Connect, stateVars, budgetVars
    <3>. QED BY <1>0, <1>7, <3>1, <3>2 DEF OwnerTypeOK, Connect, stateVars, budgetVars
  <2>2. BudgetHolds'
    BY <1>0, <1>7, OwnerAssumption DEF BudgetHolds, OwnerTypeOK, Connect, stateVars, budgetVars
  <2>3. ServedInv'
    BY <1>0, <1>7, LegalMoves DEF ServedInv, OwnerTypeOK, Connect, stateVars, budgetVars
  <2>4. StoppedInv'
    BY <1>0, <1>7, LegalMoves DEF StoppedInv, OwnerTypeOK, Connect, stateVars, budgetVars
  <2>. QED BY <2>1, <2>2, <2>3, <2>4
<1>8. CASE ServiceReturns
  <2>1. OwnerTypeOK'
    <3>1. estate' \in DOMAIN Legal
      BY <1>0, <1>8, <1>00, <1>a, <1>c DEF ServiceReturns, stateVars, Leave
    <3>2. /\ egen' \in 0 .. GenMax /\ catalog' \in 0 .. published' /\ published' \in Nat
          /\ candidate' \in Nat /\ attempts' \in Nat
      BY <1>0, <1>8, <1>a, <1>b DEF ServiceReturns, stateVars, Leave
    <3>. QED BY <1>0, <1>8, <3>1, <3>2 DEF OwnerTypeOK, ServiceReturns, stateVars, Leave
  <2>2. BudgetHolds'
    BY <1>0, <1>8, OwnerAssumption DEF BudgetHolds, OwnerTypeOK, ServiceReturns, stateVars, Leave
  <2>3. ServedInv'
    BY <1>0, <1>8, LegalMoves DEF ServedInv, OwnerTypeOK, ServiceReturns, stateVars, Leave
  <2>4. StoppedInv'
    BY <1>0, <1>8, LegalMoves DEF StoppedInv, OwnerTypeOK, ServiceReturns, stateVars, Leave
  <2>. QED BY <2>1, <2>2, <2>3, <2>4
<1>9. CASE StartupFails
  <2>1. OwnerTypeOK'
    <3>1. estate' \in DOMAIN Legal
      BY <1>0, <1>9, <1>00, <1>a, <1>c DEF StartupFails, budgetVars, Leave
    <3>2. /\ egen' \in 0 .. GenMax /\ catalog' \in 0 .. published' /\ published' \in Nat
          /\ candidate' \in Nat /\ attempts' \in Nat
      BY <1>0, <1>9, <1>a, <1>b DEF StartupFails, budgetVars, Leave
    <3>. QED BY <1>0, <1>9, <3>1, <3>2 DEF OwnerTypeOK, StartupFails, budgetVars, Leave
  <2>2. BudgetHolds'
    BY <1>0, <1>9, OwnerAssumption DEF BudgetHolds, OwnerTypeOK, StartupFails, budgetVars, Leave
  <2>3. ServedInv'
    BY <1>0, <1>9, LegalMoves DEF ServedInv, OwnerTypeOK, StartupFails, budgetVars, Leave
  <2>4. StoppedInv'
    BY <1>0, <1>9, LegalMoves DEF StoppedInv, OwnerTypeOK, StartupFails, budgetVars, Leave
  <2>. QED BY <2>1, <2>2, <2>3, <2>4
<1>10. CASE Discovered
  <2>1. OwnerTypeOK'
    <3>1. estate' \in DOMAIN Legal
      BY <1>0, <1>10, <1>00, <1>a, <1>c DEF Discovered, budgetVars
    <3>2. /\ egen' \in 0 .. GenMax /\ catalog' \in 0 .. published' /\ published' \in Nat
          /\ candidate' \in Nat /\ attempts' \in Nat
      BY <1>0, <1>10, <1>a, <1>b DEF Discovered, budgetVars
    <3>. QED BY <1>0, <1>10, <3>1, <3>2 DEF OwnerTypeOK, Discovered, budgetVars
  <2>2. BudgetHolds'
    BY <1>0, <1>10, OwnerAssumption DEF BudgetHolds, OwnerTypeOK, Discovered, budgetVars
  <2>3. ServedInv'
    BY <1>0, <1>10, LegalMoves DEF ServedInv, OwnerTypeOK, Discovered, budgetVars
  <2>4. StoppedInv'
    BY <1>0, <1>10, LegalMoves DEF StoppedInv, OwnerTypeOK, Discovered, budgetVars
  <2>. QED BY <2>1, <2>2, <2>3, <2>4
<1>11. CASE TransportLost
  <2>0. chan' \in Seq({"START", "STOP", "RESTART"}) /\ Len(chan') <= ChannelMax
    <3>1. chan \in Seq({"START", "STOP", "RESTART"}) /\ Len(chan) <= ChannelMax /\ Len(chan) \in Nat
      BY <1>0 DEF OwnerTypeOK
    <3>2. chan' = chan \/ (Len(chan) < ChannelMax /\ chan' = Append(chan, "RESTART"))
      BY <1>11 DEF TransportLost
    <3>. QED BY <3>1, <3>2, OwnerAssumption
  <2>1. OwnerTypeOK'
    <3>1. estate' \in DOMAIN Legal
      BY <1>0, <1>11, <1>00, <1>a, <1>c DEF TransportLost, budgetVars, Leave, Affordable
    <3>2. /\ egen' \in 0 .. GenMax /\ catalog' \in 0 .. published' /\ published' \in Nat
          /\ candidate' \in Nat /\ attempts' \in Nat
      BY <1>0, <1>11, <1>a, <1>b DEF TransportLost, budgetVars, Leave, Affordable
    <3>. QED BY <1>0, <1>11, <2>0, <3>1, <3>2 DEF OwnerTypeOK, TransportLost, budgetVars, Leave, Affordable
  <2>2. BudgetHolds'
    BY <1>0, <1>11, OwnerAssumption DEF BudgetHolds, OwnerTypeOK, TransportLost, budgetVars, Leave, Affordable
  <2>3. ServedInv'
    BY <1>0, <1>11, LegalMoves DEF ServedInv, OwnerTypeOK, TransportLost, budgetVars, Leave, Affordable
  <2>4. StoppedInv'
    BY <1>0, <1>11, <2>0, LegalMoves DEF StoppedInv, OwnerTypeOK, TransportLost, budgetVars, Leave, Affordable
  <2>. QED BY <2>1, <2>2, <2>3, <2>4
<1>12. CASE RefreshFails
  <2>1. OwnerTypeOK'
    <3>1. estate' \in DOMAIN Legal
      BY <1>0, <1>12, <1>00, <1>a, <1>c DEF RefreshFails, budgetVars, Leave
    <3>2. /\ egen' \in 0 .. GenMax /\ catalog' \in 0 .. published' /\ published' \in Nat
          /\ candidate' \in Nat /\ attempts' \in Nat
      BY <1>0, <1>12, <1>a, <1>b DEF RefreshFails, budgetVars, Leave
    <3>. QED BY <1>0, <1>12, <3>1, <3>2 DEF OwnerTypeOK, RefreshFails, budgetVars, Leave
  <2>2. BudgetHolds'
    BY <1>0, <1>12, OwnerAssumption DEF BudgetHolds, OwnerTypeOK, RefreshFails, budgetVars, Leave
  <2>3. ServedInv'
    BY <1>0, <1>12, LegalMoves DEF ServedInv, OwnerTypeOK, RefreshFails, budgetVars, Leave
  <2>4. StoppedInv'
    BY <1>0, <1>12, LegalMoves DEF StoppedInv, OwnerTypeOK, RefreshFails, budgetVars, Leave
  <2>. QED BY <2>1, <2>2, <2>3, <2>4
<1>13. CASE Notified
  <2>1. OwnerTypeOK'
    <3>1. estate' \in DOMAIN Legal
      BY <1>0, <1>13, <1>00, <1>a, <1>c DEF Notified, budgetVars
    <3>2. /\ egen' \in 0 .. GenMax /\ catalog' \in 0 .. published' /\ published' \in Nat
          /\ candidate' \in Nat /\ attempts' \in Nat
      BY <1>0, <1>13, <1>a, <1>b DEF Notified, budgetVars
    <3>. QED BY <1>0, <1>13, <3>1, <3>2 DEF OwnerTypeOK, Notified, budgetVars
  <2>2. BudgetHolds'
    BY <1>0, <1>13, OwnerAssumption DEF BudgetHolds, OwnerTypeOK, Notified, budgetVars
  <2>3. ServedInv'
    BY <1>0, <1>13, LegalMoves DEF ServedInv, OwnerTypeOK, Notified, budgetVars
  <2>4. StoppedInv'
    BY <1>0, <1>13, LegalMoves DEF StoppedInv, OwnerTypeOK, Notified, budgetVars
  <2>. QED BY <2>1, <2>2, <2>3, <2>4
<1>14. CASE RefreshBegins
  <2>1. OwnerTypeOK'
    <3>1. estate' \in DOMAIN Legal
      BY <1>0, <1>14, <1>00, <1>a, <1>c DEF RefreshBegins, stateVars, budgetVars
    <3>2. /\ egen' \in 0 .. GenMax /\ catalog' \in 0 .. published' /\ published' \in Nat
          /\ candidate' \in Nat /\ attempts' \in Nat
      BY <1>0, <1>14, <1>a, <1>b DEF RefreshBegins, stateVars, budgetVars
    <3>. QED BY <1>0, <1>14, <3>1, <3>2 DEF OwnerTypeOK, RefreshBegins, stateVars, budgetVars
  <2>2. BudgetHolds'
    BY <1>0, <1>14, OwnerAssumption DEF BudgetHolds, OwnerTypeOK, RefreshBegins, stateVars, budgetVars
  <2>3. ServedInv'
    BY <1>0, <1>14, LegalMoves DEF ServedInv, OwnerTypeOK, RefreshBegins, stateVars, budgetVars
  <2>4. StoppedInv'
    BY <1>0, <1>14, LegalMoves DEF StoppedInv, OwnerTypeOK, RefreshBegins, stateVars, budgetVars
  <2>. QED BY <2>1, <2>2, <2>3, <2>4
<1>15. CASE PeerDies
  <2>1. OwnerTypeOK'
    <3>1. estate' \in DOMAIN Legal
      BY <1>0, <1>15, <1>00, <1>a, <1>c DEF PeerDies, stateVars, budgetVars
    <3>2. /\ egen' \in 0 .. GenMax /\ catalog' \in 0 .. published' /\ published' \in Nat
          /\ candidate' \in Nat /\ attempts' \in Nat
      BY <1>0, <1>15, <1>a, <1>b DEF PeerDies, stateVars, budgetVars
    <3>. QED BY <1>0, <1>15, <3>1, <3>2 DEF OwnerTypeOK, PeerDies, stateVars, budgetVars
  <2>2. BudgetHolds'
    BY <1>0, <1>15, OwnerAssumption DEF BudgetHolds, OwnerTypeOK, PeerDies, stateVars, budgetVars
  <2>3. ServedInv'
    BY <1>0, <1>15, LegalMoves DEF ServedInv, OwnerTypeOK, PeerDies, stateVars, budgetVars
  <2>4. StoppedInv'
    BY <1>0, <1>15, LegalMoves DEF StoppedInv, OwnerTypeOK, PeerDies, stateVars, budgetVars
  <2>. QED BY <2>1, <2>2, <2>3, <2>4
<1>16. CASE Disable
  <2>0. /\ chan' \in Seq({"START", "STOP", "RESTART"}) /\ Len(chan') <= ChannelMax
        /\ estopped' \in BOOLEAN /\ scopeCancel' \in BOOLEAN /\ stopLost' \in BOOLEAN
        /\ (estopped => estopped') /\ (scopeCancel => scopeCancel') /\ (stopLost => stopLost')
        /\ estopped'
        /\ ~stopLost' /\ loop = "backoff" => scopeCancel'
    BY <1>0, <1>16, SignalEffect DEF Disable
  <2>1. OwnerTypeOK'
    <3>1. estate' \in DOMAIN Legal
      BY <1>0, <1>16, <1>00, <1>a, <1>c DEF Disable, budgetVars
    <3>2. /\ egen' \in 0 .. GenMax /\ catalog' \in 0 .. published' /\ published' \in Nat
          /\ candidate' \in Nat /\ attempts' \in Nat
      BY <1>0, <1>16, <1>a, <1>b DEF Disable, budgetVars
    <3>. QED BY <1>0, <1>16, <2>0, <3>1, <3>2 DEF OwnerTypeOK, Disable, budgetVars
  <2>2. BudgetHolds'
    BY <1>0, <1>16, OwnerAssumption DEF BudgetHolds, OwnerTypeOK, Disable, budgetVars
  <2>3. ServedInv'
    BY <1>0, <1>16, LegalMoves DEF ServedInv, OwnerTypeOK, Disable, budgetVars
  <2>4. StoppedInv'
    BY <1>0, <1>16, <2>0, LegalMoves DEF StoppedInv, OwnerTypeOK, Disable, budgetVars
  <2>. QED BY <2>1, <2>2, <2>3, <2>4
<1>17. CASE Enable
  <2>1. OwnerTypeOK'
    <3>1. estate' \in DOMAIN Legal
      BY <1>0, <1>17, <1>00, <1>a, <1>c DEF Enable, stateVars, serviceVars
    <3>2. /\ egen' \in 0 .. GenMax /\ catalog' \in 0 .. published' /\ published' \in Nat
          /\ candidate' \in Nat /\ attempts' \in Nat
      BY <1>0, <1>17, <1>a, <1>b DEF Enable, stateVars, serviceVars
    <3>. QED BY <1>0, <1>17, <3>1, <3>2 DEF OwnerTypeOK, Enable, stateVars, serviceVars
  <2>2. BudgetHolds'
    BY <1>0, <1>17, OwnerAssumption DEF BudgetHolds, OwnerTypeOK, Enable, stateVars, serviceVars
  <2>3. ServedInv'
    BY <1>0, <1>17, LegalMoves DEF ServedInv, OwnerTypeOK, Enable, stateVars, serviceVars
  <2>4. StoppedInv'
    BY <1>0, <1>17, LegalMoves DEF StoppedInv, OwnerTypeOK, Enable, stateVars, serviceVars
  <2>. QED BY <2>1, <2>2, <2>3, <2>4
<1>18. CASE SignalStart
  <2>0. /\ chan' \in Seq({"START", "STOP", "RESTART"}) /\ Len(chan') <= ChannelMax
        /\ estopped' \in BOOLEAN /\ scopeCancel' \in BOOLEAN /\ stopLost' \in BOOLEAN
        /\ (estopped => estopped') /\ (scopeCancel => scopeCancel') /\ (stopLost => stopLost')
        /\ estopped' = estopped
    BY <1>0, <1>18, SignalEffect DEF SignalStart
  <2>1. OwnerTypeOK'
    <3>1. estate' \in DOMAIN Legal
      BY <1>0, <1>18, <1>00, <1>a, <1>c DEF SignalStart, stateVars, serviceVars, budgetVars
    <3>2. /\ egen' \in 0 .. GenMax /\ catalog' \in 0 .. published' /\ published' \in Nat
          /\ candidate' \in Nat /\ attempts' \in Nat
      BY <1>0, <1>18, <1>a, <1>b DEF SignalStart, stateVars, serviceVars, budgetVars
    <3>. QED BY <1>0, <1>18, <2>0, <3>1, <3>2 DEF OwnerTypeOK, SignalStart, stateVars, serviceVars, budgetVars
  <2>2. BudgetHolds'
    BY <1>0, <1>18, OwnerAssumption DEF BudgetHolds, OwnerTypeOK, SignalStart, stateVars, serviceVars, budgetVars
  <2>3. ServedInv'
    BY <1>0, <1>18, LegalMoves DEF ServedInv, OwnerTypeOK, SignalStart, stateVars, serviceVars, budgetVars
  <2>4. StoppedInv'
    BY <1>0, <1>18, <2>0, LegalMoves DEF StoppedInv, OwnerTypeOK, SignalStart, stateVars, serviceVars, budgetVars
  <2>. QED BY <2>1, <2>2, <2>3, <2>4
<1>19. CASE Drain
  <2>0. /\ chan' \in Seq({"START", "STOP", "RESTART"}) /\ Len(chan') <= ChannelMax
        /\ estopped' \in BOOLEAN /\ scopeCancel' \in BOOLEAN /\ stopLost' \in BOOLEAN
        /\ (estopped => estopped') /\ (scopeCancel => scopeCancel') /\ (stopLost => stopLost')
        /\ estopped'
        /\ ~stopLost' /\ loop = "backoff" => scopeCancel'
    BY <1>0, <1>19, SignalEffect DEF Drain
  <2>1. OwnerTypeOK'
    <3>1. estate' \in DOMAIN Legal
      BY <1>0, <1>19, <1>00, <1>a, <1>c DEF Drain, stateVars, budgetVars
    <3>2. /\ egen' \in 0 .. GenMax /\ catalog' \in 0 .. published' /\ published' \in Nat
          /\ candidate' \in Nat /\ attempts' \in Nat
      BY <1>0, <1>19, <1>a, <1>b DEF Drain, stateVars, budgetVars
    <3>. QED BY <1>0, <1>19, <2>0, <3>1, <3>2 DEF OwnerTypeOK, Drain, stateVars, budgetVars
  <2>2. BudgetHolds'
    BY <1>0, <1>19, OwnerAssumption DEF BudgetHolds, OwnerTypeOK, Drain, stateVars, budgetVars
  <2>3. ServedInv'
    BY <1>0, <1>19, LegalMoves DEF ServedInv, OwnerTypeOK, Drain, stateVars, budgetVars
  <2>4. StoppedInv'
    BY <1>0, <1>19, <2>0, LegalMoves DEF StoppedInv, OwnerTypeOK, Drain, stateVars, budgetVars
  <2>. QED BY <2>1, <2>2, <2>3, <2>4
<1>20. CASE WindowPasses
  <2>1. OwnerTypeOK'
    <3>1. estate' \in DOMAIN Legal
      BY <1>0, <1>20, <1>00, <1>a, <1>c DEF WindowPasses, stateVars, serviceVars
    <3>2. /\ egen' \in 0 .. GenMax /\ catalog' \in 0 .. published' /\ published' \in Nat
          /\ candidate' \in Nat /\ attempts' \in Nat
      BY <1>0, <1>20, <1>a, <1>b DEF WindowPasses, stateVars, serviceVars
    <3>. QED BY <1>0, <1>20, <3>1, <3>2 DEF OwnerTypeOK, WindowPasses, stateVars, serviceVars
  <2>2. BudgetHolds'
    BY <1>0, <1>20, OwnerAssumption DEF BudgetHolds, OwnerTypeOK, WindowPasses, stateVars, serviceVars
  <2>3. ServedInv'
    BY <1>0, <1>20, LegalMoves DEF ServedInv, OwnerTypeOK, WindowPasses, stateVars, serviceVars
  <2>4. StoppedInv'
    BY <1>0, <1>20, LegalMoves DEF StoppedInv, OwnerTypeOK, WindowPasses, stateVars, serviceVars
  <2>. QED BY <2>1, <2>2, <2>3, <2>4
<1>21. CASE \E override \in BOOLEAN : RestartExtension(override)
  <2>. PICK override \in BOOLEAN : RestartExtension(override)
    BY <1>21
  <2>0. /\ chan' \in Seq({"START", "STOP", "RESTART"}) /\ Len(chan') <= ChannelMax
        /\ estopped' \in BOOLEAN /\ scopeCancel' \in BOOLEAN /\ stopLost' \in BOOLEAN
        /\ (estopped => estopped') /\ (scopeCancel => scopeCancel') /\ (stopLost => stopLost')
        /\ estopped' = estopped
    BY <1>0, SignalEffect DEF RestartExtension
  <2>1. OwnerTypeOK'
    <3>1. estate' \in DOMAIN Legal
      BY <1>0, <1>00, <1>a, <1>c DEF RestartExtension, stateVars, serviceVars, budgetVars, Affordable
    <3>2. /\ egen' \in 0 .. GenMax /\ catalog' \in 0 .. published' /\ published' \in Nat
          /\ candidate' \in Nat /\ attempts' \in Nat
      BY <1>0, <1>a, <1>b DEF RestartExtension, stateVars, serviceVars, budgetVars, Affordable
    <3>. QED BY <1>0, <2>0, <3>1, <3>2 DEF OwnerTypeOK, RestartExtension, stateVars, serviceVars, budgetVars, Affordable
  <2>2. BudgetHolds'
    BY <1>0, OwnerAssumption DEF BudgetHolds, OwnerTypeOK, RestartExtension, stateVars, serviceVars, budgetVars, Affordable
  <2>3. ServedInv'
    BY <1>0, LegalMoves DEF ServedInv, OwnerTypeOK, RestartExtension, stateVars, serviceVars, budgetVars, Affordable
  <2>4. StoppedInv'
    BY <1>0, <2>0, LegalMoves DEF StoppedInv, OwnerTypeOK, RestartExtension, stateVars, serviceVars, budgetVars, Affordable
  <2>. QED BY <2>1, <2>2, <2>3, <2>4
<1>22. CASE UNCHANGED ownerVars
  <2>1. OwnerTypeOK'
    <3>1. estate' \in DOMAIN Legal
      BY <1>0, <1>22, <1>00, <1>a, <1>c DEF ownerVars
    <3>2. /\ egen' \in 0 .. GenMax /\ catalog' \in 0 .. published' /\ published' \in Nat
          /\ candidate' \in Nat /\ attempts' \in Nat
      BY <1>0, <1>22, <1>a, <1>b DEF ownerVars
    <3>. QED BY <1>0, <1>22, <3>1, <3>2 DEF OwnerTypeOK, ownerVars
  <2>2. BudgetHolds'
    BY <1>0, <1>22, OwnerAssumption DEF BudgetHolds, OwnerTypeOK, ownerVars
  <2>3. ServedInv'
    BY <1>0, <1>22, LegalMoves DEF ServedInv, OwnerTypeOK, ownerVars
  <2>4. StoppedInv'
    BY <1>0, <1>22, LegalMoves DEF StoppedInv, OwnerTypeOK, ownerVars
  <2>. QED BY <2>1, <2>2, <2>3, <2>4
<1>. QED BY <1>1, <1>2, <1>3, <1>4, <1>5, <1>6, <1>7, <1>8, <1>9, <1>10, <1>11, <1>12, <1>13, <1>14, <1>15, <1>16, <1>17, <1>18, <1>19, <1>20, <1>21, <1>22 DEF OwnerNext, OwnerSteps, ServiceSteps

LEMMA OwnerAlways == OwnerSpec => []OwnerInv
<1>1. OwnerInit => OwnerInv
  <2>. SUFFICES ASSUME OwnerInit PROVE OwnerInv
    OBVIOUS
  <2>1. OwnerTypeOK
    <3>1. estate \in DOMAIN Legal
      BY LegalMoves DEF OwnerInit
    <3>2. chan \in Seq({"START", "STOP", "RESTART"}) /\ Len(chan) <= ChannelMax /\ egen \in 0 .. GenMax
      BY OwnerAssumption DEF OwnerInit
    <3>3. catalog \in 0 .. published /\ published \in Nat /\ candidate \in Nat /\ attempts \in Nat
      BY DEF OwnerInit
    <3>. QED BY <3>1, <3>2, <3>3 DEF OwnerInit, OwnerTypeOK
  <2>2. BudgetHolds
    BY OwnerAssumption DEF OwnerInit, BudgetHolds
  <2>. QED BY <2>1, <2>2 DEF OwnerInit, OwnerInv, ServedInv, StoppedInv
<1>. QED BY <1>1, OwnerStep, PTL DEF OwnerSpec

\* For any budget and any length of the channel: what routes a call is
\* served, a disabled extension is down unless its stop was lost, and the
\* restarts stay within their budget (run_owner_loop, disable_extension).
THEOREM OwnerIsSound == OwnerSpec => []OwnerSound
<1>1. OwnerInv => OwnerSound
  <2>. SUFFICES ASSUME OwnerInv PROVE OwnerSound
    OBVIOUS
  <2>1. RoutedIsServed
    BY DEF OwnerInv, OwnerTypeOK, ServedInv, RoutedIsServed
  <2>2. DisabledIsDown
    BY DEF OwnerInv, StoppedInv, DisabledIsDown
  <2>. QED BY <2>1, <2>2 DEF OwnerInv, OwnerSound
<1>. QED BY <1>1, OwnerAlways, PTL

\* No start follows a stop that the channel took, whatever was queued before
\* it or is asked for after it (signal, run_owner_loop).
THEOREM StoppedForGood == OwnerSpec => [][StopsForGood]_ownerVars
<1>1. OwnerInv /\ [OwnerNext]_ownerVars => [StopsForGood]_ownerVars
  <2>. SUFFICES ASSUME OwnerInv, OwnerNext, estopped, ~stopLost PROVE egen' = egen
    BY DEF StopsForGood
  <2>0. loop = "backoff" => scopeCancel
    BY DEF OwnerInv, StoppedInv
  <2>1. CASE OwnerSteps
    <3>1. ~TakeStart /\ ~TakeRestart
      BY DEF TakeStart, TakeRestart, Ignored
    <3>2. CASE BackoffEnds
      BY <3>2, <2>0 DEF BackoffEnds, stateVars
    <3>3. CASE Drop \/ TakeStop
      BY <3>3 DEF Drop, TakeStop, stateVars
    <3>. QED BY <2>1, <3>1, <3>2, <3>3 DEF OwnerSteps
  <2>2. CASE ServiceSteps
    BY <2>2 DEF ServiceSteps, ServiceReturns, StartupFails, Discovered, TransportLost, RefreshFails, stateVars
  <2>3. CASE StartBackground \/ Connect \/ Notified \/ RefreshBegins \/ PeerDies
    BY <2>3 DEF StartBackground, Connect, Notified, RefreshBegins, PeerDies, stateVars
  <2>4. CASE Disable \/ Enable \/ SignalStart \/ Drain \/ WindowPasses
    BY <2>4 DEF Disable, Enable, SignalStart, Drain, WindowPasses, stateVars
  <2>5. CASE \E override \in BOOLEAN : RestartExtension(override)
    BY <2>5 DEF RestartExtension, stateVars
  <2>. QED BY <2>1, <2>2, <2>3, <2>4, <2>5 DEF OwnerNext
<1>. QED BY <1>1, OwnerAlways, PTL DEF OwnerSpec
-----------------------------------------------------------------------------
\* The catalog of external tools.

\* The quota of names, as a number.
LEMMA NamesCounted ==
    ASSUME NEW S \in SUBSET Name
    PROVE  Cardinality(S) \in Nat
<1>1. IsFiniteSet(Name)
  BY FS_Product, RegistryAssumption DEF Name
<1>. QED BY <1>1, FS_Subset, FS_CardinalityType

\* A catalog that is published keeps the invariant.
LEMMA PublishKeeps ==
    ASSUME RegistryInv, NEW e \in Extension, NEW D \in SUBSET Tool, NEW batch \in [D -> Schema],
           PublishCatalog(e, batch)
    PROVE  RegistryInv'
<1>. DEFINE new == Accepted(e, batch)
<1>1. /\ new \subseteq Name /\ new \subseteq {e} \X D
      /\ \A n \in new : /\ n[1] = e /\ n[2] \in D /\ batch[n[2]] \in Schema \ {BadSchema}
                        /\ (n \in DOMAIN fingerprints => fingerprints[n] = batch[n[2]])
  BY DEF Accepted, Name, Drifts
<1>2. /\ discovering[e] > maxPublished[e] /\ ~OverQuota(new)
      /\ tools' = [n \in Others(e) \cup new |->
                      IF n \in new THEN [gen |-> discovering[e], schema |-> batch[n[2]]] ELSE tools[n]]
      /\ withheldTools' = {n \in withheldTools : n[1] # e} \cup (({e} \X DOMAIN batch) \ new)
      /\ fingerprints' = [n \in DOMAIN fingerprints \cup new |->
                             IF n \in DOMAIN fingerprints THEN fingerprints[n] ELSE batch[n[2]]]
      /\ extGen' = [extGen EXCEPT ![e] = discovering[e]]
      /\ maxPublished' = [maxPublished EXCEPT ![e] = discovering[e]]
      /\ mgen' = mgen + 1
      /\ discovering' = [discovering EXCEPT ![e] = 0]
      /\ UNCHANGED <<leases, announced>>
  BY DEF PublishCatalog
<1>. HIDE DEF new
<1>3. /\ DOMAIN tools \subseteq DOMAIN fingerprints /\ DOMAIN fingerprints \subseteq Name
      /\ \A n \in DOMAIN tools : tools[n] \in [gen : 1 .. RegistryGens, schema : Schema \ {BadSchema}]
      /\ \A n \in DOMAIN tools : tools[n].gen = extGen[n[1]] /\ tools[n].schema = fingerprints[n]
      /\ withheldTools \subseteq Name /\ withheldTools \cap DOMAIN tools = {}
      /\ announced \in 0 .. mgen /\ mgen \in Nat
      /\ extGen \in [Extension -> 0 .. RegistryGens] /\ maxPublished \in [Extension -> 0 .. RegistryGens]
      /\ discovering \in [Extension -> 0 .. RegistryGens]
      /\ \A x \in Extension : extGen[x] \in {0, maxPublished[x]}
  BY DEF RegistryInv, RegistryTypeOK
<1>4. discovering[e] \in 1 .. RegistryGens
  BY <1>2, <1>3, RegistryAssumption
<1>5. DOMAIN tools' = Others(e) \cup new /\ Others(e) \subseteq DOMAIN tools
      /\ DOMAIN fingerprints' = DOMAIN fingerprints \cup new
  BY <1>2 DEF Others
<1>6. /\ \A n \in new : tools'[n] = [gen |-> discovering[e], schema |-> batch[n[2]]]
      /\ \A n \in Others(e) : n \notin new /\ n[1] # e /\ tools'[n] = tools[n]
  BY <1>1, <1>2, <1>5 DEF Others
<1>7. /\ \A n \in DOMAIN fingerprints : fingerprints'[n] = fingerprints[n]
      /\ \A n \in new : fingerprints'[n] = batch[n[2]]
  BY <1>1, <1>2
<1>8. /\ extGen' \in [Extension -> 0 .. RegistryGens] /\ maxPublished' \in [Extension -> 0 .. RegistryGens]
      /\ discovering' \in [Extension -> 0 .. RegistryGens] /\ mgen' \in Nat /\ announced' \in 0 .. mgen'
      /\ extGen'[e] = discovering[e] /\ maxPublished'[e] = discovering[e]
      /\ \A x \in Extension : x # e => extGen'[x] = extGen[x] /\ maxPublished'[x] = maxPublished[x]
  <2>1. 0 \in 0 .. RegistryGens /\ discovering[e] \in 0 .. RegistryGens
    BY <1>4, RegistryAssumption
  <2>2. mgen' \in Nat /\ announced' \in 0 .. mgen'
    BY <1>2, <1>3
  <2>. QED BY <1>2, <1>3, <2>1, <2>2
<1>9. RegistryTypeOK'
  <2>1. DOMAIN tools' \subseteq DOMAIN fingerprints' /\ DOMAIN fingerprints' \subseteq Name
    BY <1>1, <1>3, <1>5
  <2>2. \A n \in DOMAIN tools' : tools'[n] \in [gen : 1 .. RegistryGens, schema : Schema \ {BadSchema}]
    BY <1>1, <1>3, <1>4, <1>5, <1>6
  <2>3. withheldTools' \subseteq Name /\ withheldTools' \cap DOMAIN tools' = {}
    <3>1. DOMAIN batch = D /\ {e} \X D \subseteq Name
      BY DEF Name
    <3>2. withheldTools' \subseteq Name
      BY <1>2, <1>3, <3>1
    <3>3. \A n \in {e} \X D : n[1] = e
      OBVIOUS
    <3>4. ASSUME NEW n \in withheldTools', n \in DOMAIN tools' PROVE FALSE
      <4>1. CASE n \in new
        BY <4>1, <3>4, <1>1, <1>2
      <4>2. CASE n \in Others(e)
        BY <4>2, <3>4, <3>1, <3>3, <1>2, <1>3, <1>5, <1>6
      <4>. QED BY <3>4, <4>1, <4>2, <1>5
    <3>. QED BY <3>2, <3>4
  <2>4. \A x \in Extension : extGen'[x] \in {0, maxPublished'[x]} /\ discovering'[x] \in 0 .. RegistryGens
    BY <1>3, <1>8
  <2>5. \A n \in DOMAIN tools' : tools'[n].gen = extGen'[n[1]]
    <3>1. \A n \in Name : n[1] \in Extension
      BY DEF Name
    <3>2. \A n \in new : tools'[n].gen = extGen'[n[1]]
      <4>. SUFFICES ASSUME NEW n \in new PROVE tools'[n].gen = extGen'[n[1]]
        OBVIOUS
      <4>1. n[1] = e /\ tools'[n] = [gen |-> discovering[e], schema |-> batch[n[2]]]
        BY <1>1, <1>6
      <4>2. tools'[n].gen = discovering[e]
        BY <4>1
      <4>. QED BY <4>1, <4>2, <1>8
    <3>3. \A n \in Others(e) : tools'[n].gen = extGen'[n[1]]
      BY <3>1, <1>3, <1>5, <1>6, <1>8
    <3>. QED BY <3>2, <3>3, <1>5
  <2>. QED BY <2>1, <2>2, <2>3, <2>4, <2>5, <1>8 DEF RegistryTypeOK
<1>10. NamesBounded'
  <2>1. ~(Cardinality(DOMAIN fingerprints \cup new) > TotalMax)
    BY <1>2 DEF OverQuota
  <2>2. Cardinality(DOMAIN fingerprints \cup new) \in Nat
    BY <1>1, <1>3, NamesCounted
  <2>. QED BY <2>1, <2>2, <1>5, RegistryAssumption DEF NamesBounded
<1>11. \A n \in DOMAIN tools' : tools'[n].schema = fingerprints'[n]
  <2>1. \A n \in new : tools'[n].schema = fingerprints'[n]
    <3>. SUFFICES ASSUME NEW n \in new PROVE tools'[n].schema = fingerprints'[n]
      OBVIOUS
    <3>1. tools'[n] = [gen |-> discovering[e], schema |-> batch[n[2]]]
      BY <1>6
    <3>2. tools'[n].schema = batch[n[2]]
      BY <3>1
    <3>. QED BY <3>2, <1>7
  <2>2. \A n \in Others(e) : tools'[n].schema = fingerprints'[n]
    BY <1>3, <1>5, <1>6, <1>7
  <2>. QED BY <2>1, <2>2, <1>5
<1>12. \A l \in leases' : /\ l.name \in DOMAIN fingerprints' /\ fingerprints'[l.name] = l.schema
                          /\ l.gen \in 0 .. maxPublished'[l.name[1]]
  <2>. SUFFICES ASSUME NEW l \in leases
                PROVE  /\ l.name \in DOMAIN fingerprints' /\ fingerprints'[l.name] = l.schema
                       /\ l.gen \in 0 .. maxPublished'[l.name[1]]
    BY <1>2
  <2>1. l.name \in DOMAIN fingerprints /\ fingerprints[l.name] = l.schema /\ l.gen \in 0 .. maxPublished[l.name[1]]
    BY DEF RegistryInv
  <2>2. l.name[1] \in Extension
    BY <2>1, <1>3 DEF Name
  <2>3. l.gen \in 0 .. maxPublished'[l.name[1]]
    <3>1. CASE l.name[1] = e
      BY <3>1, <2>1, <1>2, <1>3, <1>8
    <3>2. CASE l.name[1] # e
      BY <3>2, <2>1, <2>2, <1>8
    <3>. QED BY <3>1, <3>2
  <2>. QED BY <2>1, <2>3, <1>5, <1>7
<1>. QED BY <1>8, <1>9, <1>10, <1>11, <1>12 DEF RegistryInv

\* So does one that is retired.
LEMMA RetireKeeps ==
    ASSUME RegistryInv, NEW e \in Extension, RetireCatalog(e)
    PROVE  RegistryInv'
<1>1. /\ tools' = [n \in Others(e) |-> tools[n]]
      /\ withheldTools' = {n \in withheldTools : n[1] # e}
      /\ extGen' = [extGen EXCEPT ![e] = 0]
      /\ mgen' = mgen + 1
      /\ UNCHANGED <<fingerprints, maxPublished, discovering, leases, announced>>
  BY DEF RetireCatalog
<1>2. /\ DOMAIN tools \subseteq DOMAIN fingerprints /\ DOMAIN fingerprints \subseteq Name
      /\ \A n \in DOMAIN tools : tools[n] \in [gen : 1 .. RegistryGens, schema : Schema \ {BadSchema}]
      /\ \A n \in DOMAIN tools : tools[n].gen = extGen[n[1]] /\ tools[n].schema = fingerprints[n]
      /\ withheldTools \subseteq Name /\ withheldTools \cap DOMAIN tools = {}
      /\ announced \in 0 .. mgen /\ mgen \in Nat
      /\ extGen \in [Extension -> 0 .. RegistryGens] /\ maxPublished \in [Extension -> 0 .. RegistryGens]
      /\ discovering \in [Extension -> 0 .. RegistryGens]
      /\ \A x \in Extension : extGen[x] \in {0, maxPublished[x]}
  BY DEF RegistryInv, RegistryTypeOK
<1>3. DOMAIN tools' = Others(e) /\ Others(e) \subseteq DOMAIN tools /\ \A n \in Others(e) : n[1] # e /\ tools'[n] = tools[n]
  BY <1>1 DEF Others
<1>4. /\ extGen' \in [Extension -> 0 .. RegistryGens] /\ mgen' \in Nat /\ announced' \in 0 .. mgen' /\ extGen'[e] = 0
      /\ \A x \in Extension : x # e => extGen'[x] = extGen[x]
  <2>1. 0 \in 0 .. RegistryGens
    BY RegistryAssumption
  <2>2. mgen' \in Nat /\ announced' \in 0 .. mgen'
    BY <1>1, <1>2
  <2>. QED BY <2>1, <2>2, <1>1, <1>2
<1>5. RegistryTypeOK'
  <2>1. \A n \in DOMAIN tools' : /\ tools'[n] \in [gen : 1 .. RegistryGens, schema : Schema \ {BadSchema}]
                                 /\ tools'[n].gen = extGen'[n[1]]
    <3>1. \A n \in Name : n[1] \in Extension
      BY DEF Name
    <3>. QED BY <3>1, <1>2, <1>3, <1>4
  <2>2. \A x \in Extension : extGen'[x] \in {0, maxPublished'[x]} /\ discovering'[x] \in 0 .. RegistryGens
    BY <1>1, <1>2, <1>4
  <2>3. /\ DOMAIN tools' \subseteq DOMAIN fingerprints' /\ DOMAIN fingerprints' \subseteq Name
        /\ withheldTools' \subseteq Name /\ withheldTools' \cap DOMAIN tools' = {}
    BY <1>1, <1>2, <1>3
  <2>. QED BY <2>1, <2>2, <2>3, <1>4 DEF RegistryTypeOK
<1>6. NamesBounded'
  BY <1>1 DEF NamesBounded, RegistryInv
<1>7. \A n \in DOMAIN tools' : tools'[n].schema = fingerprints'[n]
  BY <1>1, <1>2, <1>3
<1>. QED BY <1>1, <1>2, <1>4, <1>5, <1>6, <1>7 DEF RegistryInv

LEMMA RegistryAlways == RegistrySpec => []RegistryInv
<1>1. RegistryInit => RegistryInv
  <2>. SUFFICES ASSUME RegistryInit PROVE RegistryInv
    OBVIOUS
  <2>1. DOMAIN tools = {} /\ DOMAIN fingerprints = {}
    BY DEF RegistryInit
  <2>2. Cardinality({}) = 0
    BY FS_EmptySet
  <2>3. /\ extGen \in [Extension -> 0 .. RegistryGens] /\ maxPublished \in [Extension -> 0 .. RegistryGens]
        /\ discovering \in [Extension -> 0 .. RegistryGens] /\ mgen \in Nat /\ announced \in 0 .. mgen
    BY RegistryAssumption DEF RegistryInit
  <2>4. RegistryTypeOK
    BY <2>1, <2>3 DEF RegistryInit, RegistryTypeOK
  <2>5. NamesBounded
    BY <2>1, <2>2, RegistryAssumption DEF NamesBounded
  <2>. QED BY <2>1, <2>3, <2>4, <2>5 DEF RegistryInit, RegistryInv
<1>2. RegistryInv /\ [RegistryNext]_registryVars => RegistryInv'
  <2>. SUFFICES ASSUME RegistryInv, [RegistryNext]_registryVars PROVE RegistryInv'
    OBVIOUS
  <2>1. ASSUME NEW e \in Extension, Discover(e) \/ DiscoveryFails(e) PROVE RegistryInv'
    <3>1. UNCHANGED <<tools, withheldTools, extGen, mgen, fingerprints, maxPublished, leases, announced>>
      BY <2>1 DEF Discover, DiscoveryFails
    <3>2. discovering' \in [Extension -> 0 .. RegistryGens]
      <4>1. discovering \in [Extension -> 0 .. RegistryGens] /\ maxPublished[e] \in 0 .. RegistryGens
        BY DEF RegistryInv
      <4>2. 0 \in 0 .. RegistryGens
        BY RegistryAssumption
      <4>3. CASE Discover(e)
        <5>1. NextCatalogGeneration(e) \in 0 .. RegistryGens
          BY <4>1, <4>3, RegistryAssumption DEF Discover, NextCatalogGeneration
        <5>. QED BY <4>1, <4>3, <5>1 DEF Discover
      <4>4. CASE DiscoveryFails(e)
        BY <4>1, <4>2, <4>4 DEF DiscoveryFails
      <4>. QED BY <2>1, <4>3, <4>4
    <3>3. RegistryTypeOK'
      BY <3>1, <3>2 DEF RegistryInv, RegistryTypeOK
    <3>. QED BY <3>1, <3>2, <3>3 DEF RegistryInv, NamesBounded
  <2>2. ASSUME NEW n \in Name, CreateLease(n) PROVE RegistryInv'
    <3>1. /\ n \in DOMAIN tools /\ leases' = leases \cup {[name |-> n, gen |-> tools[n].gen, schema |-> tools[n].schema]}
          /\ UNCHANGED <<tools, withheldTools, extGen, mgen, fingerprints, maxPublished, discovering, announced>>
      BY <2>2 DEF CreateLease
    <3>2. /\ n \in DOMAIN fingerprints /\ fingerprints[n] = tools[n].schema
          /\ tools[n].gen = extGen[n[1]] /\ n[1] \in Extension
      BY <3>1 DEF RegistryInv, RegistryTypeOK, Name
    <3>3. tools[n].gen \in 0 .. maxPublished[n[1]]
      <4>1. extGen[n[1]] \in {0, maxPublished[n[1]]} /\ maxPublished[n[1]] \in 0 .. RegistryGens
        BY <3>2 DEF RegistryInv, RegistryTypeOK
      <4>. QED BY <4>1, <3>2
    <3>4. \A l \in leases' : /\ l.name \in DOMAIN fingerprints /\ fingerprints[l.name] = l.schema
                             /\ l.gen \in 0 .. maxPublished[l.name[1]]
      BY <3>1, <3>2, <3>3 DEF RegistryInv
    <3>5. RegistryTypeOK'
      BY <3>1 DEF RegistryInv, RegistryTypeOK
    <3>. QED BY <3>1, <3>4, <3>5 DEF RegistryInv, NamesBounded
  <2>3. CASE NotifyCatalogChanges
    <3>1. announced' = mgen /\ UNCHANGED <<tools, withheldTools, extGen, mgen, fingerprints, maxPublished, discovering, leases>>
      BY <2>3 DEF NotifyCatalogChanges
    <3>2. announced' \in 0 .. mgen'
      BY <3>1 DEF RegistryInv
    <3>3. RegistryTypeOK'
      BY <3>1, <3>2 DEF RegistryInv, RegistryTypeOK
    <3>. QED BY <3>1, <3>3 DEF RegistryInv, NamesBounded
  <2>4. CASE UNCHANGED registryVars
    BY <2>4 DEF registryVars, RegistryInv, RegistryTypeOK, NamesBounded
  <2>. QED BY <2>1, <2>2, <2>3, <2>4, PublishKeeps, RetireKeeps DEF RegistryNext
<1>. QED BY <1>1, <1>2, PTL DEF RegistrySpec

\* For any extensions, tools and schemas: a name that was leased keeps the
\* schema of its lease, through catalogs that are retired and published
\* again, and the names stay within the quota (publish_extension_catalog).
THEOREM RegistryIsSound == RegistrySpec => []RegistrySound
<1>1. RegistryInv => RegistrySound
  <2>. SUFFICES ASSUME RegistryInv PROVE RegistrySound
    OBVIOUS
  <2>1. SchemaKept
    BY DEF RegistryInv, SchemaKept
  <2>. QED BY <2>1 DEF RegistryInv, RegistrySound
<1>. QED BY <1>1, RegistryAlways, PTL

\* A lease that has become invalid stays so: a name is published again under
\* a higher generation only (next_catalog_generation, is_lease_valid).
THEOREM LeasesStaySpent == RegistrySpec => [][LeaseSpent]_registryVars
<1>1. RegistryInv /\ [RegistryNext]_registryVars => [LeaseSpent]_registryVars
  <2>. SUFFICES ASSUME RegistryInv, RegistryNext, NEW l \in leases, l.name \in DOMAIN tools',
                       tools'[l.name] = [gen |-> l.gen, schema |-> l.schema]
                PROVE  l.name \in DOMAIN tools /\ tools[l.name] = [gen |-> l.gen, schema |-> l.schema]
    BY DEF LeaseSpent, IsLeaseValid
  <2>1. CASE tools' = tools
    BY <2>1
  <2>2. ASSUME NEW e \in Extension, RetireCatalog(e)
        PROVE  l.name \in DOMAIN tools /\ tools[l.name] = [gen |-> l.gen, schema |-> l.schema]
    BY <2>2 DEF RetireCatalog, Others
  <2>3. ASSUME NEW e \in Extension, NEW D \in SUBSET Tool, NEW batch \in [D -> Schema], PublishCatalog(e, batch)
        PROVE  l.name \in DOMAIN tools /\ tools[l.name] = [gen |-> l.gen, schema |-> l.schema]
    <3>. DEFINE new == Accepted(e, batch)
    <3>1. \A n \in new : n[1] = e
      BY DEF Accepted
    <3>2. /\ discovering[e] > maxPublished[e]
          /\ tools' = [n \in Others(e) \cup new |->
                          IF n \in new THEN [gen |-> discovering[e], schema |-> batch[n[2]]] ELSE tools[n]]
      BY <2>3 DEF PublishCatalog
    <3>3. discovering[e] \in Int /\ maxPublished[e] \in Int
      BY DEF RegistryInv
    <3>. HIDE DEF new
    <3>4. CASE l.name \in new
      <4>1. tools'[l.name].gen = discovering[e]
        BY <3>2, <3>4
      <4>2. l.gen = discovering[e]
        BY <4>1
      <4>3. l.gen \in 0 .. maxPublished[e]
        BY <3>1, <3>4 DEF RegistryInv
      <4>. QED BY <3>2, <3>3, <4>2, <4>3
    <3>5. CASE l.name \notin new
      BY <3>2, <3>5 DEF Others
    <3>. QED BY <3>4, <3>5
  <2>. QED BY <2>1, <2>2, <2>3 DEF RegistryNext, NotifyCatalogChanges, Discover, DiscoveryFails, CreateLease
<1>. QED BY <1>1, RegistryAlways, PTL DEF RegistrySpec
-----------------------------------------------------------------------------
\* Guarded calls.

\* How a count of calls changes when one call moves.
LEMMA CallCount ==
    ASSUME NEW c \in Call, NEW S \in SUBSET Call, NEW T \in SUBSET Call,
           \A d \in Call : d # c => (d \in S <=> d \in T)
    PROVE  /\ Cardinality(S) \in Nat /\ Cardinality(T) \in Nat
           /\ c \in T /\ c \notin S => Cardinality(T) = Cardinality(S) + 1
           /\ c \in S /\ c \notin T => Cardinality(T) = Cardinality(S) - 1
           /\ (c \in S <=> c \in T) => T = S
<1>1. IsFiniteSet(S) /\ IsFiniteSet(T) /\ Cardinality(S) \in Nat /\ Cardinality(T) \in Nat
  BY FS_Subset, FS_CardinalityType, CallsAssumption
<1>2. ASSUME c \in T, c \notin S PROVE Cardinality(T) = Cardinality(S) + 1
  <2>1. T = S \cup {c}
    BY <1>2
  <2>. QED BY <2>1, <1>1, <1>2, FS_AddElement
<1>3. ASSUME c \in S, c \notin T PROVE Cardinality(T) = Cardinality(S) - 1
  <2>1. T = S \ {c}
    BY <1>3
  <2>. QED BY <2>1, <1>1, <1>3, FS_RemoveElement
<1>4. ASSUME c \in S <=> c \in T PROVE T = S
  BY <1>4
<1>. QED BY <1>1, <1>2, <1>3, <1>4


\* What a step of a call changes: that call, and the slots it takes or returns.
CallFrame(c) ==
    /\ \E p \in {"idle", "global", "local", "begin", "prepared", "barrier", "calling", "record", "finish", "end"} :
          cphase' = [cphase EXCEPT ![c] = p]
    /\ mutates' \in [Call -> BOOLEAN] /\ sent' \in [Call -> BOOLEAN] /\ effect' \in [Call -> BOOLEAN]
    /\ lease' \in [Call -> 0 .. CatalogMax]
    /\ entry' \in [Call -> {"none", "prepared", "may_dispatch", "not_dispatched", "uncertain", "succeeded"}]
    /\ reported' \in [Call -> {"none", "rejected", "ok", "failed", "timeout", "uncertain"}]
    /\ cat' = cat /\ catLive' = catLive /\ routable' \in BOOLEAN
    /\ \A d \in Call : d # c => /\ mutates'[d] = mutates[d] /\ sent'[d] = sent[d] /\ effect'[d] = effect[d]
                                /\ entry'[d] = entry[d] /\ reported'[d] = reported[d]
One(b) == IF b THEN 1 ELSE 0
SlotsMove(c) ==
    /\ globalFree' \in Nat /\ globalFree' + One(HoldsGlobal(cphase'[c])) = globalFree + One(HoldsGlobal(cphase[c]))
    /\ localFree' \in Nat /\ localFree' + One(HoldsLocal(cphase'[c])) = localFree + One(HoldsLocal(cphase[c]))

\* A semaphore and its holders, when one call moves.
LEMMA SlotCount ==
    ASSUME NEW c \in Call, NEW S \in SUBSET Call, NEW T \in SUBSET Call,
           \A d \in Call : d # c => (d \in S <=> d \in T),
           NEW limit \in Nat, NEW free \in Nat, NEW after \in Nat,
           free + Cardinality(S) = limit, after + One(c \in T) = free + One(c \in S)
    PROVE  after \in 0 .. limit /\ after + Cardinality(T) = limit
<1>1. Cardinality(S) \in Nat /\ Cardinality(T) \in Nat
  BY CallCount
<1>2. CASE c \in T /\ c \notin S
  <2>1. Cardinality(T) = Cardinality(S) + 1
    BY <1>2, CallCount
  <2>. QED BY <1>1, <1>2, <2>1 DEF One
<1>3. CASE c \in S /\ c \notin T
  <2>1. Cardinality(T) = Cardinality(S) - 1
    BY <1>3, CallCount
  <2>. QED BY <1>1, <1>3, <2>1 DEF One
<1>4. CASE c \in S <=> c \in T
  <2>1. T = S
    BY <1>4, CallCount
  <2>. QED BY <1>1, <1>4, <2>1 DEF One
<1>. QED BY <1>2, <1>3, <1>4

\* A step of a call keeps the invariant when it does for that call.
LEMMA CallKept ==
    ASSUME CallsInv, NEW c \in Call, CallFrame(c), SlotsMove(c), CallOK(c)', UnresolvedBound'
    PROVE  CallsInv'
<1>. DEFINE G == {d \in Call : HoldsGlobal(cphase[d])}
            L == {d \in Call : HoldsLocal(cphase[d])}
<1>1. PICK p \in {"idle", "global", "local", "begin", "prepared", "barrier", "calling", "record", "finish", "end"} :
         cphase' = [cphase EXCEPT ![c] = p]
  BY DEF CallFrame
<1>2. cphase \in [Call -> {"idle", "global", "local", "begin", "prepared", "barrier", "calling", "record", "finish", "end"}]
  BY DEF CallsInv, CallsTypeOK
<1>3. cphase' \in [Call -> {"idle", "global", "local", "begin", "prepared", "barrier", "calling", "record", "finish", "end"}]
      /\ \A d \in Call : d # c => cphase'[d] = cphase[d]
  BY <1>1, <1>2
<1>4. \A d \in Call : CallOK(d)'
  <2>. SUFFICES ASSUME NEW d \in Call, d # c PROVE CallOK(d)'
    OBVIOUS
  <2>1. CallOK(d)
    BY DEF CallsInv
  <2>2. /\ cphase'[d] = cphase[d] /\ mutates'[d] = mutates[d] /\ sent'[d] = sent[d] /\ effect'[d] = effect[d]
        /\ entry'[d] = entry[d] /\ reported'[d] = reported[d]
    BY <1>3 DEF CallFrame
  <2>. QED BY <2>1, <2>2 DEF CallOK
<1>5. globalFree' \in 0 .. GlobalMax /\ globalFree' + Cardinality(G') = GlobalMax
  <2>1. G \in SUBSET Call /\ G' \in SUBSET Call /\ (\A d \in Call : d # c => (d \in G <=> d \in G'))
        /\ (c \in G <=> HoldsGlobal(cphase[c])) /\ (c \in G' <=> HoldsGlobal(cphase'[c]))
    BY <1>3
  <2>2. globalFree + Cardinality(G) = GlobalMax /\ globalFree \in Nat /\ GlobalMax \in Nat
    BY CallsAssumption DEF CallsInv, CallsTypeOK, SlotsReturned
  <2>3. globalFree' \in Nat /\ globalFree' + One(HoldsGlobal(cphase'[c])) = globalFree + One(HoldsGlobal(cphase[c]))
    BY DEF SlotsMove
  <2>. HIDE DEF G
  <2>4. globalFree' + One(c \in G') = globalFree + One(c \in G)
    BY <2>1, <2>3 DEF One
  <2>. QED BY <2>1, <2>2, <2>3, <2>4, SlotCount
<1>6. localFree' \in 0 .. LocalMax /\ localFree' + Cardinality(L') = LocalMax
  <2>1. L \in SUBSET Call /\ L' \in SUBSET Call /\ (\A d \in Call : d # c => (d \in L <=> d \in L'))
        /\ (c \in L <=> HoldsLocal(cphase[c])) /\ (c \in L' <=> HoldsLocal(cphase'[c]))
    BY <1>3
  <2>2. localFree + Cardinality(L) = LocalMax /\ localFree \in Nat /\ LocalMax \in Nat
    BY CallsAssumption DEF CallsInv, CallsTypeOK, SlotsReturned
  <2>3. localFree' \in Nat /\ localFree' + One(HoldsLocal(cphase'[c])) = localFree + One(HoldsLocal(cphase[c]))
    BY DEF SlotsMove
  <2>. HIDE DEF L
  <2>4. localFree' + One(c \in L') = localFree + One(c \in L)
    BY <2>1, <2>3 DEF One
  <2>. QED BY <2>1, <2>2, <2>3, <2>4, SlotCount
<1>7. SlotsReturned'
  BY <1>5, <1>6 DEF SlotsReturned
<1>8. CallsTypeOK'
  <2>1. cat \in 1 .. CatalogMax /\ catLive \in BOOLEAN
    BY DEF CallsInv, CallsTypeOK
  <2>. QED BY <2>1, <1>3, <1>5, <1>6 DEF CallFrame, CallsTypeOK
<1>. QED BY <1>4, <1>7, <1>8 DEF CallsInv

\* The unresolved mutations stay within the quota when none is added.
LEMMA UnresolvedKept ==
    ASSUME CallsInv, NEW c \in Call, CallFrame(c), entry'[c] \in {"prepared", "may_dispatch", "uncertain"} =>
                     entry[c] \in {"prepared", "may_dispatch", "uncertain"}
    PROVE  UnresolvedBound'
<1>1. Unresolved' \subseteq Unresolved /\ Unresolved \subseteq Call
  BY DEF CallFrame, Unresolved
<1>2. IsFiniteSet(Unresolved) /\ Cardinality(Unresolved) \in Nat
  BY <1>1, FS_Subset, FS_CardinalityType, CallsAssumption
<1>3. Cardinality(Unresolved') <= Cardinality(Unresolved) /\ Cardinality(Unresolved') \in Nat
  BY <1>1, <1>2, FS_Subset, FS_CardinalityType
<1>4. Cardinality(Unresolved) <= UnresolvedMax
  BY DEF CallsInv, UnresolvedBound
<1>. QED BY <1>2, <1>3, <1>4, CallsAssumption DEF UnresolvedBound

\* Every step of a call keeps the invariant: one step per action.
LEMMA CallStepKeeps ==
    ASSUME CallsInv, NEW c \in Call,
           CallStep(c) \/ ProviderExecutes(c) \/ \E m \in BOOLEAN : CreateCallLease(c, m) \/ Answer(c, m)
    PROVE  CallsInv'
<1>0. CallsTypeOK /\ CallOK(c)
  BY DEF CallsInv
<1>00. globalFree \in Nat /\ localFree \in Nat /\ CatalogMax \in Nat
  BY <1>0, CallsAssumption DEF CallsTypeOK
<1>1. CASE Guard(c)
  <2>1. CallFrame(c)
    BY <1>0, <1>1 DEF CallFrame, CallsTypeOK, Guard, providerVars, End, To, semVars
  <2>2. CallOK(c)'
    BY <1>0, <1>1 DEF CallOK, CallsTypeOK, Guard, providerVars, End, To, semVars
  <2>3. SlotsMove(c)
    BY <1>0, <1>00, <1>1 DEF SlotsMove, One, HoldsGlobal, HoldsLocal, CallsTypeOK, Guard, providerVars, End, To, semVars
  <2>4. UnresolvedBound'
    <3>1. entry'[c] \in {"prepared", "may_dispatch", "uncertain"} => entry[c] \in {"prepared", "may_dispatch", "uncertain"}
      BY <1>0, <1>1 DEF CallOK, CallsTypeOK, Guard
    <3>. QED BY <2>1, <3>1, UnresolvedKept
  <2>. QED BY <2>1, <2>2, <2>3, <2>4, CallKept
<1>2. CASE AcquireGlobal(c)
  <2>1. CallFrame(c)
    BY <1>0, <1>2 DEF CallFrame, CallsTypeOK, AcquireGlobal, providerVars
  <2>2. CallOK(c)'
    BY <1>0, <1>2 DEF CallOK, CallsTypeOK, AcquireGlobal, providerVars
  <2>3. SlotsMove(c)
    BY <1>0, <1>00, <1>2 DEF SlotsMove, One, HoldsGlobal, HoldsLocal, CallsTypeOK, AcquireGlobal, providerVars
  <2>4. UnresolvedBound'
    <3>1. entry'[c] \in {"prepared", "may_dispatch", "uncertain"} => entry[c] \in {"prepared", "may_dispatch", "uncertain"}
      BY <1>0, <1>2 DEF CallOK, CallsTypeOK, AcquireGlobal
    <3>. QED BY <2>1, <3>1, UnresolvedKept
  <2>. QED BY <2>1, <2>2, <2>3, <2>4, CallKept
<1>3. CASE AcquireLocal(c)
  <2>1. CallFrame(c)
    BY <1>0, <1>3 DEF CallFrame, CallsTypeOK, AcquireLocal, providerVars, End, To, semVars
  <2>2. CallOK(c)'
    BY <1>0, <1>3 DEF CallOK, CallsTypeOK, AcquireLocal, providerVars, End, To, semVars
  <2>3. SlotsMove(c)
    BY <1>0, <1>00, <1>3 DEF SlotsMove, One, HoldsGlobal, HoldsLocal, CallsTypeOK, AcquireLocal, providerVars, End, To, semVars
  <2>4. UnresolvedBound'
    <3>1. entry'[c] \in {"prepared", "may_dispatch", "uncertain"} => entry[c] \in {"prepared", "may_dispatch", "uncertain"}
      BY <1>0, <1>3 DEF CallOK, CallsTypeOK, AcquireLocal
    <3>. QED BY <2>1, <3>1, UnresolvedKept
  <2>. QED BY <2>1, <2>2, <2>3, <2>4, CallKept
<1>4. CASE Begin(c)
  <2>1. CallFrame(c)
    BY <1>0, <1>4 DEF CallFrame, CallsTypeOK, Begin, providerVars, End, To, semVars
  <2>2. CallOK(c)'
    BY <1>0, <1>4 DEF CallOK, CallsTypeOK, Begin, providerVars, End, To, semVars
  <2>3. SlotsMove(c)
    BY <1>0, <1>00, <1>4 DEF SlotsMove, One, HoldsGlobal, HoldsLocal, CallsTypeOK, Begin, providerVars, End, To, semVars
  <2>4. UnresolvedBound'
    <3>1. CASE Capacity(c)
      <4>1. mutates[c] /\ Cardinality(Unresolved) < UnresolvedMax
        BY <1>0, <1>4, <3>1 DEF CallOK, Begin, Capacity
      <4>2. Unresolved' \subseteq Unresolved \cup {c} /\ Unresolved \subseteq Call
        BY <2>1 DEF CallFrame, Unresolved
      <4>3. IsFiniteSet(Unresolved) /\ Cardinality(Unresolved) \in Nat
        BY <4>2, FS_Subset, FS_CardinalityType, CallsAssumption
      <4>4. IsFiniteSet(Unresolved \cup {c}) /\ Cardinality(Unresolved \cup {c}) \in Nat
            /\ Cardinality(Unresolved \cup {c}) <= Cardinality(Unresolved) + 1
        BY <4>3, FS_AddElement, FS_CardinalityType
      <4>5. Cardinality(Unresolved') \in Nat /\ Cardinality(Unresolved') <= Cardinality(Unresolved \cup {c})
        BY <4>2, <4>4, FS_Subset, FS_CardinalityType
      <4>. QED BY <4>1, <4>3, <4>4, <4>5, CallsAssumption DEF UnresolvedBound
    <3>2. CASE ~Capacity(c)
      <4>1. entry' = entry
        BY <1>4, <3>2 DEF Begin
      <4>. QED BY <4>1, <2>1, UnresolvedKept
    <3>. QED BY <3>1, <3>2
  <2>. QED BY <2>1, <2>2, <2>3, <2>4, CallKept
<1>5. CASE Stale(c)
  <2>1. CallFrame(c)
    BY <1>0, <1>5 DEF CallFrame, CallsTypeOK, Stale, providerVars, End, To, semVars
  <2>2. CallOK(c)'
    BY <1>0, <1>5 DEF CallOK, CallsTypeOK, Stale, providerVars, End, To, semVars
  <2>3. SlotsMove(c)
    BY <1>0, <1>00, <1>5 DEF SlotsMove, One, HoldsGlobal, HoldsLocal, CallsTypeOK, Stale, providerVars, End, To, semVars
  <2>4. UnresolvedBound'
    <3>1. entry'[c] \in {"prepared", "may_dispatch", "uncertain"} => entry[c] \in {"prepared", "may_dispatch", "uncertain"}
      BY <1>0, <1>5 DEF CallOK, CallsTypeOK, Stale
    <3>. QED BY <2>1, <3>1, UnresolvedKept
  <2>. QED BY <2>1, <2>2, <2>3, <2>4, CallKept
<1>6. CASE Checkpoint(c)
  <2>1. CallFrame(c)
    BY <1>0, <1>6 DEF CallFrame, CallsTypeOK, Checkpoint, providerVars, End, To, semVars
  <2>2. CallOK(c)'
    BY <1>0, <1>6 DEF CallOK, CallsTypeOK, Checkpoint, providerVars, End, To, semVars
  <2>3. SlotsMove(c)
    BY <1>0, <1>00, <1>6 DEF SlotsMove, One, HoldsGlobal, HoldsLocal, CallsTypeOK, Checkpoint, providerVars, End, To, semVars
  <2>4. UnresolvedBound'
    <3>1. entry'[c] \in {"prepared", "may_dispatch", "uncertain"} => entry[c] \in {"prepared", "may_dispatch", "uncertain"}
      BY <1>0, <1>6 DEF CallOK, CallsTypeOK, Checkpoint
    <3>. QED BY <2>1, <3>1, UnresolvedKept
  <2>. QED BY <2>1, <2>2, <2>3, <2>4, CallKept
<1>7. CASE Dispatch(c)
  <2>1. CallFrame(c)
    BY <1>0, <1>7 DEF CallFrame, CallsTypeOK, Dispatch, providerVars, End, To, semVars
  <2>2. CallOK(c)'
    BY <1>0, <1>7 DEF CallOK, CallsTypeOK, Dispatch, providerVars, End, To, semVars
  <2>3. SlotsMove(c)
    BY <1>0, <1>00, <1>7 DEF SlotsMove, One, HoldsGlobal, HoldsLocal, CallsTypeOK, Dispatch, providerVars, End, To, semVars
  <2>4. UnresolvedBound'
    <3>1. entry'[c] \in {"prepared", "may_dispatch", "uncertain"} => entry[c] \in {"prepared", "may_dispatch", "uncertain"}
      BY <1>0, <1>7 DEF CallOK, CallsTypeOK, Dispatch
    <3>. QED BY <2>1, <3>1, UnresolvedKept
  <2>. QED BY <2>1, <2>2, <2>3, <2>4, CallKept
<1>8. CASE RecordCallUncertain(c)
  <2>1. CallFrame(c)
    BY <1>0, <1>8 DEF CallFrame, CallsTypeOK, RecordCallUncertain, providerVars, End, To, semVars
  <2>2. CallOK(c)'
    BY <1>0, <1>8 DEF CallOK, CallsTypeOK, RecordCallUncertain, providerVars, End, To, semVars
  <2>3. SlotsMove(c)
    BY <1>0, <1>00, <1>8 DEF SlotsMove, One, HoldsGlobal, HoldsLocal, CallsTypeOK, RecordCallUncertain, providerVars, End, To, semVars
  <2>4. UnresolvedBound'
    <3>1. entry'[c] \in {"prepared", "may_dispatch", "uncertain"} => entry[c] \in {"prepared", "may_dispatch", "uncertain"}
      BY <1>0, <1>8 DEF CallOK, CallsTypeOK, RecordCallUncertain
    <3>. QED BY <2>1, <3>1, UnresolvedKept
  <2>. QED BY <2>1, <2>2, <2>3, <2>4, CallKept
<1>9. CASE FinishCall(c)
  <2>1. CallFrame(c)
    BY <1>0, <1>9 DEF CallFrame, CallsTypeOK, FinishCall, providerVars, End, To, semVars
  <2>2. CallOK(c)'
    BY <1>0, <1>9 DEF CallOK, CallsTypeOK, FinishCall, providerVars, End, To, semVars
  <2>3. SlotsMove(c)
    BY <1>0, <1>00, <1>9 DEF SlotsMove, One, HoldsGlobal, HoldsLocal, CallsTypeOK, FinishCall, providerVars, End, To, semVars
  <2>4. UnresolvedBound'
    <3>1. entry'[c] \in {"prepared", "may_dispatch", "uncertain"} => entry[c] \in {"prepared", "may_dispatch", "uncertain"}
      BY <1>0, <1>9 DEF CallOK, CallsTypeOK, FinishCall
    <3>. QED BY <2>1, <3>1, UnresolvedKept
  <2>. QED BY <2>1, <2>2, <2>3, <2>4, CallKept
<1>10. CASE Expire(c)
  <2>1. CallFrame(c)
    BY <1>0, <1>10 DEF CallFrame, CallsTypeOK, Expire, providerVars, End, To, semVars
  <2>2. CallOK(c)'
    BY <1>0, <1>10 DEF CallOK, CallsTypeOK, Expire, providerVars, End, To, semVars
  <2>3. SlotsMove(c)
    BY <1>0, <1>00, <1>10 DEF SlotsMove, One, HoldsGlobal, HoldsLocal, CallsTypeOK, Expire, providerVars, End, To, semVars
  <2>4. UnresolvedBound'
    <3>1. entry'[c] \in {"prepared", "may_dispatch", "uncertain"} => entry[c] \in {"prepared", "may_dispatch", "uncertain"}
      BY <1>0, <1>10 DEF CallOK, CallsTypeOK, Expire
    <3>. QED BY <2>1, <3>1, UnresolvedKept
  <2>. QED BY <2>1, <2>2, <2>3, <2>4, CallKept
<1>11. CASE ProviderExecutes(c)
  <2>1. CallFrame(c)
    BY <1>0, <1>11 DEF CallFrame, CallsTypeOK, ProviderExecutes, providerVars, semVars
  <2>2. CallOK(c)'
    BY <1>0, <1>11 DEF CallOK, CallsTypeOK, ProviderExecutes, providerVars, semVars
  <2>3. SlotsMove(c)
    BY <1>0, <1>00, <1>11 DEF SlotsMove, One, HoldsGlobal, HoldsLocal, CallsTypeOK, ProviderExecutes, providerVars, semVars
  <2>4. UnresolvedBound'
    <3>1. entry'[c] \in {"prepared", "may_dispatch", "uncertain"} => entry[c] \in {"prepared", "may_dispatch", "uncertain"}
      BY <1>0, <1>11 DEF CallOK, CallsTypeOK, ProviderExecutes
    <3>. QED BY <2>1, <3>1, UnresolvedKept
  <2>. QED BY <2>1, <2>2, <2>3, <2>4, CallKept
<1>12. ASSUME NEW m \in BOOLEAN, CreateCallLease(c, m) PROVE CallsInv'
  <2>1. CallFrame(c)
    BY <1>0, <1>12 DEF CallFrame, CallsTypeOK, CreateCallLease, providerVars, semVars
  <2>2. CallOK(c)'
    BY <1>0, <1>12 DEF CallOK, CallsTypeOK, CreateCallLease, providerVars, semVars
  <2>3. SlotsMove(c)
    BY <1>0, <1>00, <1>12 DEF SlotsMove, One, HoldsGlobal, HoldsLocal, CallsTypeOK, CreateCallLease, providerVars, semVars
  <2>4. UnresolvedBound'
    <3>1. entry'[c] \in {"prepared", "may_dispatch", "uncertain"} => entry[c] \in {"prepared", "may_dispatch", "uncertain"}
      BY <1>0, <1>12 DEF CallOK, CallsTypeOK, CreateCallLease
    <3>. QED BY <2>1, <3>1, UnresolvedKept
  <2>. QED BY <2>1, <2>2, <2>3, <2>4, CallKept
<1>13. ASSUME NEW m \in BOOLEAN, Answer(c, m) PROVE CallsInv'
  <2>1. CallFrame(c)
    BY <1>0, <1>13 DEF CallFrame, CallsTypeOK, Answer, providerVars, End, To, semVars
  <2>2. CallOK(c)'
    BY <1>0, <1>13 DEF CallOK, CallsTypeOK, Answer, providerVars, End, To, semVars
  <2>3. SlotsMove(c)
    BY <1>0, <1>00, <1>13 DEF SlotsMove, One, HoldsGlobal, HoldsLocal, CallsTypeOK, Answer, providerVars, End, To, semVars
  <2>4. UnresolvedBound'
    <3>1. entry'[c] \in {"prepared", "may_dispatch", "uncertain"} => entry[c] \in {"prepared", "may_dispatch", "uncertain"}
      BY <1>0, <1>13 DEF CallOK, CallsTypeOK, Answer
    <3>. QED BY <2>1, <3>1, UnresolvedKept
  <2>. QED BY <2>1, <2>2, <2>3, <2>4, CallKept
<1>. QED BY <1>1, <1>2, <1>3, <1>4, <1>5, <1>6, <1>7, <1>8, <1>9, <1>10, <1>11, <1>12, <1>13 DEF CallStep

LEMMA CallsAlways == CallsSpec => []CallsInv
<1>1. CallsInit => CallsInv
  <2>. SUFFICES ASSUME CallsInit PROVE CallsInv
    OBVIOUS
  <2>1. CallsTypeOK
    BY CallsAssumption DEF CallsInit, CallsTypeOK
  <2>2. \A c \in Call : CallOK(c)
    BY DEF CallsInit, CallOK
  <2>3. SlotsReturned
    <3>1. {c \in Call : HoldsGlobal(cphase[c])} = {} /\ {c \in Call : HoldsLocal(cphase[c])} = {}
      BY DEF CallsInit, HoldsGlobal, HoldsLocal
    <3>2. Cardinality({}) = 0
      BY FS_EmptySet
    <3>. QED BY <3>1, <3>2, CallsAssumption DEF SlotsReturned, CallsInit
  <2>4. UnresolvedBound
    <3>1. Unresolved = {}
      BY DEF CallsInit, Unresolved
    <3>2. Cardinality({}) = 0
      BY FS_EmptySet
    <3>. QED BY <3>1, <3>2, CallsAssumption DEF UnresolvedBound
  <2>. QED BY <2>1, <2>2, <2>3, <2>4 DEF CallsInv
<1>2. CallsInv /\ [CallsNext]_callVars => CallsInv'
  <2>. SUFFICES ASSUME CallsInv, [CallsNext]_callVars PROVE CallsInv'
    OBVIOUS
  <2>1. CASE \E c \in Call : \/ CallStep(c) \/ ProviderExecutes(c)
                            \/ \E m \in BOOLEAN : CreateCallLease(c, m) \/ Answer(c, m)
    BY <2>1, CallStepKeeps
  <2>2. CASE Retire \/ Degrade \/ Republish \/ UNCHANGED callVars
    <3>1. UNCHANGED <<cphase, mutates, lease, entry, sent, effect, reported, semVars>>
      BY <2>2 DEF Retire, Degrade, Republish, callVars, semVars
    <3>2. cat' \in 1 .. CatalogMax /\ catLive' \in BOOLEAN /\ routable' \in BOOLEAN
      <4>1. cat \in 1 .. CatalogMax /\ catLive \in BOOLEAN /\ routable \in BOOLEAN
        BY DEF CallsInv, CallsTypeOK
      <4>2. cat' \in 1 .. CatalogMax
        BY <2>2, <4>1, CallsAssumption DEF Retire, Degrade, Republish, callVars
      <4>. QED BY <2>2, <4>1, <4>2 DEF Retire, Degrade, Republish, callVars
    <3>3. CallsTypeOK'
      BY <3>1, <3>2 DEF CallsInv, CallsTypeOK, semVars
    <3>4. \A c \in Call : CallOK(c)'
      BY <3>1 DEF CallsInv, CallOK
    <3>5. SlotsReturned'
      BY <3>1 DEF CallsInv, SlotsReturned, semVars
    <3>6. UnresolvedBound'
      BY <3>1 DEF CallsInv, UnresolvedBound, Unresolved
    <3>. QED BY <3>3, <3>4, <3>5, <3>6 DEF CallsInv
  <2>. QED BY <2>1, <2>2 DEF CallsNext
<1>. QED BY <1>1, <1>2, PTL DEF CallsSpec

\* For any number of calls and any limits: an effect of a mutation is in the
\* journal, what a caller was told stays true, every slot returns, and the
\* unresolved mutations stay within their quota, though the quota was checked
\* before the call waited (execute_guarded_call).
THEOREM CallsAreSound == CallsSpec => []CallsSound
<1>1. CallsInv => CallsSound
  <2>. SUFFICES ASSUME CallsInv PROVE CallsSound
    OBVIOUS
  <2>1. CallsTypeOK /\ SlotsReturned /\ UnresolvedBound /\ \A c \in Call : CallOK(c)
    BY DEF CallsInv
  <2>2. EffectIsDurable
    BY <2>1 DEF CallOK, EffectIsDurable
  <2>3. ReportsTrue
    BY <2>1 DEF CallOK, ReportsTrue, CallsTypeOK
  <2>. QED BY <2>1, <2>2, <2>3 DEF CallsSound
<1>. QED BY <1>1, CallsAlways, PTL

\* No request goes out under a lease of another catalog, or to an owner that
\* is not routable, whatever happened while its call waited.
THEOREM SentUnderItsLease == CallsSpec => [][SentByLease]_callVars
<1>1. CallsInv /\ [CallsNext]_callVars => [SentByLease]_callVars
  <2>. SUFFICES ASSUME CallsInv, CallsNext, NEW c \in Call, sent'[c], ~sent[c] PROVE LeaseValid(c) /\ routable
    BY DEF SentByLease
  <2>1. PICK d \in Call : AcquireLocal(d) \/ Dispatch(d)
    <3>1. sent' # sent
      OBVIOUS
    <3>2. ~Retire /\ ~Degrade /\ ~Republish
      BY <3>1 DEF Retire, Degrade, Republish
    <3>3. \A d \in Call : ~Guard(d) /\ ~AcquireGlobal(d) /\ ~Begin(d) /\ ~Stale(d) /\ ~Checkpoint(d)
      BY <3>1 DEF Guard, AcquireGlobal, Begin, Stale, Checkpoint
    <3>4. \A d \in Call : ~RecordCallUncertain(d) /\ ~FinishCall(d) /\ ~Expire(d) /\ ~ProviderExecutes(d)
      BY <3>1 DEF RecordCallUncertain, FinishCall, Expire, ProviderExecutes
    <3>5. \A d \in Call, m \in BOOLEAN : ~CreateCallLease(d, m) /\ ~Answer(d, m)
      BY <3>1 DEF CreateCallLease, Answer
    <3>. QED BY <3>2, <3>3, <3>4, <3>5 DEF CallsNext, CallStep
  <2>2. sent \in [Call -> BOOLEAN]
    BY DEF CallsInv, CallsTypeOK
  <2>. QED BY <2>1, <2>2 DEF AcquireLocal, Dispatch, Eligible
<1>. QED BY <1>1, CallsAlways, PTL DEF CallsSpec
=============================================================================
