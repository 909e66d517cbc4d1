-------------------------- MODULE ExecutionRouting --------------------------
(***************************************************************************)
(* How a workflow step gets its route: the deterministic router            *)
(* (core/execution_router.py, core/tool_catalog.py), the candidates of the *)
(* extensions (core/extensions/manager.py, routing_candidates), the metrics*)
(* (core/router_metrics.py), the durable decision (core/workflow_store.py, *)
(* record_route_decision) and the executor that acts only on the route of  *)
(* its action (core/workflow_executor.py, _plan_route).                    *)
(*                                                                         *)
(* One operation with an intent is executed by several executors, one      *)
(* after the other as the lease changes hands; tools, capabilities and the *)
(* catalog of one extension change while they plan.                        *)
(***************************************************************************)
EXTENDS Integers, Sequences, SequencesExt, FiniteSetsExt, TLC

CONSTANTS
    Planner,        \* executions of the workflow
    CatalogGens,    \* bound on the catalogs the extension publishes
    WorldChanges,   \* bound on the changes of tools and health
    PlansMax,       \* bound on the decisions made
    RouteHistory,   \* _ROUTE_HISTORY_MAX
    RecentMax       \* RouterMetrics.max_recent

NoRoute == "none"

\* A rule of the catalog (IntentRouteRule).
RouteRule(route, tool, determinism, risk, recovery, confidence, cost, latency, level, needs, macros) ==
    [route |-> route, tool |-> tool, determinism |-> determinism, risk |-> risk, recovery |-> recovery,
     confidence |-> confidence, cost |-> cost, latency |-> latency, level |-> level, needs |-> needs,
     macros |-> macros, gen |-> 0]

\* _native_semantic_raw with a medium risk.
NativeSemanticRaw(route, tool, macros) ==
    <<RouteRule(route, tool, 5, 2, 3, 5, 1, 1, 0, {}, macros),
      RouteRule("semantic.windows_uia", "ui", 4, 2, 2, 4, 3, 3, 1, {"semantic_ui"}, FALSE),
      RouteRule("raw.desktop", "keyboard", 1, 2, 1, 2, 5, 5, 2, {"desktop_input"}, FALSE)>>

\* No candidate at all.
NoChoice == RouteRule(NoRoute, "none", 0, 0, 0, 0, 0, 0, 0, {}, FALSE)

\* Intents of INTENT_ROUTE_RULES, one of each shape, and one that only the extension knows.
IntentRules ==
    "filesystem.write" :> NativeSemanticRaw("native.filesystem", "replace_exact", FALSE)
    @@ "document.excel.write" :> NativeSemanticRaw("native.excel", "excel_write_range", TRUE)
    @@ "git.write" :> <<RouteRule("native.git", "git_commit", 5, 2, 3, 5, 1, 1, 0, {}, FALSE),
                        RouteRule("native.process", "run_process", 4, 2, 2, 4, 2, 2, 1, {}, FALSE),
                        RouteRule("raw.desktop", "keyboard", 1, 2, 1, 2, 5, 5, 2, {"desktop_input"}, FALSE)>>
    @@ "browser.interact" :> <<RouteRule("semantic.browser", "browser", 4, 2, 2, 5, 2, 2, 0, {"browser"}, FALSE),
                               RouteRule("raw.desktop", "mouse", 1, 2, 1, 2, 5, 5, 1, {"desktop_input"}, FALSE)>>
    @@ "desktop.raw.interact" :> <<RouteRule("raw.desktop", "mouse", 1, 2, 1, 5, 4, 4, 0, {"desktop_input"}, FALSE)>>
    @@ "external" :> << >>

\* The extension's tool, with what its operator says of it in each catalog.
ExternalTool == "external.tool"
ExternalRoute(determinism, gen) ==
    [RouteRule("external.mcp", ExternalTool, determinism, 2, 2, 4, 2, 2, 1, {}, FALSE) EXCEPT !.gen = gen]

RoutingTool == {"replace_exact", "ui", "keyboard", ExternalTool}
RoutingCapability == {"semantic_ui", "desktop_input", "browser"}
RoutingIntent ==
    [name : DOMAIN IntentRules, destructive : BOOLEAN, ambiguous : BOOLEAN, stale : BOOLEAN,
     macros : BOOLEAN, raw : BOOLEAN]

VARIABLES
    intent,         \* the step's ExecutionIntent
    tools, caps,    \* registered tools, capabilities of the platform
    catalog,        \* the extension's tool in the active catalog
    fit,            \* the other gates of its eligibility: state, profile, trust, session
    changes,        \* changes of the world so far
    stage,             \* where an execution is
    router,         \* the tools its router was built with
    seen,           \* what its router has read of the catalog
    decision,       \* what was recommended to it
    holder,         \* who holds the workflow lease
    row,            \* the operation row: state, route, history of routes
    metrics,        \* RouterMetrics
    told            \* history: decisions made so far; the routes the operation had, in order

routingVars == <<intent, tools, caps, catalog, fit, changes, stage, router, seen, decision, holder, row, metrics, told>>

Nobody == "nobody"
NothingSeen == [gen |-> 0, determinism |-> 0, judged |-> 0, ok |-> FALSE]

\* The tools named by the rules and the extension's.
AllTools == {ExternalTool} \cup UNION {{r.tool : r \in ToSet(IntentRules[i])} : i \in DOMAIN IntentRules}

RoutingInit ==
    /\ intent \in RoutingIntent
    /\ tools \in {AllTools \ off : off \in SUBSET RoutingTool}
    /\ caps \in {{}, RoutingCapability, {"desktop_input"}}
    /\ catalog = [gen |-> 1, listed |-> TRUE, determinism |-> 4]
    /\ fit = TRUE /\ changes = 0
    /\ stage = [x \in Planner |-> "out"] /\ router = [x \in Planner |-> {}]
    /\ seen = [x \in Planner |-> NothingSeen] /\ decision = [x \in Planner |-> NoChoice]
    /\ holder = Nobody
    /\ row = [state |-> "created", route |-> NoRoute, history |-> << >>]
    /\ metrics = [decisions |-> 0, none |-> 0, fallbacks |-> 0, recent |-> << >>]
    /\ told = [decisions |-> 0, routes |-> << >>]

(***************************************************************************)
(* The router.                                                             *)
(***************************************************************************)

\* _hard_rejection
HardRejection(c) ==
    \/ intent.stale /\ c.route \in {"semantic.browser", "semantic.windows_uia", "raw.desktop"}
    \/ intent.destructive /\ intent.ambiguous /\ c.route \in {"semantic.browser", "semantic.windows_uia"}
    \/ c.route = "raw.desktop" /\ (intent.destructive \/ ~intent.raw)
    \/ intent.macros /\ ~c.macros

\* _candidate and the loop over the external ones: registered, capable and not rejected.
Supported(c, registered) == c.tool \in registered /\ c.needs \subseteq caps /\ ~HardRejection(c)

\* The order of RouteClass values.
RouteOrder(route) == CHOOSE i \in 1..8 :
    <<"external.mcp", "native.excel", "native.filesystem", "native.git", "native.process", "raw.desktop",
      "semantic.browser", "semantic.windows_uia">>[i] = route

\* _sort_key; no two routes here share a class, so the tool's name never decides.
SortKey(c) == <<-c.determinism, -c.recovery, c.risk, -c.confidence, c.cost, c.latency, RouteOrder(c.route)>>

KeyBefore(a, b) == \E i \in DOMAIN a : a[i] < b[i] /\ \A j \in 1..(i - 1) : a[j] = b[j]

\* _all_candidates and recommend: the first of the supported candidates in the order of the key.
Recommended(external, registered) ==
    LET valid == SelectSeq(IntentRules[intent.name] \o external, LAMBDA c : Supported(c, registered))
        ranked == SortSeq(valid, LAMBDA a, b : KeyBefore(SortKey(a), SortKey(b)))
    IN  IF ranked = << >> THEN NoChoice ELSE ranked[1]

\* RouterMetrics.record
RecordMetrics(chosen) ==
    LET none == chosen = NoChoice
    IN  metrics' = [decisions |-> metrics.decisions + 1,
                    none |-> metrics.none + (IF none THEN 1 ELSE 0),
                    fallbacks |-> metrics.fallbacks + (IF ~none /\ chosen.level > 0 THEN 1 ELSE 0),
                    recent |-> LET all == Append(metrics.recent, chosen.route)
                               IN  SubSeq(all, IF Len(all) > RecentMax THEN 2 ELSE 1, Len(all))]

(***************************************************************************)
(* An execution plans its step.                                            *)
(***************************************************************************)

\* An execution takes the free lease of the queued workflow; its router knows the tools of this moment
\* (build_route_planner).
StartExecution(x) ==
    /\ stage[x] = "out" /\ holder = Nobody /\ row.state \in {"created", "failed"} /\ told.decisions < PlansMax
    /\ holder' = x /\ router' = [router EXCEPT ![x] = tools] /\ stage' = [stage EXCEPT ![x] = "plan"]
    /\ UNCHANGED <<intent, tools, caps, catalog, fit, changes, seen, decision, row, metrics, told>>

\* routing_candidates reads the catalog.
ReadCatalog(x) ==
    /\ stage[x] = "plan" /\ stage' = [stage EXCEPT ![x] = "judge"]
    /\ seen' = [seen EXCEPT ![x] = [NothingSeen EXCEPT !.gen = IF catalog.listed THEN catalog.gen ELSE 0,
                                                       !.determinism = catalog.determinism]]
    /\ UNCHANGED <<intent, tools, caps, catalog, fit, changes, router, decision, holder, row, metrics, told>>

\* tool_eligibility, on the catalog of this moment.
JudgeTool(x) ==
    /\ stage[x] = "judge" /\ stage' = [stage EXCEPT ![x] = "decide"]
    /\ seen' = [seen EXCEPT ![x].judged = IF catalog.listed THEN catalog.gen ELSE 0,
                            ![x].ok = catalog.listed /\ fit]
    /\ UNCHANGED <<intent, tools, caps, catalog, fit, changes, router, decision, holder, row, metrics, told>>

\* A version of the last look at the catalog that is left out.
StillListedAlways(s) == TRUE

\* The descriptor that was read is still the one in the catalog.
StillListed(s) == s.gen = 0 \/ (catalog.listed /\ catalog.gen = s.gen)

\* The end of routing_candidates and the rest of recommend.  A tool that was published between the two
\* reads is supported without a generation, which RouteCandidate refuses: planning fails.
Recommend(x) ==
    /\ stage[x] = "decide"
    /\ LET s == seen[x]
           ok == s.ok /\ StillListed(s)
           external == IF ok THEN <<ExternalRoute(s.determinism, s.gen)>> ELSE << >>
           chosen == Recommended(external, router[x])
       IN  IF ok /\ s.gen = 0
           THEN /\ stage' = [stage EXCEPT ![x] = "refused"]
                /\ UNCHANGED <<decision, metrics, told>>
           ELSE /\ decision' = [decision EXCEPT ![x] = chosen]
                /\ RecordMetrics(chosen)
                /\ told' = [told EXCEPT !.decisions = @ + 1]
                /\ stage' = [stage EXCEPT ![x] = IF chosen = NoChoice THEN "refused" ELSE "record"]
    /\ UNCHANGED <<intent, tools, caps, catalog, fit, changes, router, seen, holder, row>>

\* The lease is held and the operation has not begun, or has failed and is tried again.
MayRecord(x) == holder = x /\ row.state \in {"created", "failed", "waiting"}

\* history[-_ROUTE_HISTORY_MAX:]
KeptRoutes(history) ==
    SubSeq(history, IF Len(history) > RouteHistory THEN Len(history) - RouteHistory + 1 ELSE 1, Len(history))

\* record_route_decision; a refusal fails the step.
RecordRouteDecision(x) ==
    /\ stage[x] = "record"
    /\ LET route == decision[x].route
           changed == row.route # NoRoute /\ row.route # route
       IN  IF MayRecord(x)
           THEN /\ row' = [row EXCEPT !.route = route,
                                      !.history = IF changed THEN KeptRoutes(Append(@, row.route)) ELSE @]
                /\ told' = IF row.route # route THEN [told EXCEPT !.routes = Append(@, route)] ELSE told
                /\ stage' = [stage EXCEPT ![x] = "check"]
           ELSE /\ stage' = [stage EXCEPT ![x] = "refused"]
                /\ UNCHANGED <<row, told>>
    /\ seen' = [seen EXCEPT ![x] = NothingSeen]
    /\ UNCHANGED <<intent, tools, caps, catalog, fit, changes, router, decision, holder, metrics>>

\* The action's own route (ActionDescriptor.execution_route).
ActionRoute == "native.filesystem"

\* The end of _plan_route: the recommended route is that of the action.
RouteMatches(x) == decision[x].route = ActionRoute

CheckRoute(x) ==
    /\ stage[x] = "check"
    /\ stage' = [stage EXCEPT ![x] = IF RouteMatches(x) THEN "begin" ELSE "refused"]
    /\ UNCHANGED <<intent, tools, caps, catalog, fit, changes, router, seen, decision, holder, row, metrics, told>>

\* An execution that lost its lease cannot checkpoint and ends.
LeaveLost(x) ==
    /\ stage[x] \in {"begin", "refused", "failing", "act"} /\ holder # x
    /\ stage' = [stage EXCEPT ![x] = "out"] /\ seen' = [seen EXCEPT ![x] = NothingSeen]
    /\ decision' = [decision EXCEPT ![x] = NoChoice] /\ router' = [router EXCEPT ![x] = {}]
    /\ UNCHANGED <<intent, tools, caps, catalog, fit, changes, holder, row, metrics, told>>

\* checkpoint_operation to running, before the action or before the failure of the planning is recorded.
BeginRouted(x) ==
    /\ stage[x] \in {"begin", "refused"} /\ holder = x
    /\ row' = [row EXCEPT !.state = "running"]
    /\ stage' = [stage EXCEPT ![x] = IF @ = "begin" THEN "act" ELSE "failing"]
    /\ UNCHANGED <<intent, tools, caps, catalog, fit, changes, router, seen, decision, holder, metrics, told>>

\* The outcome is recorded; a transient failure is planned again, otherwise the execution gives its lease back.
FinishRouted(x) ==
    /\ stage[x] \in {"act", "failing"} /\ holder = x
    /\ \E outcome \in IF stage[x] = "act" THEN {"succeeded", "failed", "uncertain"} ELSE {"failed"},
          again \in BOOLEAN :
          /\ again => stage[x] = "act" /\ outcome = "failed" /\ told.decisions < PlansMax
          /\ row' = [row EXCEPT !.state = outcome]
          /\ stage' = [stage EXCEPT ![x] = IF again THEN "plan" ELSE "out"]
          /\ holder' = IF again THEN x ELSE Nobody
          /\ router' = IF again THEN router ELSE [router EXCEPT ![x] = {}]
    /\ seen' = [seen EXCEPT ![x] = NothingSeen] /\ decision' = [decision EXCEPT ![x] = NoChoice]
    /\ UNCHANGED <<intent, tools, caps, catalog, fit, changes, metrics, told>>

\* The lease expires under its holder; recovery makes an operation that was running uncertain.
LeaseExpires ==
    /\ changes < WorldChanges /\ changes' = changes + 1
    /\ holder # Nobody /\ holder' = Nobody
    /\ row' = IF row.state = "running" THEN [row EXCEPT !.state = "uncertain"] ELSE row
    /\ UNCHANGED <<intent, tools, caps, catalog, fit, stage, router, seen, decision, metrics, told>>

\* A tool appears or goes, the extension becomes eligible or not.
WorldMoves ==
    /\ changes < WorldChanges /\ changes' = changes + 1
    /\ \/ \E t \in {"replace_exact", ExternalTool} :
             tools' = (IF t \in tools THEN tools \ {t} ELSE tools \cup {t}) /\ UNCHANGED fit
       \/ fit' = ~fit /\ UNCHANGED tools
    /\ UNCHANGED <<intent, caps, catalog, stage, router, seen, decision, holder, row, metrics, told>>

\* The extension publishes another catalog, with the tool or without it.
PublishCatalog ==
    /\ catalog.gen < CatalogGens
    /\ \E listed \in BOOLEAN, d \in {3, 4} : catalog' = [gen |-> catalog.gen + 1, listed |-> listed, determinism |-> d]
    /\ UNCHANGED <<intent, tools, caps, fit, changes, stage, router, seen, decision, holder, row, metrics, told>>

RoutingNext ==
    \/ \E x \in Planner :
          \/ StartExecution(x) \/ ReadCatalog(x) \/ JudgeTool(x) \/ Recommend(x) \/ RecordRouteDecision(x)
          \/ CheckRoute(x) \/ LeaveLost(x) \/ BeginRouted(x) \/ FinishRouted(x)
    \/ LeaseExpires \/ WorldMoves \/ PublishCatalog

(***************************************************************************)
(* Properties.                                                             *)
(***************************************************************************)

\* The types of the routing state; the metrics count every decision once and stay bounded.
RoutingTypeOK ==
    /\ intent \in RoutingIntent /\ caps \subseteq RoutingCapability /\ fit \in BOOLEAN
    /\ stage \in [Planner -> {"out", "plan", "judge", "decide", "record", "check", "begin", "refused", "failing", "act"}]
    /\ holder \in Planner \cup {Nobody} /\ row.state \in {"created", "running", "failed", "succeeded", "uncertain"}
    /\ \A x \in Planner : stage[x] \in {"record", "check", "begin", "act"} => decision[x] # NoChoice
    /\ Len(row.history) <= RouteHistory
    /\ metrics.decisions = told.decisions /\ metrics.none + metrics.fallbacks <= metrics.decisions
    /\ Len(metrics.recent) <= RecentMax

\* What a candidate weighs: the reference order of the deterministic policy, one number.
Weight(c) ==
    ((((c.determinism * 10 + c.recovery) * 10 + 10 - c.risk) * 10 + c.confidence) * 10 + 10 - c.cost) * 10 + 10 - c.latency

\* Whether a person would let the step be done this way: nothing destructive through blind input, nothing
\* through a reference known to be stale, raw input only when asked for, macros only where they survive.
Safe(c) ==
    LET blind == c.route = "raw.desktop"
        pointed == c.route \in {"semantic.browser", "semantic.windows_uia"}
    IN  /\ blind => intent.raw /\ ~intent.destructive
        /\ blind \/ pointed => ~intent.stale
        /\ pointed /\ intent.ambiguous => ~intent.destructive
        /\ intent.macros => c.macros

\* The router recommends the best of the routes that are safe and available, and none only when there is
\* none, whether or not an extension offers a tool (_hard_rejection, _candidate, _all_candidates, recommend).
BestSafeRoute ==
    \A external \in {<< >>, <<ExternalRoute(4, 1)>>} :
        LET all == ToSet(IntentRules[intent.name] \o external)
            good == {c \in all : Safe(c) /\ c.tool \in tools /\ c.needs \subseteq caps}
            best == Recommended(external, tools)
        IN  IF good = {} THEN best = NoChoice
            ELSE best \in good /\ \A c \in good : Weight(c) <= Weight(best)

\* An extension's route is recommended only with the catalog for which its tool was found eligible: a
\* catalog that is replaced while the router reads it is not mixed with its successor (routing_candidates).
ExternalIsCurrent ==
    \A x \in Planner :
        stage[x] = "record" /\ decision[x].route = "external.mcp" =>
            decision[x].gen = seen[x].judged /\ decision[x].gen > 0

\* An execution acts only while the action's own route is the one durably recorded, however executions
\* overlap and whatever their routers recommend (_plan_route, record_route_decision).
ActsOnItsRoute == \A x \in Planner : stage[x] = "act" => row.route = ActionRoute

\* Once an operation runs its route stays until it has failed: no late execution rewrites what the effect
\* was routed by (record_route_decision).
RouteLocked == row.state \in {"running", "succeeded", "uncertain"} => row'.route = row.route

\* The fallback history is the end of the routes the operation had before its present one, in order
\* (record_route_decision).
HistoryIsTail ==
    LET all == told.routes
        before == SubSeq(all, 1, Len(all) - 1)
    IN  IF all = << >> THEN row.route = NoRoute /\ row.history = << >>
        ELSE /\ row.route = all[Len(all)] /\ IsSuffix(row.history, before)
             /\ Len(row.history) = Min({RouteHistory, Len(before)})

\* Routing is sound: the recommendation is the best of the safe routes, an
\* external one is listed when it is recommended, an execution acts only on
\* the route it recorded, and the history is the tail of what was recorded.
RoutesSound == RoutingTypeOK /\ BestSafeRoute /\ ExternalIsCurrent /\ ActsOnItsRoute /\ HistoryIsTail
=============================================================================
