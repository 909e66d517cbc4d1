------------------------------ MODULE MCRecords ------------------------------
(***************************************************************************)
(* The durable records of the program, each on its own instance: the       *)
(* recovery journal with two interchangeable calls, the workflow database  *)
(* while it is opened and upgraded, the recorded routes of a step, and     *)
(* documents under publication.  One of them runs, the others stay where   *)
(* they begin; in "rules" the router is asked in its initial states.       *)
(***************************************************************************)
EXTENDS RecoveryJournal, StoreUpgrade, ExecutionRouting, DocumentPublish

VARIABLE serving

recordVars == <<vars, upgradeVars, borrowVars, routingVars, documentVars>>

Calls == Permutations(Op)

\* The step whose routes are recorded: an edit of a file that may also be typed.
EditStep == [name |-> "filesystem.write", destructive |-> FALSE, ambiguous |-> FALSE, stale |-> FALSE,
             macros |-> FALSE, raw |-> TRUE]

\* The history of a chain: a step has begun only when the one before it is completed.
ChainUpgrade ==
    /\ UpgradeInit
    /\ \A s \in Step \ {1} : steps[s] # "created" => steps[s - 1] = "completed"
StillUpgrade ==
    /\ UpgradeInit /\ schema = 0 /\ steps = [s \in Step |-> "created"] /\ operations[1] = NoOperation
EditRouting ==
    /\ RoutingInit /\ intent = EditStep /\ tools = AllTools /\ caps = {"desktop_input"}
StillRouting ==
    /\ RoutingInit /\ intent = [EditStep EXCEPT !.name = "external"] /\ tools = AllTools \ RoutingTool /\ caps = {}
StillDocument ==
    /\ DocumentInit /\ document = NoDocument /\ kind = [p \in Publisher |-> "insert"]

RecordsInit ==
    /\ serving \in {"journal", "upgrade", "connection", "rules", "routing", "documents"}
    /\ Init /\ BorrowInit
    /\ IF serving = "upgrade" THEN ChainUpgrade ELSE StillUpgrade
    /\ CASE serving = "rules" -> RoutingInit [] serving = "routing" -> EditRouting [] OTHER -> StillRouting
    /\ IF serving = "documents" THEN DocumentInit ELSE StillDocument

RecordsNext ==
    /\ \/ serving = "journal" /\ Next
       \/ serving = "upgrade" /\ UpgradeNext
       \/ serving = "connection" /\ BorrowNext
       \/ serving = "routing" /\ RoutingNext
       \/ serving = "documents" /\ DocumentNext
    /\ IF serving = "journal" THEN TRUE ELSE UNCHANGED vars
    /\ IF serving = "upgrade" THEN TRUE ELSE UNCHANGED upgradeVars
    /\ IF serving = "connection" THEN TRUE ELSE UNCHANGED borrowVars
    /\ IF serving = "routing" THEN TRUE ELSE UNCHANGED routingVars
    /\ IF serving = "documents" THEN TRUE ELSE UNCHANGED documentVars
    /\ UNCHANGED serving

RecordsSpec == RecordsInit /\ [][RecordsNext]_<<serving, recordVars>>

=============================================================================
