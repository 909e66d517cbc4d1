------------------------------- MODULE MCFiles -------------------------------
(***************************************************************************)
(* The file tools and what they stand on, each on its own instance: one of *)
(* them runs, the others stay where they begin.  The diffs are checked in   *)
(* their initial states.                                                   *)
(***************************************************************************)
EXTENDS FileTools, PatchTransaction, BackupRetention, FileReading, TLC

CONSTANTS s1, s2, s3

VARIABLE running

Found == s1 :> 3 @@ s2 :> 1 @@ s3 :> 1

\* Every tool on one path, with the flags that matter, and both directions of a move.
Asked == [tool : {"write", "edit"}, src : {1}, dst : {1}, flag : BOOLEAN]
         \cup [tool : {"create", "delete", "refactor"}, src : {1}, dst : {1}, flag : {FALSE}]
         \cup {[tool |-> "move", src |-> 1, dst |-> 2, flag |-> FALSE],
               [tool |-> "move", src |-> 2, dst |-> 1, flag |-> TRUE],
               [tool |-> "copy", src |-> 2, dst |-> 1, flag |-> TRUE]}

filesVars == <<toolVars, patchVars, retentionVars, snapshotVars, batchVars, windowVars,
                diff>>

\* Where a component that has many initial states stays.
SomeDiff == [lines |-> <<[mark |-> "+", content |-> "x"]>>, shown |-> <<TRUE>>,
             oldEnded |-> FALSE, newEnded |-> FALSE]
StillTools == ToolsInit /\ disk = [k \in Key |-> Absent]
StillPatch ==
    /\ tree = [p \in Path |-> NoText] /\ original = tree /\ items = <<>>
    /\ options = [dry |-> TRUE, keep |-> TRUE, hashes |-> TRUE]
    /\ prepared = <<>> /\ kept = {} /\ todo = {} /\ half = FALSE /\ place = "prepare"
StillWindow ==
    /\ text = <<>> /\ wanted = [start |-> 1, end |-> 1, limit |-> 1]
    /\ offset = 0 /\ position = 0 /\ skip = 0 /\ pending = <<>> /\ line = 1
    /\ piece = <<>> /\ collected = <<>> /\ going = "reading"

FilesInit ==
    /\ running \in {"locks", "tools", "patch", "retention", "snapshots", "batches",
                    "window", "diff"}
    /\ RetentionInit /\ SnapshotsInit /\ BatchInit
    /\ IF running = "tools" THEN ToolsInit ELSE StillTools
    /\ IF running = "patch" THEN PatchInit ELSE StillPatch
    /\ IF running = "window" THEN WindowInit ELSE StillWindow
    /\ IF running = "diff" THEN HunksInit ELSE diff = SomeDiff

FilesNext ==
    /\ \/ running = "locks" /\ LocksNext /\ UNCHANGED fileVars
       \/ running = "tools" /\ ToolsNext
       \/ running = "patch" /\ PatchNext
       \/ running = "retention" /\ RetentionNext
       \/ running = "snapshots" /\ SnapshotsNext
       \/ running = "batches" /\ BatchNext
       \/ running = "window" /\ WindowNext
    /\ IF running \in {"locks", "tools"} THEN TRUE ELSE UNCHANGED toolVars
    /\ IF running = "patch" THEN TRUE ELSE UNCHANGED patchVars
    /\ IF running = "retention" THEN TRUE ELSE UNCHANGED retentionVars
    /\ IF running = "snapshots" THEN TRUE ELSE UNCHANGED snapshotVars
    /\ IF running = "batches" THEN TRUE ELSE UNCHANGED batchVars
    /\ IF running = "window" THEN TRUE ELSE UNCHANGED windowVars
    /\ UNCHANGED <<running, diff>>

FilesSpec == FilesInit /\ [][FilesNext]_<<running, filesVars>>

\* Threads and lock objects are told apart by their state only.
Interchangeable == Permutations(Thread) \cup Permutations(Object)

\* What no step may do: delete a backup or a stored search outside the policy,
\* or return a read of more than one version of a file.
FileSteps == [][DeletesByPolicy /\ EvictsOldest /\ ReadsOneVersion]_<<running, filesVars>>
=============================================================================
