--------------------------- MODULE OwnedProcesses ---------------------------
(***************************************************************************)
(* How a command is run under process-tree ownership: spawned in a POSIX   *)
(* session or suspended into a Windows Job Object, its output read by a    *)
(* thread, its tree ended by terminate_tree and close_ownership, which     *)
(* several threads may call.  core/executor.py, core/process_ownership.py, *)
(* core/windows_job.py.                                                    *)
(***************************************************************************)
EXTENDS Naturals, FiniteSets

CONSTANTS Proc,      \* processes of the tree, Root the command itself
          Root,
          Init1,     \* the process that adopts orphans
          WriteBound \* bytes the tree writes

Task == {"run", "watch", "output", "retire"}

VARIABLES spawnAt, backend, native, started,     \* spawn_owned_process
          alive, born, parent, owned, doomed,    \* the operating system's processes
          holders, written, captured, reader, captureClosed,
          at, finishing, report, recorded,       \* the threads of the server
          members, snap, errs, held,
          closing, closed, closeFailed,          \* PosixOwnedProcess
          handle, cleanupFailed                  \* WindowsJob, OwnedProcess

spawnVars == <<spawnAt, backend, native, started>>
treeVars == <<alive, born, parent, owned, doomed>>
pipeVars == <<holders, written, captured, reader, captureClosed>>
taskVars == <<at, finishing, report, recorded>>
groupVars == <<members, snap, errs, held, closing, closed, closeFailed>>
jobVars == <<handle, cleanupFailed>>
processVars == <<spawnVars, treeVars, pipeVars, taskVars, groupVars, jobVars>>

RECURSIVE Tree(_)
Tree(S) ==
    LET more == S \cup {c \in alive : parent[c] \in S}
    IN  IF more = S THEN S ELSE Tree(more)

ProcessInit ==
    /\ backend \in {"group", "job", "psutil"}
    /\ native \in BOOLEAN
    /\ spawnAt = "ready" /\ started = 0
    /\ alive = {} /\ born = {} /\ parent = [p \in Proc |-> Init1] /\ owned = {} /\ doomed = {}
    /\ holders = {} /\ written = 0 /\ captured = 0 /\ reader = "reading" /\ captureClosed = FALSE
    /\ at = [t \in Task |-> "none"] /\ finishing = FALSE /\ recorded = FALSE
    /\ report = [t \in Task |-> "none"]
    /\ members = {} /\ snap = {} /\ errs = FALSE /\ held = {}
    /\ closing = "nobody" /\ closed = FALSE /\ closeFailed = FALSE
    /\ handle = "none" /\ cleanupFailed = FALSE

-----------------------------------------------------------------------------
(* Spawning.                                                               *)

\* The command's own code begins to run: run_bounded waits for it, or
\* start_background leaves it to the ownership thread and keeps a record.
Running(inside) ==
    /\ spawnAt' = "run" /\ started' = started + 1
    /\ alive' = alive \cup {Root} /\ born' = born \cup {Root} /\ holders' = {Root}
    /\ owned' = (IF inside THEN {Root} ELSE {})
    /\ native' = (native /\ ~inside) \* of no use once satisfied
    /\ \/ at' = [at EXCEPT !["run"] = "wait"] /\ UNCHANGED recorded
       \/ /\ at' = [at EXCEPT !["watch"] = "wait", !["output"] = "fetch", !["retire"] = "pop"]
          /\ recorded' = TRUE
    /\ UNCHANGED <<parent, doomed, written, captured, reader, captureClosed, finishing, report,
                   groupVars, cleanupFailed>>

SpawnEnds(where) ==
    /\ spawnAt' = where
    /\ UNCHANGED <<native, started, treeVars, pipeVars, taskVars, groupVars, cleanupFailed>>

SpawnGroup ==
    /\ spawnAt = "ready" /\ backend = "group" /\ UNCHANGED <<backend, handle>>
    /\ Running(TRUE) \/ SpawnEnds("refused")

\* Native ownership that is required is never given up; otherwise the plain
\* Popen follows.
GivesUp == IF native THEN "refused" ELSE "plain"

SpawnDisabled ==
    /\ spawnAt = "ready" /\ backend = "psutil" /\ UNCHANGED <<backend, handle>>
    /\ SpawnEnds(GivesUp)

CreateJob ==
    /\ spawnAt = "ready" /\ backend = "job" /\ UNCHANGED backend
    /\ \/ handle' = "open" /\ SpawnEnds("created")
       \/ UNCHANGED handle /\ SpawnEnds(GivesUp)

PopenSuspended ==
    /\ spawnAt = "created" /\ UNCHANGED backend
    /\ \/ UNCHANGED handle /\ SpawnEnds("suspended")
       \/ handle' = "closed" /\ SpawnEnds("refused")

AssignProcess ==
    /\ spawnAt = "suspended" /\ UNCHANGED <<backend, handle>>
    /\ SpawnEnds("assigned") \/ SpawnEnds("failed")

Resumable == spawnAt = "assigned"

ResumePrimaryThread ==
    /\ Resumable /\ UNCHANGED <<backend, handle>>
    /\ Running(spawnAt = "assigned") \/ SpawnEnds("failed")

\* The suspended process is killed before anything else is tried.
KillSuspended ==
    /\ spawnAt = "failed" /\ UNCHANGED backend
    /\ handle' = "closed" /\ SpawnEnds(GivesUp)

RegularPopen ==
    /\ spawnAt = "plain" /\ backend' = "psutil" /\ handle' = "none"
    /\ Running(FALSE) \/ SpawnEnds("refused")

Spawn == \/ SpawnGroup \/ SpawnDisabled \/ CreateJob \/ PopenSuspended \/ AssignProcess
         \/ ResumePrimaryThread \/ KillSuspended \/ RegularPopen

-----------------------------------------------------------------------------
(* The tree.                                                               *)

\* A child is in its parent's job for good; it may leave the session, as a
\* nested owned command does, and may redirect its output.
Fork(p, c) ==
    /\ p \in alive \ doomed /\ c \notin born
    /\ alive' = alive \cup {c} /\ born' = born \cup {c} /\ parent' = [parent EXCEPT ![c] = p]
    /\ \/ owned' = IF p \in owned THEN owned \cup {c} ELSE owned
       \/ backend = "group" /\ UNCHANGED owned
    /\ \/ UNCHANGED holders
       \/ p \in holders /\ holders' = holders \cup {c}
    /\ UNCHANGED <<spawnVars, doomed, written, captured, reader, captureClosed, taskVars,
                   groupVars, jobVars>>

Exit(p) ==
    /\ p \in alive
    /\ alive' = alive \ {p}
    /\ parent' = [c \in Proc |-> IF p \in {c, parent[c]} THEN Init1 ELSE parent[c]]
    /\ owned' = owned \ {p} /\ doomed' = doomed \ {p} /\ holders' = holders \ {p}
    /\ members' = members \ {p} /\ snap' = snap \ {p} /\ held' = held \ {p}
    /\ UNCHANGED <<spawnVars, born, written, captured, reader, captureClosed, taskVars, errs,
                   closing, closed, closeFailed, jobVars>>

WritePipe ==
    /\ holders \ doomed # {} /\ written < WriteBound /\ written' = written + 1
    /\ UNCHANGED <<spawnVars, treeVars, holders, captured, reader, captureClosed, taskVars,
                   groupVars, jobVars>>

\* The reader thread: a chunk (dropped by a closed capture), the end of the
\* pipe once nobody can write to it, or an error.
ReadPipe ==
    /\ spawnAt = "run" /\ reader = "reading"
    /\ \/ captured < written /\ ~captureClosed /\ captured' = written /\ UNCHANGED reader
       \/ /\ captured = written \/ captureClosed
          /\ holders = {} /\ reader' = "eof" /\ UNCHANGED captured
       \/ reader' = "error" /\ UNCHANGED captured
    /\ UNCHANGED <<spawnVars, treeVars, holders, written, captureClosed, taskVars, groupVars,
                   jobVars>>

-----------------------------------------------------------------------------
(* Ending the tree: terminate_tree(force) of a run that timed out, then    *)
(* close_ownership, of whichever thread comes first.                       *)

Goto(t, where) == at' = [at EXCEPT ![t] = where]

\* Where a thread goes on after close_ownership returned or raised.
AfterClose(t, ok) ==
    CASE t = "run" /\ finishing -> "done"
      [] t = "run" /\ ~finishing -> IF ok THEN "drain" ELSE "finally"
      [] t = "watch" -> "done"
      [] OTHER -> IF ok THEN "join" ELSE "done"

\* What the close works on: of each set, the processes still alive.
ListMembers ==
    /\ members' = owned /\ errs' = FALSE
    /\ UNCHANGED <<snap, held>>

Snapshot(S) == Tree(S)

CaptureTree ==
    /\ snap' = Snapshot(members) /\ held' = (IF closed THEN Tree(members) ELSE {})
    /\ members' = {} /\ UNCHANGED errs

SignalKill(targets) ==
    \/ doomed' = doomed \cup owned \cup targets /\ UNCHANGED errs
    \/ UNCHANGED doomed /\ errs' = TRUE

Gone == snap = {}

\* terminate_tree(force=True) of the process group.
TreeGroup(t) ==
    /\ backend = "group" /\ UNCHANGED <<alive, born, parent, owned, finishing, closing, closed, closeFailed, jobVars>>
    /\ \/ at[t] = "tree" /\ ListMembers /\ Goto(t, "treeCapture") /\ UNCHANGED doomed
       \/ at[t] = "treeCapture" /\ CaptureTree /\ Goto(t, "treeKill") /\ UNCHANGED doomed
       \/ at[t] = "treeKill" /\ SignalKill(snap) /\ Goto(t, "treeWait") /\ UNCHANGED <<members, snap, held>>
       \/ /\ at[t] = "treeWait" /\ snap' = {} /\ errs' = FALSE /\ UNCHANGED <<doomed, members, held>>
          /\ Goto(t, IF Gone /\ ~errs THEN "rewait" ELSE "finally")

\* The same of a Job Object, or of the process table when there is neither.
TreeOther(t) ==
    /\ at[t] = "tree" /\ backend # "group" /\ Goto(t, "rewait")
    /\ \/ doomed' = doomed \cup (IF backend = "job" THEN owned ELSE Tree({Root} \cap alive))
       \/ UNCHANGED doomed
    /\ UNCHANGED <<alive, born, parent, owned, finishing, groupVars, jobVars>>

CloseNothing(t) ==
    /\ at[t] = "close" /\ backend = "psutil" /\ Goto(t, AfterClose(t, TRUE))
    /\ UNCHANGED <<treeVars, groupVars, jobVars>>

GroupAgain(t) ==
    /\ at[t] = "close" /\ backend = "group" /\ closing = "nobody" /\ closed
    /\ Goto(t, AfterClose(t, ~closeFailed))
    /\ UNCHANGED <<treeVars, groupVars, jobVars>>

GroupClose(t) ==
    /\ at[t] = "close" /\ backend = "group" /\ closing = "nobody" /\ ~closed
    /\ closing' = t /\ closed' = TRUE /\ ListMembers /\ Goto(t, "capture")
    /\ UNCHANGED <<treeVars, closeFailed, jobVars>>

GroupCapture(t) ==
    /\ at[t] = "capture" /\ CaptureTree /\ Goto(t, "term")
    /\ UNCHANGED <<treeVars, closing, closed, closeFailed, jobVars>>

\* SIGTERM ends whoever does not handle it: Exit is always possible.
GroupTerm(t) ==
    /\ at[t] = "term" /\ Goto(t, "await") /\ errs' \in BOOLEAN
    /\ UNCHANGED <<treeVars, members, snap, held, closing, closed, closeFailed, jobVars>>

GroupKill(t) ==
    /\ at[t] = "await" /\ ~Gone /\ SignalKill(snap) /\ Goto(t, "awaitKilled")
    /\ UNCHANGED <<alive, born, parent, owned, members, snap, held, closing, closed, closeFailed, jobVars>>

GroupClosed(t) ==
    /\ at[t] = "awaitKilled" \/ (at[t] = "await" /\ Gone)
    /\ LET ok == Gone /\ ~errs
       IN  closeFailed' = ~ok /\ Goto(t, AfterClose(t, ok))
    /\ closing' = "nobody" /\ snap' = {} /\ errs' = FALSE
    /\ UNCHANGED <<treeVars, members, held, closed, jobVars>>

\* The except branch of OwnedProcess.close_ownership: closing the handle
\* kills what is left of the job.
JobFails(t) ==
    /\ cleanupFailed' = TRUE /\ handle' = "closed"
    /\ doomed' = doomed \cup owned
    /\ Goto(t, AfterClose(t, FALSE))

JobClose(t) ==
    /\ at[t] = "close" /\ backend = "job"
    /\ \/ /\ cleanupFailed \/ handle = "closed"
          /\ Goto(t, AfterClose(t, ~cleanupFailed)) /\ UNCHANGED <<doomed, jobVars>>
       \/ /\ ~cleanupFailed /\ handle = "open" /\ Goto(t, "count")
          /\ doomed' = doomed \cup owned /\ UNCHANGED jobVars
       \/ ~cleanupFailed /\ handle = "open" /\ JobFails(t)
    /\ UNCHANGED <<alive, born, parent, owned, groupVars>>

ActiveProcesses == IF handle = "closed" THEN {} ELSE owned

CountJob(t) ==
    /\ at[t] = "count"
    /\ \/ ActiveProcesses = {} /\ Goto(t, "reap") /\ UNCHANGED <<doomed, jobVars>>
       \/ handle = "open" /\ JobFails(t)
    /\ UNCHANGED <<alive, born, parent, owned, groupVars>>

JobReap(t) ==
    /\ at[t] = "reap"
    /\ \/ Root \notin alive /\ handle' = "closed" /\ Goto(t, AfterClose(t, TRUE)) /\ UNCHANGED <<doomed, cleanupFailed>>
       \/ (Root \in alive \/ handle = "open") /\ JobFails(t)
    /\ UNCHANGED <<alive, born, parent, owned, groupVars>>

CloseOwnership(t) ==
    /\ \/ CloseNothing(t) \/ GroupAgain(t) \/ GroupClose(t) \/ GroupCapture(t) \/ GroupTerm(t)
       \/ GroupKill(t) \/ GroupClosed(t) \/ JobClose(t) \/ CountJob(t) \/ JobReap(t)
    /\ UNCHANGED <<spawnVars, pipeVars, finishing, report, recorded>>

TerminateTree(t) ==
    /\ TreeGroup(t) \/ TreeOther(t)
    /\ UNCHANGED <<spawnVars, pipeVars, report, recorded>>

-----------------------------------------------------------------------------
(* The threads.                                                            *)

Steps == UNCHANGED <<spawnVars, treeVars, holders, written, captured, reader, groupVars, jobVars>>

Final == reader = "eof"
Reported == IF Final THEN "complete" ELSE "partial"

\* process.wait(timeout) of run_bounded, process.wait() of the ownership thread.
RootExited(t) ==
    /\ at[t] \in {"wait", "rewait"} /\ Root \notin alive /\ Goto(t, "close")
    /\ Steps /\ UNCHANGED <<captureClosed, finishing, report, recorded>>

WaitExpired ==
    /\ \/ at["run"] = "wait" /\ Goto("run", "tree")
       \/ at["run"] = "rewait" /\ Root \in alive /\ Goto("run", "finally")
    /\ Steps /\ UNCHANGED <<captureClosed, finishing, report, recorded>>

\* The join of the reader thread ends, or its deadline passes.
RunDrains ==
    /\ at["run"] = "drain" /\ Goto("run", "finally") /\ report' = [report EXCEPT !["run"] = Reported]
    /\ Steps /\ UNCHANGED <<captureClosed, finishing, recorded>>

RunFinally ==
    /\ at["run"] = "finally" /\ finishing' = TRUE /\ Goto("run", "close")
    /\ Steps /\ UNCHANGED <<captureClosed, report, recorded>>

\* background_output: the record is looked up under the lock and used after it.
OutputFetch ==
    /\ at["output"] = "fetch" /\ recorded
    /\ Goto("output", IF Root \notin alive THEN "close" ELSE "join")
    /\ Steps /\ UNCHANGED <<captureClosed, finishing, report, recorded>>

OutputResult ==
    /\ at["output"] = "join" /\ Goto("output", "done")
    /\ report' = [report EXCEPT !["output"] = IF captureClosed THEN "raised" ELSE Reported]
    /\ Steps /\ UNCHANGED <<captureClosed, finishing, recorded>>

OutputAgain ==
    /\ at["output"] = "done" /\ Goto("output", "fetch") /\ report' = [report EXCEPT !["output"] = "none"]
    /\ Steps /\ UNCHANGED <<captureClosed, finishing, recorded>>

\* close_background_captures, or the retirement of an old record by
\* start_background: out of the table first, closed afterwards.
RetireRecord ==
    /\ at["retire"] = "pop" /\ recorded' = FALSE /\ Goto("retire", "close")
    /\ Steps /\ UNCHANGED <<captureClosed, finishing, report>>

RetireCaptures ==
    /\ at["retire"] = "join" /\ captureClosed' = TRUE /\ Goto("retire", "done")
    /\ Steps /\ UNCHANGED <<finishing, report, recorded>>

ProcessNext ==
    \/ Spawn
    \/ \E p, c \in Proc : Fork(p, c)
    \/ \E p \in Proc : Exit(p)
    \/ WritePipe \/ ReadPipe
    \/ \E t \in Task : CloseOwnership(t) \/ RootExited(t) \/ TerminateTree(t)
    \/ WaitExpired \/ RunDrains \/ RunFinally
    \/ OutputFetch \/ OutputResult \/ OutputAgain
    \/ RetireRecord \/ RetireCaptures

-----------------------------------------------------------------------------
ProcessTypeOK ==
    /\ alive \subseteq born /\ born \subseteq Proc /\ owned \subseteq born
    /\ doomed \subseteq alive /\ holders \subseteq alive
    /\ captured \in 0..written /\ written \in 0..WriteBound
    /\ reader \in {"reading", "eof", "error"} /\ handle \in {"none", "open", "closed"}
    /\ closing \in Task \cup {"nobody"} /\ (closing # "nobody" => closed)

\* "Spawn atomically inside a kill-on-close Job Object, with safe fallback
\* before user code runs": the command runs once, with required ownership
\* never unowned, and under a Job Object every process of its tree is in it.
RunsOwned ==
    /\ started <= 1
    /\ (started = 1 /\ native) => backend # "psutil"
    /\ (started = 1 /\ backend = "job") => alive \subseteq owned

\* A close_ownership that returned without an error is evidence: no process
\* of the job is left, and nothing that descended from a member of the
\* process group when the close looked at it, a nested session included,
\* whatever the tree forked or lost meanwhile and whichever thread closed.
CloseIsProof ==
    /\ (backend = "group" /\ closed /\ closing = "nobody" /\ ~closeFailed) => held = {}
    /\ (backend = "job" /\ handle = "closed" /\ ~cleanupFailed) => owned = {}

\* Output reported as complete (capture_complete, final) is everything the
\* tree wrote, and no process is left that could write more.
CompleteIsAll ==
    \A t \in Task : report[t] = "complete" => captured = written /\ holders = {}

\* "Failed close stays failed; never resignal a potentially reused process
\* group": once a close has ended, well or badly, no thread closes or kills
\* the group again.
QuietAfterClose ==
    (backend = "group" /\ closed /\ closing = "nobody")
    => closed' /\ closing' = "nobody" /\ doomed' \subseteq doomed

=============================================================================
