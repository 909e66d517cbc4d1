------------------------------ MODULE FileTools ------------------------------
(***************************************************************************)
(* The native file tools (tools/filesystem/registry.py and service.py):    *)
(* whole-file writes, creation, deletion, move, copy, the surgical edits   *)
(* and safe_refactor, run by concurrent threads under the locks of         *)
(* ResourceLocks, on a disk that other programs write too.                 *)
(*                                                                         *)
(* A text is the set of changes it contains: a whole-file write makes it   *)
(* one change, an edit adds one.  A copy truncates its destination first;  *)
(* until it ends the text is Torn.  Every call of the operating system may *)
(* fail.  The durable claims that also fence the calls are those of        *)
(* ResourceAdmission; here the locks alone must suffice.                   *)
(***************************************************************************)
EXTENDS ResourceLocks

CONSTANTS
    Outside,        \* the author of changes made by other programs
    MaxOutside,     \* bound on what other programs do
    Absent,         \* no file
    NoCall,         \* the thread has not called a tool
    Calls           \* the calls that may be made, a subset of Call

VARIABLES
    disk,       \* path -> text, Absent when there is no file
    call,       \* thread -> [tool, src, dst, flag]
    at,         \* thread -> the next step of the body
    before,     \* thread -> the text the caller or the edit read
    saved,      \* thread -> the text its backup holds, NoCall when it made none
    replaced,   \* thread -> the text its write replaced
    result,    \* thread -> how its call ended
    crossed,    \* thread -> another program wrote to a path of its call
    outside     \* what other programs have done

fileVars == <<disk, call, at, before, saved, replaced, result, crossed, outside>>
toolVars == <<lockVars, fileVars>>

Torn == {"torn"}
Tool == {"write", "create", "delete", "move", "copy", "edit", "refactor"}

Pair(c) == c.tool \in {"move", "copy"}

\* flag: write, the caller gives the hash of what it read (otherwise it allows
\* creation); edit, backup; delete, missing_ok; move and copy, overwrite.
Call == {c \in [tool : Tool, src : Key, dst : Key, flag : BOOLEAN] : Pair(c) \/ c.src = c.dst}

Paths(c) == IF Pair(c) THEN {c.src, c.dst} ELSE {c.src}
Src(t) == call[t].src
Dst(t) == call[t].dst

\* What the call writes: the whole text, or its change on top of what it loaded.
After(t) == IF call[t].tool \in {"edit", "refactor"} THEN before[t] \cup {t} ELSE {t}

ToolsInit ==
    /\ LocksInit
    /\ disk \in [Key -> {Absent, {Outside}}]
    /\ call = [t \in Thread |-> NoCall]
    /\ at = [t \in Thread |-> "call"]
    /\ before = [t \in Thread |-> {}]
    /\ saved = [t \in Thread |-> NoCall]
    /\ replaced = [t \in Thread |-> NoCall]
    /\ result = [t \in Thread |-> "none"]
    /\ crossed = [t \in Thread |-> FALSE]
    /\ outside = 0

\* A tool is called, by a caller that may have read the file; the locks of its
\* paths follow.
CallTool(t, c) ==
    /\ at[t] = "call"
    /\ Register(t, Paths(c))
    /\ call' = [call EXCEPT ![t] = c]
    /\ before' = [before EXCEPT ![t] = IF c.tool = "write" THEN disk[c.src] ELSE @]
    /\ at' = [at EXCEPT ![t] = "check"]
    /\ UNCHANGED <<disk, saved, replaced, result, crossed, outside>>

Inside(t, step) == stage[t] = "in" /\ at[t] = step
Go(t, step) == at' = [at EXCEPT ![t] = step] /\ UNCHANGED result
End(t, how) == at' = [at EXCEPT ![t] = "end"] /\ result' = [result EXCEPT ![t] = how]

\* The file is not the one whose hash the caller gives.
Stale(t) == call[t].flag /\ disk[Src(t)] # before[t]

\* write_file: a missing file needs create_if_missing.
CheckWrite(t) ==
    /\ Inside(t, "check") /\ call[t].tool = "write"
    /\ IF (disk[Src(t)] = Absent /\ call[t].flag) \/ Stale(t)
       THEN End(t, "refused")
       ELSE Go(t, "stat")
    /\ UNCHANGED <<disk, call, before, saved, replaced, crossed, outside>>

CheckCreate(t) ==
    /\ Inside(t, "check") /\ call[t].tool = "create"
    /\ IF disk[Src(t)] # Absent THEN End(t, "refused") ELSE Go(t, "stat")
    /\ UNCHANGED <<disk, call, before, saved, replaced, crossed, outside>>

\* The edits load the text and look for their place in it.
Load(t) ==
    /\ Inside(t, "check") /\ call[t].tool \in {"edit", "refactor"}
    /\ \/ End(t, "refused") /\ UNCHANGED before
       \/ /\ disk[Src(t)] # Absent
          /\ before' = [before EXCEPT ![t] = disk[Src(t)]]
          /\ Go(t, "stat")
    /\ UNCHANGED <<disk, call, saved, replaced, crossed, outside>>
-----------------------------------------------------------------------------
(***************************************************************************)
(* atomic_write                                                            *)
(***************************************************************************)

\* The tools that keep a backup of what they overwrite.
KeepsBackup(t) == call[t].tool \in {"write", "refactor"} \/ (call[t].tool = "edit" /\ call[t].flag)

\* The old text is read and hashed; a text that is there already is left.
Stat(t) ==
    /\ Inside(t, "stat")
    /\ \/ End(t, "failed")
       \/ disk[Src(t)] = After(t) /\ End(t, "unchanged")
       \/ /\ disk[Src(t)] # After(t)
          /\ call[t].tool = "create" => disk[Src(t)] = Absent
          /\ Go(t, IF disk[Src(t)] # Absent /\ KeepsBackup(t) THEN "backup" ELSE "replace")
    /\ UNCHANGED <<disk, call, before, saved, replaced, crossed, outside>>

\* _backup_file copies what is on disk.
Copied(t) == disk[Src(t)]

Backup(t) ==
    /\ Inside(t, "backup")
    /\ \/ End(t, "failed") /\ UNCHANGED saved
       \/ /\ disk[Src(t)] # Absent
          /\ saved' = [saved EXCEPT ![t] = Copied(t)]
          /\ Go(t, "replace")
    /\ UNCHANGED <<disk, call, before, replaced, crossed, outside>>

\* os.link of an exclusive creation needs the name to be free.
Linkable(t) == call[t].tool = "create" => disk[Src(t)] = Absent

\* The temporary file replaces the target, or is linked to it.
Replace(t) ==
    /\ Inside(t, "replace")
    /\ \/ End(t, "failed") /\ UNCHANGED <<disk, replaced>>
       \/ /\ Linkable(t)
          /\ disk' = [disk EXCEPT ![Src(t)] = After(t)]
          /\ replaced' = [replaced EXCEPT ![t] = disk[Src(t)]]
          /\ IF call[t].tool = "refactor" THEN Go(t, "validate") ELSE End(t, "changed")
    /\ UNCHANGED <<call, before, saved, crossed, outside>>

Original(t) == before[t]

\* safe_refactor: the validation command passes, or the old text is written back.
Validate(t) ==
    /\ Inside(t, "validate")
    /\ \/ End(t, "changed") /\ UNCHANGED disk
       \/ End(t, "failed") /\ UNCHANGED disk
       \/ /\ disk' = [disk EXCEPT ![Src(t)] = Original(t)]
          /\ End(t, "rolled_back")
    /\ UNCHANGED <<call, before, saved, replaced, crossed, outside>>
-----------------------------------------------------------------------------
Delete(t) ==
    /\ Inside(t, "check") /\ call[t].tool = "delete"
    /\ \/ disk[Src(t)] = Absent /\ End(t, IF call[t].flag THEN "unchanged" ELSE "refused")
          /\ UNCHANGED disk
       \/ End(t, "failed") /\ UNCHANGED disk
       \/ /\ disk[Src(t)] # Absent
          /\ disk' = [disk EXCEPT ![Src(t)] = Absent]
          /\ End(t, "changed")
    /\ UNCHANGED <<call, before, saved, replaced, crossed, outside>>

\* move_file and copy_file: the source must be there, the destination only
\* with overwrite; move_file deletes it first.
CheckPair(t) ==
    /\ Inside(t, "check") /\ call[t].tool \in {"move", "copy"}
    /\ \/ /\ \/ disk[Src(t)] = Absent
             \/ Src(t) = Dst(t)
             \/ disk[Dst(t)] # Absent /\ ~call[t].flag
          /\ End(t, "refused") /\ UNCHANGED disk
       \/ /\ disk[Src(t)] # Absent /\ Src(t) # Dst(t)
          /\ disk[Dst(t)] # Absent => call[t].flag
          /\ disk' = [disk EXCEPT ![Dst(t)] = IF call[t].tool = "move" THEN Absent ELSE Torn]
          /\ Go(t, "transfer")
    /\ UNCHANGED <<call, before, saved, replaced, crossed, outside>>

\* shutil.move or the rest of the copy.
Transfer(t) ==
    /\ Inside(t, "transfer")
    /\ \/ End(t, "failed") /\ UNCHANGED disk
       \/ /\ disk[Src(t)] # Absent
          /\ disk' = [disk EXCEPT ![Dst(t)] = disk[Src(t)],
                                  ![Src(t)] = IF call[t].tool = "move" THEN Absent ELSE @]
          /\ End(t, "changed")
    /\ UNCHANGED <<call, before, saved, replaced, crossed, outside>>

FileStep(t) ==
    /\ \/ CheckWrite(t) \/ CheckCreate(t) \/ Load(t) \/ Stat(t) \/ Backup(t) \/ Replace(t)
       \/ Validate(t) \/ Delete(t) \/ CheckPair(t) \/ Transfer(t)
    /\ UNCHANGED lockVars

LockStep(t) ==
    /\ \/ \E k \in Key : Acquire(t, k)
       \/ Enter(t)
       \/ at[t] = "end" /\ Release(t)
    /\ UNCHANGED fileVars

\* The call returns.
ReturnTool(t) ==
    /\ Unregister(t)
    /\ call' = [call EXCEPT ![t] = NoCall]
    /\ at' = [at EXCEPT ![t] = "done"]
    /\ before' = [before EXCEPT ![t] = {}]
    /\ replaced' = [replaced EXCEPT ![t] = NoCall]
    /\ result' = [result EXCEPT ![t] = "none"]
    /\ crossed' = [crossed EXCEPT ![t] = FALSE]
    /\ saved' = [saved EXCEPT ![t] = NoCall]
    /\ UNCHANGED <<disk, outside>>

\* Another program writes or deletes a file of a call.
OutsideWrites(k) ==
    /\ outside < MaxOutside /\ \E t \in Thread : k \in asked[t]
    /\ outside' = outside + 1
    /\ disk' = [disk EXCEPT ![k] = IF @ = {Outside} THEN Absent ELSE {Outside}]
    /\ crossed' = [t \in Thread |-> crossed[t] \/ k \in asked[t]]
    /\ UNCHANGED <<lockVars, call, at, before, saved, replaced, result>>

ToolsNext ==
    \/ \E t \in Thread, c \in Calls : CallTool(t, c)
    \/ \E t \in Thread : FileStep(t) \/ LockStep(t) \/ ReturnTool(t)
    \/ \E k \in Key : OutsideWrites(k)

-----------------------------------------------------------------------------
(***************************************************************************)
(* A write replaces the text it was computed from: an edit and a refactor  *)
(* the text they loaded, a write with expected_sha256 the text its caller  *)
(* read before the call, a creation nothing at all.  Only another program  *)
(* can come between, and not even it for a creation.                       *)
(***************************************************************************)
ReplacesWhatWasRead ==
    \A t \in Thread : replaced[t] # NoCall =>
        /\ call[t].tool = "create" => replaced[t] = Absent
        /\ crossed[t] \/ (call[t].tool = "write" => ~call[t].flag) \/ replaced[t] = before[t]
        /\ crossed[t] \/ call[t].tool \in {"write", "create"} \/ replaced[t] = before[t]

(***************************************************************************)
(* Whatever a tool that keeps backups overwrote is in a backup.            *)
(***************************************************************************)
OverwrittenIsSaved ==
    \A t \in Thread : replaced[t] \notin {NoCall, Absent} /\ KeepsBackup(t) =>
        crossed[t] \/ saved[t] = replaced[t]

(***************************************************************************)
(* "edit was rolled back" means that the file again is what it was before  *)
(* the refactoring, whatever the other tools were asked to do meanwhile.   *)
(***************************************************************************)
RollbackRestores ==
    \A t \in Thread : stage[t] = "in" /\ result[t] = "rolled_back" /\ ~crossed[t] =>
        disk[Src(t)] = replaced[t]

=============================================================================
