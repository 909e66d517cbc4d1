--------------------------- MODULE BackupRetention ---------------------------
(***************************************************************************)
(* The backup directory shared by several processes: BackupRetentionManager *)
(* and cleanup_backups (core/backups.py), the file tools that make backups *)
(* and schedule a cleanup, and apply_workspace_edit (tools/language/       *)
(* edits.py), whose backups must survive until its recovery record is      *)
(* resolved.                                                               *)
(*                                                                         *)
(* Backups are numbered in the order of their time stamps; two marks move  *)
(* up with time: a backup above graceMark is younger than the grace period, *)
(* one at or below ageMark is older than max_age_sec.  Backups have one    *)
(* size, so that the byte quota is a quota on their number.                *)
(***************************************************************************)
EXTENDS Integers, FiniteSets

CONSTANTS
    Process,        \* processes with a retention manager
    Editing,        \* the processes that apply workspace edits
    NoProcess,
    MaxBackups,     \* bound on the backups ever made
    MaxCount,       \* policy.max_count
    MaxKills        \* bound on the processes killed

ASSUME RetentionAssumption == {MaxBackups, MaxCount, MaxKills} \subseteq Nat /\ NoProcess \notin Process

VARIABLES
    files,      \* the backups on disk
    made,       \* the number of backups made
    graceMark,
    ageMark,
    flock,      \* the process that holds the retention lock file
    dirty,      \* process -> a cleanup is asked for
    cleaner,    \* process -> "none", "top", "wait", "clean": its daemon thread
    shielded,   \* process -> _protected
    carried,    \* process -> the protected set the thread has taken along
    editor,     \* process -> where apply_workspace_edit is
    backupOf,   \* process -> the backup reserved for its edit, 0 for none
    pins,       \* process -> the pinned backups
    target,     \* process -> the edited file: "before", "after"
    record,     \* process -> the state of its recovery record
    kills

retentionVars == <<files, made, graceMark, ageMark, flock, dirty, cleaner, shielded, carried,
                   editor, backupOf, pins, target, record, kills>>
editVars == <<editor, backupOf, pins, target, record, kills>>
passVars == <<dirty, cleaner, shielded, carried>>

RetentionInit ==
    /\ files = {} /\ made = 0 /\ graceMark = 0 /\ ageMark = 0
    /\ flock = NoProcess
    /\ dirty = [p \in Process |-> FALSE]
    /\ cleaner = [p \in Process |-> "none"]
    /\ shielded = [p \in Process |-> {}]
    /\ carried = [p \in Process |-> {}]
    /\ editor = [p \in Process |-> "idle"]
    /\ backupOf = [p \in Process |-> 0]
    /\ pins = [p \in Process |-> {}]
    /\ target = [p \in Process |-> "before"]
    /\ record = [p \in Process |-> "none"]
    /\ kills = 0

TimePasses ==
    /\ \/ graceMark < made /\ graceMark' = graceMark + 1 /\ UNCHANGED ageMark
       \/ ageMark < graceMark /\ ageMark' = ageMark + 1 /\ UNCHANGED graceMark
    /\ UNCHANGED <<files, made, flock, passVars, editVars>>

Living(p) == editor[p] # "killed"

\* schedule: the flag, the path, and the thread unless it runs.
Schedule(p, b) ==
    /\ dirty' = [dirty EXCEPT ![p] = TRUE]
    /\ shielded' = [shielded EXCEPT ![p] = @ \cup {b}]
    /\ cleaner' = [cleaner EXCEPT ![p] = IF @ = "none" THEN "top" ELSE @]
    /\ UNCHANGED carried

\* A file tool makes a backup and schedules a cleanup (atomic_write).
ToolBackup(p) ==
    /\ Living(p) /\ made < MaxBackups
    /\ made' = made + 1
    /\ files' = files \cup {made + 1}
    /\ Schedule(p, made + 1)
    /\ UNCHANGED <<graceMark, ageMark, flock, editVars>>
-----------------------------------------------------------------------------
(***************************************************************************)
(* The daemon thread of a manager                                          *)
(***************************************************************************)

\* The top of _run, under its lock: take the request, or end the thread.
LoopTop(p) ==
    /\ cleaner[p] = "top"
    /\ IF dirty[p]
       THEN /\ cleaner' = [cleaner EXCEPT ![p] = "wait"]
            /\ dirty' = [dirty EXCEPT ![p] = FALSE]
            /\ carried' = [carried EXCEPT ![p] = shielded[p]]
       ELSE /\ cleaner' = [cleaner EXCEPT ![p] = "none"]
            /\ UNCHANGED <<dirty, carried>>
    /\ UNCHANGED <<files, made, graceMark, ageMark, flock, shielded, editVars>>

\* The lock file, held by nobody; or the wait for it times out.
LockRetention(p) ==
    /\ cleaner[p] = "wait"
    /\ \/ /\ flock = NoProcess
          /\ flock' = p
          /\ cleaner' = [cleaner EXCEPT ![p] = "clean"]
          /\ carried' = [carried EXCEPT ![p] = @ \cup shielded[p]]
          /\ shielded' = [shielded EXCEPT ![p] = {}]
       \/ /\ flock # NoProcess
          /\ cleaner' = [cleaner EXCEPT ![p] = "top"]
          /\ carried' = [carried EXCEPT ![p] = {}]
          /\ UNCHANGED <<flock, shielded>>
    /\ UNCHANGED <<files, made, graceMark, ageMark, dirty, editVars>>

\* Mutant: only records that are uncertain protect.
JournalProtectedUncertain ==
    {backupOf[p] : p \in {q \in Process : record[q] = "uncertain"}}

\* protected_workspace_backups: the backups of unresolved workspace edits.
JournalProtected ==
    {backupOf[p] : p \in {q \in Process : record[q] \in {"prepared", "may_dispatch", "uncertain"}}}

Newest == {b \in files : \A c \in files : c <= b}
Recent == {b \in files : b > graceMark}

\* The n oldest of some backups.
OldestFirst(some, n) == {b \in some : Cardinality({c \in some : c < b}) < n}

\* cleanup_backups, when the files in `stuck` cannot be deleted: the aged ones
\* go first, then the oldest until the quota is met; what is protected stays.
CleanupBackups(protected, stuck) ==
    LET safe == protected \cup Newest \cup Recent
        kept == files \ {b \in files \ (safe \cup stuck) : b <= ageMark}
    IN  kept \ OldestFirst(kept \ (safe \cup stuck), Cardinality(kept) - MaxCount)

\* The pass under the lock file; an unreadable journal deletes nothing.
CleanPass(p) ==
    /\ cleaner[p] = "clean"
    /\ \/ UNCHANGED files
       \/ \E stuck \in SUBSET files :
            files' = CleanupBackups(carried[p] \cup pins[p] \cup JournalProtected, stuck)
    /\ flock' = NoProcess
    /\ cleaner' = [cleaner EXCEPT ![p] = "top"]
    /\ carried' = [carried EXCEPT ![p] = {}]
    /\ UNCHANGED <<made, graceMark, ageMark, dirty, shielded, editVars>>
-----------------------------------------------------------------------------
(***************************************************************************)
(* apply_workspace_edit                                                    *)
(***************************************************************************)
EditStep(p, from, to) == editor[p] = from /\ editor' = [editor EXCEPT ![p] = to]

\* The record has begun; a time stamp and a name are reserved.
ReserveBackup(p) ==
    /\ EditStep(p, "idle", "reserved")
    /\ p \in Editing /\ made < MaxBackups
    /\ made' = made + 1
    /\ backupOf' = [backupOf EXCEPT ![p] = made + 1]
    /\ record' = [record EXCEPT ![p] = "running"]
    /\ UNCHANGED <<files, graceMark, ageMark, flock, passVars, pins, target, kills>>

\* pin_paths: the lock file, then the pin.
PinPaths(p) ==
    /\ flock = NoProcess
    /\ EditStep(p, "reserved", "pinned")
    /\ flock' = p
    /\ pins' = [pins EXCEPT ![p] = {backupOf[p]}]
    /\ UNCHANGED <<files, made, graceMark, ageMark, passVars, backupOf, target, record, kills>>

\* The verified copy at the reserved name.
SaveBackup(p) ==
    /\ EditStep(p, "pinned", "saved")
    /\ files' = files \cup {backupOf[p]}
    /\ UNCHANGED <<made, graceMark, ageMark, flock, passVars, backupOf, pins, target, record, kills>>

\* The two checkpoints of the record.
CheckpointEdit(p) ==
    /\ \/ EditStep(p, "saved", "prepared") /\ record' = [record EXCEPT ![p] = "prepared"]
       \/ EditStep(p, "prepared", "writing") /\ record' = [record EXCEPT ![p] = "may_dispatch"]
    /\ UNCHANGED <<files, made, graceMark, ageMark, flock, passVars, backupOf, pins, target, kills>>

WriteTarget(p) ==
    /\ \/ EditStep(p, "writing", "written") /\ target' = [target EXCEPT ![p] = "after"]
       \/ EditStep(p, "writing", "restoring")
          /\ \E text \in {"before", "after"} : target' = [target EXCEPT ![p] = text]
       \/ EditStep(p, "written", "restoring") /\ UNCHANGED target      \* verification failed
    /\ UNCHANGED <<files, made, graceMark, ageMark, flock, passVars, backupOf, pins, record, kills>>

\* The except branch: restored and finished, or uncertain; the record may be
\* out of reach in either case.
RestoreTarget(p) ==
    /\ EditStep(p, "restoring", "leaving")
    /\ \/ /\ target' = [target EXCEPT ![p] = "before"]
          /\ record' \in {record, [record EXCEPT ![p] = "finished"]}
       \/ /\ UNCHANGED target
          /\ record' \in {record, [record EXCEPT ![p] = "uncertain"]}
    /\ UNCHANGED <<files, made, graceMark, ageMark, flock, passVars, backupOf, pins, kills>>

\* A step before the first write fails (the lock file may not come free in
\* time): nothing was changed, and the record says so or stays as it is.
AbandonEdit(p) ==
    /\ editor[p] \in {"reserved", "pinned", "saved", "prepared"}
    /\ editor' = [editor EXCEPT ![p] = IF @ = "reserved" THEN "done" ELSE "leaving"]
    /\ record' \in {record, [record EXCEPT ![p] = "finished"]}
    /\ UNCHANGED <<files, made, graceMark, ageMark, flock, passVars, backupOf, pins, target, kills>>

\* The pin and the lock file are given back.
UnpinPaths(p) ==
    /\ editor[p] \in {"written", "leaving"}
    /\ editor' = [editor EXCEPT ![p] = IF @ = "written" THEN "finishing" ELSE "done"]
    /\ pins' = [pins EXCEPT ![p] = {}]
    /\ flock' = NoProcess
    /\ UNCHANGED <<files, made, graceMark, ageMark, passVars, backupOf, target, record, kills>>

\* The mutation context ends and records the success.
FinishEdit(p) ==
    /\ EditStep(p, "finishing", "done")
    /\ record' \in {record, [record EXCEPT ![p] = "finished"]}
    /\ UNCHANGED <<files, made, graceMark, ageMark, flock, passVars, backupOf, pins, target, kills>>

\* A process is killed: its pins and its lock file go with it.
KillEditor(p) ==
    /\ kills < MaxKills /\ Living(p)
    /\ kills' = kills + 1
    /\ editor' = [editor EXCEPT ![p] = "killed"]
    /\ pins' = [pins EXCEPT ![p] = {}]
    /\ flock' = IF flock = p THEN NoProcess ELSE flock
    /\ cleaner' = [cleaner EXCEPT ![p] = "none"]
    /\ dirty' = [dirty EXCEPT ![p] = FALSE]
    /\ shielded' = [shielded EXCEPT ![p] = {}]
    /\ carried' = [carried EXCEPT ![p] = {}]
    /\ UNCHANGED <<files, made, graceMark, ageMark, backupOf, target, record>>

\* An operator resolves what a killed or failed edit left.
ReconcileEdit(p) ==
    /\ editor[p] \in {"killed", "done"}
    /\ record[p] \in {"running", "prepared", "may_dispatch", "uncertain"}
    /\ record' = [record EXCEPT ![p] = "reconciled"]
    /\ UNCHANGED <<files, made, graceMark, ageMark, flock, passVars, editor, backupOf, pins, target, kills>>

CleanerStep(p) == LoopTop(p) \/ LockRetention(p) \/ CleanPass(p)
EditorStep(p) ==
    \/ ReserveBackup(p) \/ PinPaths(p) \/ SaveBackup(p) \/ CheckpointEdit(p) \/ WriteTarget(p)
    \/ RestoreTarget(p) \/ AbandonEdit(p) \/ UnpinPaths(p) \/ FinishEdit(p)

RetentionNext ==
    \/ TimePasses
    \/ \E p \in Process : ToolBackup(p) \/ CleanerStep(p) \/ EditorStep(p) \/ KillEditor(p)
                          \/ ReconcileEdit(p)

RetentionSpec == RetentionInit /\ [][RetentionNext]_retentionVars
-----------------------------------------------------------------------------
RetentionTypeOK ==
    /\ files \subseteq 1 .. made
    /\ ageMark <= graceMark /\ graceMark <= made
    /\ flock \in Process \cup {NoProcess}
    /\ \A p \in Process :
         /\ cleaner[p] = "clean" => flock = p
         /\ shielded[p] \cup carried[p] \subseteq 1 .. made

(***************************************************************************)
(* While a workspace edit has changed its file and its record is neither   *)
(* finished nor reconciled, the backup it can be undone from exists,       *)
(* whichever process cleans up, however old the backup is and whoever dies *)
(* (pin_paths, protected_workspace_backups).                               *)
(***************************************************************************)
EditRecoverable ==
    \A p \in Process :
        target[p] = "after" /\ record[p] \notin {"finished", "reconciled"} => backupOf[p] \in files

(***************************************************************************)
(* A cleanup that deletes something leaves the newest backup and never     *)
(* deletes more than age and quota ask for: below the quota only aged      *)
(* backups go.                                                             *)
(***************************************************************************)
DeletesByPolicy ==
    \A b \in files \ files' :
      /\ b \notin Newest /\ b <= graceMark
      /\ b <= ageMark \/ Cardinality(files) > MaxCount
      /\ b <= ageMark \/ Cardinality(files') >= MaxCount

(***************************************************************************)
(* A cleanup that was asked for is not forgotten between a thread that is  *)
(* ending and a caller that takes it to be running: as long as it has not  *)
(* been taken up, a thread that will look for it again is there.           *)
(***************************************************************************)
ScheduleKept == \A p \in Process : dirty[p] => cleaner[p] \in {"top", "wait", "clean"}

(***************************************************************************)
(* Retention never takes the backup of an edit that may have to be undone, *)
(* whichever process cleans, and no wanted pass is forgotten.              *)
(***************************************************************************)
RetentionSound == RetentionTypeOK /\ EditRecoverable /\ ScheduleKept

(***************************************************************************)
(* Why it holds: whoever edits holds the lock file from the pin on, so that *)
(* no pass runs before the record protects the backup, and the record has  *)
(* its checkpoint before the file changes.                                 *)
(***************************************************************************)
Undecided == {"prepared", "may_dispatch", "uncertain"}
Holding == {"pinned", "saved", "prepared", "writing", "written", "restoring", "leaving"}

RetentionTypes ==
    /\ made \in Nat /\ graceMark \in 0 .. made /\ ageMark \in 0 .. graceMark /\ kills \in Nat
    /\ files \subseteq 1 .. made /\ flock \in Process \cup {NoProcess}
    /\ dirty \in [Process -> BOOLEAN] /\ cleaner \in [Process -> {"none", "top", "wait", "clean"}]
    /\ shielded \in [Process -> SUBSET (1 .. made)] /\ carried \in [Process -> SUBSET (1 .. made)]
    /\ editor \in [Process -> {"idle", "reserved", "finishing", "done", "killed"} \cup Holding]
    /\ backupOf \in [Process -> 0 .. made] /\ pins \in [Process -> SUBSET (1 .. made)]
    /\ target \in [Process -> {"before", "after"}]
    /\ record \in [Process -> {"none", "running", "finished", "reconciled"} \cup Undecided]

LockKept(p) ==
    /\ editor[p] \in Holding => flock = p /\ cleaner[p] # "clean"
    /\ cleaner[p] = "clean" => flock = p
    /\ dirty[p] => cleaner[p] # "none"

RecordKept(p) ==
    /\ editor[p] \in {"reserved", "pinned"} => backupOf[p] # 0
    /\ editor[p] \in {"idle", "reserved", "pinned", "saved", "prepared"} => target[p] = "before"
    /\ editor[p] \in {"writing", "written", "restoring", "finishing"} => record[p] = "may_dispatch"
    /\ target[p] = "after" => record[p] \in {"may_dispatch", "uncertain", "finished", "reconciled"}
    /\ record[p] \in Undecided \/ editor[p] = "saved" => backupOf[p] \in files
    /\ editor[p] = "prepared" => record[p] = "prepared"

RetentionInv == RetentionTypes /\ \A p \in Process : LockKept(p) /\ RecordKept(p)
=============================================================================
