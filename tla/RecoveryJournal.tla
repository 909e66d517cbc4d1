--------------------------- MODULE RecoveryJournal ---------------------------
(***************************************************************************)
(* The operation recovery journal of core/recovery.py: an append-only file *)
(* that every runtime process on one state directory shares, and the       *)
(* mutating tool calls that write to it (compact_errors in core/tooling.py,*)
(* native_uia_mutation, workspace_edit_mutation with                       *)
(* tools/language/edits.py, execute_guarded_call of the extensions).       *)
(*                                                                         *)
(* Every journal call holds the interprocess file lock from its read to    *)
(* its append, hence is one step.  The file is abstracted to the kinds of  *)
(* records it holds for each operation, which is what _state() keeps of it *)
(* (a later record of a kind replaces an earlier one, and checkpoints are  *)
(* merged), and to the operations whose records are out of order, which    *)
(* only the strict reader looks at.                                        *)
(*                                                                         *)
(* A new runtime normally starts when the previous one is dead, but the    *)
(* supervisor goes on when a process survives its cleanup, so runtimes may *)
(* overlap.                                                                *)
(***************************************************************************)
EXTENDS Integers, FiniteSets

CONSTANTS
    Op,             \* operations (tool calls), each made at most once
    Runtimes,       \* bound on the runtimes that are started one after the other
    MaxExternal,    \* _max_unresolved_external
    MaxWorkspace,   \* _max_unresolved_workspace
    MaxHistory      \* _max_external_terminal_history

Runtime == 1 .. Runtimes

(***************************************************************************)
(* Which protocol the tool of a call follows:                              *)
(* plain      a native mutation without checkpoints                        *)
(* verify     verify_changes, which marks a possible test run itself       *)
(* document   a native mutation that checkpoints a postcondition           *)
(* uia        a UI Automation mutation                                     *)
(* workspace  apply_workspace_edit called directly, owning its operation   *)
(* rename     apply_workspace_edit inside the operation of a rename tool   *)
(* external   a mutating tool of an extension                              *)
(***************************************************************************)
Classes == {"plain", "verify", "document", "uia", "workspace", "rename", "external"}

ASSUME JournalAssumption ==
    IsFiniteSet(Op) /\ {Runtimes, MaxExternal, MaxWorkspace, MaxHistory} \subseteq Nat

VARIABLES
    rec,        \* operation -> kinds of its records in the file
    late,       \* operations with a checkpoint after a final record
    class,      \* operation -> the protocol of its tool, set when it begins
    home,       \* operation -> runtime_id of its begin record, 0 when none
    started,    \* the runtimes started so far are 1 .. started
    up,         \* the runtimes whose process lives
    at,         \* operation -> where its call is
    effect,     \* operations whose side effect is, perhaps partly, in place
    denied      \* history: operations the journal ever called failed

journal == <<rec, late>>
callVars == <<class, home, at, effect, denied>>
vars == <<journal, callVars, started, up>>

Checkpoint == {"prepared", "may_dispatch", "postcondition"}
Result == {"ok", "error"}
Resolution == {"reconciliation", "acknowledged"}
Final == Result \cup Resolution
Kind == {"begin", "uncertain"} \cup Checkpoint \cup Final

Edit == {"workspace", "rename"}

\* The protocols with a durable may_dispatch stage before the effect.
Staged == Edit \cup {"uia", "external"}

\* _state: what the readers see of an operation.
Seen(o) == IF "begin" \in rec[o] THEN rec[o] ELSE {}

\* _is_unresolved_external_item and _is_unresolved_workspace_item
Unresolved(o) == Seen(o) # {} /\ Seen(o) \cap Final = {}
UnresolvedExternal == {o \in Op : class[o] = "external" /\ Unresolved(o)}
UnresolvedWorkspace ==
    {o \in Op : /\ Unresolved(o)
                /\ \/ class[o] = "workspace"
                   \/ class[o] = "rename" /\ Seen(o) \cap Checkpoint # {}}

(***************************************************************************)
(* The state of an operation in _operation_view.                           *)
(***************************************************************************)
View(records) ==
    IF "begin" \notin records THEN "gone"
    ELSE IF "acknowledged" \in records THEN "acknowledged"
    ELSE IF "reconciliation" \in records THEN "reconciliation"
    ELSE IF "error" \in records THEN "error"
    ELSE IF "ok" \in records THEN "ok"
    ELSE IF "uncertain" \in records THEN "uncertain" ELSE "running"

(***************************************************************************)
(* _validate_workspace_records over the whole file: every record follows   *)
(* the begin of its operation, no checkpoint follows a final record.       *)
(***************************************************************************)
Valid == late = {} /\ \A o \in Op : rec[o] # {} => "begin" \in rec[o]

\* _append_unlocked_file; of several results of an operation the readers keep the last
AppendRecord(o, kind) ==
    /\ rec' = [rec EXCEPT ![o] = (IF kind \in Result THEN @ \ Result ELSE @) \cup {kind}]
    /\ denied' = IF kind = "error" THEN denied \cup {o} ELSE denied
    /\ late' = IF kind \in Checkpoint /\ rec[o] \cap Final # {} THEN late \cup {o} ELSE late

NoAppend == UNCHANGED <<rec, late, denied>>

Goto(o, place) == at' = [at EXCEPT ![o] = place] /\ UNCHANGED <<class, home, started, up>>

Live(o) == home[o] \in up

Init ==
    /\ rec = [o \in Op |-> {}] /\ late = {}
    /\ class = [o \in Op |-> "plain"] /\ home = [o \in Op |-> 0] /\ at = [o \in Op |-> "idle"]
    /\ effect = {} /\ denied = {}
    /\ started = 0 /\ up = {}
-----------------------------------------------------------------------------
(***************************************************************************)
(* configure, at the start of a runtime: under the file lock the strict    *)
(* reader validates the journal, and the operations that another runtime   *)
(* began and left without outcome are settled.  The protocols that promise *)
(* a may_dispatch checkpoint before the effect prove that nothing happened *)
(* when it is missing.                                                     *)
(***************************************************************************)
\* Mutant: the stage of the workspace checkpoint is not looked at.
PreparedWasEnough(o) ==
    \/ class[o] = "uia" /\ "may_dispatch" \notin rec[o]
    \/ class[o] \in Edit /\ "prepared" \in rec[o]

BeforeDispatch(o) ==
    \/ class[o] \in {"workspace", "uia"} /\ "may_dispatch" \notin rec[o]
    \/ class[o] = "rename" /\ "prepared" \in rec[o] /\ "may_dispatch" \notin rec[o]

Interrupted == {o \in Op : Unresolved(o) /\ "uncertain" \notin rec[o]}

RecoverPrevious(ops) ==
    LET failed == {o \in ops : BeforeDispatch(o)}
    IN  /\ rec' = [o \in Op |-> rec[o] \cup IF o \in failed THEN {"error"}
                                          ELSE IF o \in ops THEN {"uncertain"} ELSE {}]
        /\ denied' = denied \cup failed

Configure ==
    /\ started < Runtimes /\ Valid
    /\ started' = started + 1 /\ up' = up \cup {started + 1}
    /\ RecoverPrevious(Interrupted)
    /\ UNCHANGED <<late, class, home, at, effect>>

\* The new process dies while it settles them.
DieInConfigure ==
    /\ started < Runtimes /\ Valid
    /\ started' = started + 1
    /\ \E ops \in SUBSET Interrupted : RecoverPrevious(ops)
    /\ UNCHANGED <<late, class, home, at, effect, up>>

\* The process of runtime r dies, with the calls it runs.
Die(r) ==
    /\ r \in up /\ up' = up \ {r}
    /\ at' = [o \in Op |-> IF home[o] = r /\ at[o] # "ended" THEN "dead" ELSE at[o]]
    /\ UNCHANGED <<journal, class, home, effect, denied, started>>

(***************************************************************************)
(* _compact_locked, which a journal call runs after its append, under a    *)
(* new file lock, once the file has grown by COMPACT_AFTER_RECORDS (the    *)
(* count is abstracted: it may be any time).  It drops the operations      *)
(* with a result, and the resolved external ones that are too old (any of  *)
(* them may be) or beyond the history limit.                               *)
(***************************************************************************)
\* Mutant: an uncertain external operation counts as resolved.
UncertainIsResolved ==
    {o \in Op : class[o] = "external" /\ Seen(o) \cap (Resolution \cup {"uncertain"}) # {}}

ResolvedExternal == {o \in Op : class[o] = "external" /\ Seen(o) \cap Resolution # {}}

Compact(r) ==
    /\ r \in up /\ Valid
    /\ \E old \in SUBSET ResolvedExternal :
         /\ Cardinality(ResolvedExternal \ old) <= MaxHistory
         /\ rec' = [o \in Op |-> IF rec[o] \cap Result # {} \/ o \in old THEN {} ELSE rec[o]]
    /\ UNCHANGED <<late, callVars, started, up>>
-----------------------------------------------------------------------------
(***************************************************************************)
(* The calls.  begin: an external one is refused at the quota.             *)
(***************************************************************************)
Begin(o, r, c) ==
    /\ r \in up /\ at[o] = "idle"
    /\ c = "external" => Cardinality(UnresolvedExternal) < MaxExternal
    /\ AppendRecord(o, "begin")
    /\ class' = [class EXCEPT ![o] = c] /\ home' = [home EXCEPT ![o] = r]
    /\ at' = [at EXCEPT ![o] = IF c \in {"plain", "verify"} THEN "ready" ELSE "begun"]
    /\ UNCHANGED <<effect, started, up>>

\* checkpoint_postcondition, before a document is published
CheckpointPostcondition(o) ==
    /\ Live(o) /\ class[o] = "document" /\ at[o] = "begun"
    /\ IF Seen(o) # {} /\ Seen(o) \cap Result = {}
       THEN AppendRecord(o, "postcondition") /\ Goto(o, "ready")
       ELSE NoAppend /\ Goto(o, "raising")
    /\ UNCHANGED effect

\* Mutant: a result does not close the barrier.
OpenDespiteResult(o) == Seen(o) # {} /\ Seen(o) \cap (Resolution \cup {"uncertain"}) = {}

\* The check shared by the staged checkpoints: no outcome of any kind yet.
Open(o) == Seen(o) # {} /\ Seen(o) \cap (Final \cup {"uncertain"}) = {}

CheckpointPrepared(o) ==
    /\ Live(o) /\ class[o] \in Edit \cup {"uia"} /\ at[o] = "begun"
    /\ IF /\ Open(o)
          /\ class[o] \in Edit => Cardinality(UnresolvedWorkspace \ {o}) < MaxWorkspace
       THEN AppendRecord(o, "prepared") /\ Goto(o, "prepared")
       ELSE NoAppend /\ Goto(o, "raising")
    /\ UNCHANGED effect

(***************************************************************************)
(* The dispatch barrier.  An external call that is refused here ends with  *)
(* nothing recorded.                                                       *)
(***************************************************************************)
CheckpointMayDispatch(o) ==
    /\ Live(o) /\ class[o] \in Staged
    /\ at[o] = IF class[o] = "external" THEN "begun" ELSE "prepared"
    /\ IF Open(o)
       THEN AppendRecord(o, "may_dispatch") /\ Goto(o, "ready")
       ELSE NoAppend /\ Goto(o, IF class[o] = "external" THEN "ended" ELSE "raising")
    /\ UNCHANGED effect

(***************************************************************************)
(* An external call before the barrier: finish_not_dispatched when its     *)
(* lease is stale, nothing at all when its deadline passes.                *)
(***************************************************************************)
FinishNotDispatched(o) ==
    /\ Live(o) /\ class[o] = "external" /\ at[o] = "begun"
    /\ IF Seen(o) # {} /\ Seen(o) \cap (Result \cup {"uncertain", "may_dispatch"}) = {}
       THEN AppendRecord(o, "error") ELSE NoAppend
    /\ Goto(o, "ended") /\ UNCHANGED effect

DeadlinePasses(o) ==
    /\ Live(o) /\ class[o] = "external" /\ at[o] = "begun"
    /\ Goto(o, "ended") /\ NoAppend /\ UNCHANGED effect

Act(o) ==
    /\ Live(o) /\ at[o] = "ready"
    /\ effect' = effect \cup {o} /\ Goto(o, "acted") /\ NoAppend

\* A call may raise anywhere; an external one that raises before the barrier has a case above.
Raise(o) ==
    /\ Live(o) /\ at[o] \in {"begun", "prepared", "ready", "acted"}
    /\ class[o] = "external" => at[o] # "begun"
    /\ Goto(o, "raising") /\ NoAppend /\ UNCHANGED effect

\* mark_uncertain
MarkUncertain(o) ==
    IF Seen(o) # {} /\ Seen(o) \cap (Result \cup {"uncertain"}) = {}
    THEN AppendRecord(o, "uncertain") ELSE NoAppend

(***************************************************************************)
(* finish: an uncertain operation is refused, a dispatched one that raised *)
(* (for UI Automation also one that failed) becomes uncertain, any other   *)
(* gets a result, whether or not the file still has its begin.             *)
(***************************************************************************)
Finish(o, known) ==
    IF "uncertain" \in Seen(o) THEN NoAppend
    ELSE IF /\ "may_dispatch" \in Seen(o)
            /\ \/ class[o] \in Edit /\ known = "raised"
               \/ class[o] = "uia" /\ known # "ok"
    THEN AppendRecord(o, "uncertain")
    ELSE AppendRecord(o, IF known = "ok" THEN "ok" ELSE "error")

\* The call returns, with or without having done anything: finish_returned, or the finish of
\* its own protocol.
Return(o) ==
    /\ Live(o)
    /\ at[o] = "acted" \/ (at[o] = "begun" /\ class[o] \in {"document", "uia", "rename"})
    /\ \/ Finish(o, "ok")
       \/ /\ class[o] \in {"plain", "verify", "document", "uia"} \/ at[o] = "begun"
          /\ Finish(o, "returned_error")
       \/ class[o] \in {"verify", "external"} /\ MarkUncertain(o)
    /\ Goto(o, "ended") /\ UNCHANGED effect

(***************************************************************************)
(* The handlers of a call that raised.  A dispatched workspace edit has    *)
(* them in RollBack and KeepPartialEdit.                                   *)
(***************************************************************************)
EditDispatched(o) == class[o] \in Edit /\ "may_dispatch" \in rec[o]

RecordRaised(o) ==
    /\ Live(o) /\ at[o] = "raising" /\ ~ EditDispatched(o)
    /\ \/ class[o] \in {"plain", "document", "uia", "rename"} /\ Finish(o, "raised")
       \/ class[o] = "verify" /\ o \notin effect /\ Finish(o, "raised")
       \/ class[o] = "verify" /\ o \in effect /\ MarkUncertain(o)
       \/ class[o] = "external" /\ MarkUncertain(o)
       \/ /\ class[o] = "workspace"
          /\ IF Seen(o) \cap (Final \cup {"uncertain"}) # {} THEN NoAppend
             ELSE Finish(o, "returned_error")
    /\ Goto(o, "ended") /\ UNCHANGED effect

\* apply_workspace_edit could restore every file; an error of its finish is ignored.
RollBack(o) ==
    /\ Live(o) /\ at[o] = "raising" /\ EditDispatched(o)
    /\ effect' = effect \ {o} /\ Goto(o, "restored")
    /\ Finish(o, "returned_error") \/ NoAppend

\* apply_workspace_edit could not restore every file, or the tool raised after a complete edit.
KeepPartialEdit(o) ==
    /\ Live(o) /\ at[o] = "raising" /\ EditDispatched(o)
    /\ MarkUncertain(o) /\ Goto(o, "ended") /\ UNCHANGED effect

(***************************************************************************)
(* The error of a restored edit then reaches the handler of the enclosing  *)
(* operation: workspace_edit_mutation, which asks workspace_edit_stage     *)
(* first, or the wrapper of the rename tool.                               *)
(***************************************************************************)
RecordRestored(o) ==
    /\ Live(o) /\ at[o] = "restored"
    /\ IF class[o] = "rename" THEN Finish(o, "raised")
       ELSE IF Seen(o) \cap (Final \cup {"uncertain"}) # {} THEN NoAppend
       ELSE Finish(o, "returned_error")
    /\ Goto(o, "ended") /\ UNCHANGED effect

\* The journal cannot be locked or written: every handler goes on without a record.
LoseRecord(o) ==
    /\ Live(o) /\ at[o] \in {"acted", "raising", "restored"}
    /\ Goto(o, "ended") /\ NoAppend /\ UNCHANGED effect

(***************************************************************************)
(* reconcile_operation and acknowledge_uncertain_operation.  The tools     *)
(* take only an operation whose view is "uncertain", and nothing but a     *)
(* resolution ends that.                                                   *)
(***************************************************************************)
Resolve(o, kind) ==
    /\ up # {} /\ View(rec[o]) = "uncertain"
    /\ AppendRecord(o, kind)
    /\ UNCHANGED <<class, home, at, effect, started, up>>

Call(o) ==
    \/ \E r \in Runtime, c \in Classes : Begin(o, r, c)
    \/ CheckpointPostcondition(o) \/ CheckpointPrepared(o) \/ CheckpointMayDispatch(o)
    \/ FinishNotDispatched(o) \/ DeadlinePasses(o) \/ Act(o) \/ Raise(o) \/ Return(o)
    \/ RecordRaised(o) \/ RollBack(o) \/ KeepPartialEdit(o) \/ RecordRestored(o)
    \/ LoseRecord(o)

Next ==
    \/ Configure \/ DieInConfigure
    \/ \E r \in Runtime : Die(r) \/ Compact(r)
    \/ \E o \in Op : Call(o)
    \/ \E o \in Op, kind \in Resolution : Resolve(o, kind)

Spec == Init /\ [][Next]_vars
-----------------------------------------------------------------------------
Place == {"idle", "begun", "prepared", "ready", "acted", "raising", "restored", "ended", "dead"}

\* Every variable has its type (the shapes of the records core/recovery.py writes).
TypeOK ==
    /\ rec \in [Op -> SUBSET Kind] /\ late \subseteq Op
    /\ class \in [Op -> Classes] /\ home \in [Op -> 0 .. Runtimes] /\ at \in [Op -> Place]
    /\ effect \subseteq Op /\ denied \subseteq Op
    /\ started \in 0 .. Runtimes /\ up \subseteq 1 .. started

(***************************************************************************)
(* What the journal once called failed has no effect in place: neither the *)
(* recovery that a new runtime runs while the call is still alive in an    *)
(* old one, nor a rollback, nor a call that returned early, denies an      *)
(* effect of a protocol with a dispatch barrier                            *)
(* (_recover_previous_unlocked, finish, finish_not_dispatched).            *)
(***************************************************************************)
NoDeniedEffect == \A o \in denied : class[o] \in Staged => o \notin effect

(***************************************************************************)
(* No step makes an unresolved operation disappear: it stays until it gets *)
(* a result or is resolved, and once uncertain only a reconciliation or an *)
(* acknowledgement ends that ("Unresolved operations (running or           *)
(* uncertain) are NEVER evicted", _compact_locked).                        *)
(***************************************************************************)
EvidenceStep ==
    \A o \in Op : Unresolved(o) =>
        /\ rec[o] \subseteq rec'[o]
        /\ "uncertain" \in rec[o] => rec'[o] \cap Result = {}

\* EvidenceStep, in every step of the journal (_compact_locked, finish, mark_uncertain).
EvidenceKept == [][EvidenceStep]_vars

(***************************************************************************)
(* The backups of a workspace edit that wrote files and neither completed  *)
(* nor was restored stay protected from the retention, which keeps what    *)
(* protected_workspace_backups returns: the edits with a checkpoint, no    *)
(* result and no reconciliation.                                           *)
(***************************************************************************)
BackupsKept ==
    \A o \in effect :
        (class[o] \in Edit /\ at[o] \in {"acted", "raising", "dead"}) =>
            "reconciliation" \in rec[o] \/ (Seen(o) \cap Checkpoint # {} /\ Seen(o) \cap Result = {})

(***************************************************************************)
(* The limits of unresolved external operations and of unresolved prepared *)
(* workspace edits hold over all runtimes together (begin,                 *)
(* checkpoint_workspace_edit).                                             *)
(***************************************************************************)
QuotasHold ==
    /\ Cardinality(UnresolvedExternal) <= MaxExternal
    /\ Cardinality({o \in UnresolvedWorkspace : rec[o] \cap Checkpoint # {}}) <= MaxWorkspace

=============================================================================
