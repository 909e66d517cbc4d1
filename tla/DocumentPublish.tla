-------------------------- MODULE DocumentPublish --------------------------
(***************************************************************************)
(* How document tools change one file (tools/documents/common.py,          *)
(* publish_document, with the workbook editor of excel.py and the editors  *)
(* and creators of docx.py): several of them at once, in threads and in    *)
(* processes that may die, next to a program outside that takes no lock.   *)
(* A document is the set of edits it contains and its VBA project.         *)
(***************************************************************************)
EXTENDS Integers, FiniteSets

CONSTANTS
    Publisher,      \* calls of document tools
    Kinds,          \* what each of them does
    OutsideMax      \* bound on the changes made outside

NoDocument == [edits |-> {"none"}, vba |-> "none"]
Documents == [edits : SUBSET (Publisher \cup {"first", "outside"}), vba : {"none", "macro", "other"}]
DocKind == {"workbook", "insert", "create", "overwrite"}

VARIABLES
    document,       \* the file
    kind,           \* [Publisher -> DocKind]
    doing,          \* where a call is
    vbaBefore,      \* vba_project_sha256 of the workbook, read before the lock
    before, staged, \* what was found under the lock, what is to be published
    checkpointed,   \* the postcondition in the journal
    locked,         \* who holds document_write_lock
    backups,        \* contents of the backups
    edited,         \* history: edits whose publication landed and that nothing was asked to replace
    published,      \* history: contents that were in the file
    outside         \* history: changes outside so far, and the contents they replaced

documentVars == <<document, kind, doing, vbaBefore, before, staged, checkpointed, locked, backups, edited, published, outside>>

Free == "free"

DocumentInit ==
    /\ document \in {NoDocument, [edits |-> {"first"}, vba |-> "macro"], [edits |-> {"first"} \cup Publisher, vba |-> "none"]}
    /\ kind \in [Publisher -> Kinds]
    /\ doing = [p \in Publisher |-> "begin"] /\ vbaBefore = [p \in Publisher |-> "none"]
    /\ before = [p \in Publisher |-> NoDocument] /\ staged = before /\ checkpointed = before
    /\ locked = Free /\ backups = {} /\ edited = {} /\ published = {document}
    /\ outside = [count |-> 0, replaced |-> {}]

ToStage(p, s) == doing' = [doing EXCEPT ![p] = s]

\* _docx_target, excel_path, and the project that _mutate_workbook reads before the lock.
ReadBefore(p) ==
    /\ doing[p] = "begin"
    /\ ToStage(p, IF kind[p] \in {"workbook", "insert"} /\ document = NoDocument THEN "failed" ELSE "wait")
    /\ vbaBefore' = [vbaBefore EXCEPT ![p] = IF kind[p] = "workbook" THEN document.vba ELSE "none"]
    /\ UNCHANGED <<document, kind, before, staged, checkpointed, locked, backups, edited, published, outside>>

\* document_write_lock: the claim, the lock of the process and the lock file, all exclusive.
LockFree == locked = Free

\* Under the lock: what is there is hashed; a creator refuses an existing file.  Waiting may time out.
EnterLock(p) ==
    /\ doing[p] = "wait"
    /\ \/ /\ ToStage(p, "failed") /\ UNCHANGED <<locked, before>>
       \/ /\ LockFree
          /\ IF kind[p] = "create" /\ document # NoDocument
             THEN ToStage(p, "failed") /\ UNCHANGED <<locked, before>>
             ELSE /\ ToStage(p, "stage") /\ locked' = p
                  /\ before' = [before EXCEPT ![p] = document]
    /\ UNCHANGED <<document, kind, vbaBefore, staged, checkpointed, backups, edited, published, outside>>

\* What the writers make of the document they load: workbook and docx editors keep what is there, the
\* creators begin anew.  A workbook may lose its project on the way through the library.
Written(p, d) ==
    CASE kind[p] = "workbook" -> {[edits |-> d.edits \cup {p}, vba |-> v] : v \in {d.vba, "none"}}
      [] kind[p] = "insert" -> {[edits |-> d.edits \cup {p}, vba |-> d.vba]}
      [] OTHER -> {[edits |-> {p}, vba |-> "none"]}

\* writer(staged); it fails when the document cannot be loaded or does not have what is to be changed.
Stage(p) ==
    /\ doing[p] = "stage"
    /\ \/ /\ kind[p] \in {"workbook", "insert"} => document # NoDocument
          /\ \E d \in Written(p, document) : staged' = [staged EXCEPT ![p] = d]
          /\ ToStage(p, "validate") /\ UNCHANGED locked
       \/ ToStage(p, "failed") /\ locked' = Free /\ UNCHANGED staged
    /\ UNCHANGED <<document, kind, vbaBefore, before, checkpointed, backups, edited, published, outside>>


\* validator(staged): the project of the workbook is the one read at first.
ValidStaged(p) == kind[p] = "workbook" => staged[p].vba = vbaBefore[p]

\* checkpoint_current_postcondition
Postcondition(p) == staged[p]

\* The postcondition goes to the journal; a document that would not change is left alone.
Validate(p) ==
    /\ doing[p] = "validate"
    /\ IF ValidStaged(p)
       THEN /\ checkpointed' = [checkpointed EXCEPT ![p] = Postcondition(p)]
            /\ IF staged[p] = before[p] THEN ToStage(p, "done") /\ locked' = Free
               ELSE ToStage(p, "backup") /\ UNCHANGED locked
       ELSE ToStage(p, "failed") /\ locked' = Free /\ UNCHANGED checkpointed
    /\ UNCHANGED <<document, kind, vbaBefore, before, staged, backups, edited, published, outside>>

\* _backup_file copies the file as it is now.
Saved(p) == document

BackUp(p) ==
    /\ doing[p] = "backup" /\ ToStage(p, "publish")
    /\ backups' = IF before[p] # NoDocument THEN backups \cup {Saved(p)} ELSE backups
    /\ UNCHANGED <<document, kind, vbaBefore, before, staged, checkpointed, locked, edited, published, outside>>

\* os.link succeeds only where nothing is.
Linkable == document = NoDocument

\* The publication: a link for a creator, an atomic replacement otherwise.  It may fail.
Publish(p) ==
    /\ doing[p] = "publish"
    /\ \/ /\ kind[p] = "create" => Linkable
          /\ document' = staged[p] /\ ToStage(p, "verify")
          /\ published' = published \cup {staged[p]}
          /\ edited' = (IF kind[p] = "overwrite" THEN {} ELSE edited) \cup {p}
          /\ UNCHANGED locked
       \/ ToStage(p, "failed") /\ locked' = Free /\ UNCHANGED <<document, published, edited>>
    /\ UNCHANGED <<kind, vbaBefore, before, staged, checkpointed, backups, outside>>

\* The final hash is that of the staged file, or the call fails; the lock is left.
Verify(p) ==
    /\ doing[p] = "verify" /\ locked' = Free
    /\ ToStage(p, IF document = staged[p] THEN "done" ELSE "failed")
    /\ UNCHANGED <<document, kind, vbaBefore, before, staged, checkpointed, backups, edited, published, outside>>

\* The process of a call dies; its locks go with it.
PublisherDies(p) ==
    /\ doing[p] \notin {"begin", "done", "failed", "dead"} /\ \A q \in Publisher : doing[q] # "dead"
    /\ ToStage(p, "dead") /\ locked' = IF locked = p THEN Free ELSE locked
    /\ UNCHANGED <<document, kind, vbaBefore, before, staged, checkpointed, backups, edited, published, outside>>

\* A program outside creates the file, adds to it or changes its project.
ChangeOutside ==
    /\ outside.count < OutsideMax
    /\ LET new == IF document = NoDocument THEN {[edits |-> {"outside"}, vba |-> "none"]}
                  ELSE {[document EXCEPT !.edits = @ \cup {"outside"}], [document EXCEPT !.vba = "other"]}
       IN  document' \in new \ {document}
    /\ outside' = [count |-> outside.count + 1, replaced |-> outside.replaced \cup {document}]
    /\ UNCHANGED <<kind, doing, vbaBefore, before, staged, checkpointed, locked, backups, edited, published>>

DocumentNext ==
    \/ \E p \in Publisher :
          \/ ReadBefore(p) \/ EnterLock(p) \/ Stage(p) \/ Validate(p) \/ BackUp(p) \/ Publish(p) \/ Verify(p)
          \/ PublisherDies(p)
    \/ ChangeOutside

(***************************************************************************)
(* Properties.                                                             *)
(***************************************************************************)

\* The types, and that only the holder of the lock is between reading and verifying.
DocumentTypeOK ==
    /\ document \in Documents \cup {NoDocument} /\ kind \in [Publisher -> DocKind]
    /\ doing \in [Publisher -> {"begin", "wait", "stage", "validate", "backup", "publish", "verify", "done", "failed", "dead"}]
    /\ staged \in [Publisher -> Documents \cup {NoDocument}]
    /\ \A p \in Publisher : doing[p] \in {"stage", "validate", "backup", "publish", "verify"} => locked = p

\* Editing calls do not lose each other's edits: what one has published stays in the file until a call
\* was asked to overwrite it, however they interleave and die (document_write_lock, the writers' loading).
EditsStay == edited \subseteq document.edits

\* A workbook is never replaced by one with another VBA project than it had when the call began, though
\* the project is read before the lock and the library may drop it (_mutate_workbook).
MacrosStay ==
    \A p \in Publisher : kind[p] = "workbook" /\ doing[p] = "publish" /\ doing'[p] = "verify" =>
       document'.vba = vbaBefore[p]

\* Whatever a tool published or found is in the file or in a backup, unless it was replaced from outside
\* (_backup_file before _replace_with_retry).
ContentKept ==
    \A d \in published \ {NoDocument} : d = document \/ d \in backups \/ d \in outside.replaced

\* A creator never replaces a file, even one that appears after it has looked (exclusive_create, os.link).
CreatesOnly ==
    \A p \in Publisher : kind[p] = "create" /\ doing[p] = "publish" /\ doing'[p] = "verify" =>
       document = NoDocument

\* What a call publishes is exactly what its journal entry has named before: after a death the file
\* decides whether it landed (checkpoint_current_postcondition before the replacement).
VerdictFromFile ==
    \A p \in Publisher : doing[p] = "publish" /\ doing'[p] = "verify" => document' = checkpointed[p]

=============================================================================
