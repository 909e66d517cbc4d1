-------------------------- MODULE PatchTransaction --------------------------
(***************************************************************************)
(* apply_patch_transaction of tools/filesystem/patches.py: every file of a *)
(* patch is prepared, checked against the expected hashes and backed up,   *)
(* then the files are changed one by one and a validation command may run; *)
(* any failure after the first change restores all of them.                *)
(*                                                                         *)
(* A text is the path it was made for and how often it was changed.  The   *)
(* claims and locks of the whole transaction keep the other tools away     *)
(* (ResourceAdmission, ResourceLocks).  Any call of the operating system   *)
(* may fail, also during the restoration, and the process may be killed.   *)
(***************************************************************************)
EXTENDS Integers, Sequences, SequencesExt

CONSTANTS
    Path,           \* paths under the root
    NoPath,         \* /dev/null
    MaxItems,       \* bound on the files of a patch
    OddHeaders,     \* TRUE: patches Git does not write occur: "--- a/x" with "+++ b/y"
                    \* and no rename lines, and a changed file renamed to itself
    NoText          \* no file

VARIABLES
    tree,       \* path -> text
    original,   \* the tree before the transaction
    items,      \* the parsed file patches
    options,    \* [dry, keep, hashes]: dry_run, backup, and whether the hashes match
    prepared,   \* sequence of [old, new]: the texts before and after
    kept,       \* the texts that have a backup
    todo,       \* the items still to change, or to restore
    half,       \* the changed text of a rename is written, its source not deleted
    place       \* where the transaction is

patchVars == <<tree, original, items, options, prepared, kept, todo, half, place>>

Text == [made : Path, edits : 0 .. 2]
Source(i) == items[i].source
Target(i) == items[i].target
Numbers == 1 .. Len(items)

\* parse_unified_patch: the kinds of a file patch, by what is in its headers.
FilePatch ==
    [kind : {"create"}, source : {NoPath}, target : Path, hunks : {TRUE}]
    \cup [kind : {"delete"}, source : Path, target : {NoPath}, hunks : {TRUE}]
    \cup {f \in [kind : {"modify", "rename"}, source : Path, target : Path, hunks : BOOLEAN] :
            /\ f.kind = "modify" => f.hunks
            /\ f.hunks /\ ~OddHeaders => (f.kind = "modify" <=> f.source = f.target)}

OperationTarget(f) == IF f.target # NoPath THEN f.target ELSE f.source

\* A patch names no target twice.
PatchSet ==
    {fs \in UNION {[1 .. n -> FilePatch] : n \in 1 .. MaxItems} :
        \A i, j \in DOMAIN fs : i # j => OperationTarget(fs[i]) # OperationTarget(fs[j])}

PatchInit ==
    /\ tree \in [Path -> {NoText} \cup Text]
    /\ \A p \in Path : tree[p] # NoText => tree[p] = [made |-> p, edits |-> 0]
    /\ original = tree
    /\ items \in PatchSet
    /\ options \in [dry : BOOLEAN, keep : BOOLEAN, hashes : BOOLEAN]
    /\ prepared = <<>> /\ kept = {} /\ todo = {} /\ half = FALSE
    /\ place = "prepare"

Changed(text) == [text EXCEPT !.edits = @ + 1]

\* What _prepare insists on: a free name for a creation or a rename, a file
\* to read for the others.
Preparable(f) ==
    CASE f.kind = "create" -> tree[f.target] = NoText
      [] f.kind = "rename" -> /\ tree[f.source] # NoText
                              /\ f.target = f.source \/ tree[f.target] = NoText
      [] OTHER -> tree[f.source] # NoText

Prepare(f) ==
    CASE f.kind = "create" -> [old |-> NoText, new |-> [made |-> f.target, edits |-> 1]]
      [] f.kind = "delete" -> [old |-> tree[f.source], new |-> NoText]
      [] OTHER -> [old |-> tree[f.source],
                   new |-> IF f.hunks THEN Changed(tree[f.source]) ELSE tree[f.source]]

\* Every file is prepared, and the hunks fit, before anything is written.
PrepareAll ==
    /\ place = "prepare"
    /\ \/ place' = "refused" /\ UNCHANGED prepared
       \/ /\ \A i \in Numbers : Preparable(items[i])
          /\ options.hashes
          /\ prepared' = [i \in Numbers |-> Prepare(items[i])]
          /\ place' = IF options.dry THEN "done" ELSE IF options.keep THEN "backup" ELSE "apply"
    /\ todo' = Numbers
    /\ UNCHANGED <<tree, original, items, options, kept, half>>

First(s) == CHOOSE i \in s : \A j \in s : i <= j
LastOne(s) == CHOOSE i \in s : \A j \in s : i >= j

\* One backup for every file that is there.
BackupNext ==
    /\ place = "backup"
    /\ \/ place' = "refused" /\ UNCHANGED <<kept, todo>>
       \/ /\ todo # {}
          /\ todo' = todo \ {First(todo)}
          /\ kept' = kept \cup ({prepared[First(todo)].old} \ {NoText})
          /\ UNCHANGED place
       \/ /\ todo = {}
          /\ todo' = Numbers /\ place' = "apply"
          /\ UNCHANGED kept
    /\ UNCHANGED <<tree, original, items, options, prepared, half>>

\* The tree after the next change of item i; a rename with hunks writes its
\* target and deletes its source afterwards.
ChangeOf(i) ==
    LET moves == items[i].kind = "rename" /\ prepared[i].new = prepared[i].old
    IN  IF items[i].kind = "delete" \/ half THEN [tree EXCEPT ![Source(i)] = NoText]
        ELSE IF moves THEN [tree EXCEPT ![Source(i)] = NoText, ![Target(i)] = tree[Source(i)]]
        ELSE [tree EXCEPT ![Target(i)] = prepared[i].new]

\* A source that an earlier item took away is missed.
Missing(i) ==
    /\ items[i].kind = "delete" \/ half \/ (items[i].kind = "rename" /\ ~items[i].hunks)
    /\ tree[Source(i)] = NoText

Fail == place' = "restore" /\ todo' = Numbers /\ half' = FALSE

ApplyNext ==
    /\ place = "apply" /\ todo # {}
    /\ \/ Fail /\ UNCHANGED tree
       \/ LET i == First(todo) IN
          /\ ~Missing(i)
          /\ tree' = ChangeOf(i)
          /\ half' = (items[i].kind = "rename" /\ items[i].hunks /\ ~half)
          /\ todo' = IF half' THEN todo ELSE todo \ {i}
          /\ UNCHANGED place
    /\ UNCHANGED <<original, items, options, prepared, kept>>

\* The validation command, when there is one.
ValidatePatch ==
    /\ place = "apply" /\ todo = {}
    /\ (place' = "done" /\ UNCHANGED <<todo, half>>) \/ Fail
    /\ UNCHANGED <<tree, original, items, options, prepared, kept>>


\* _restore of one item: both of its paths are deleted, its source rewritten.
RestoredTree(i) ==
    [p \in Path |-> IF p = Source(i) THEN prepared[i].old
                    ELSE IF p = Target(i) THEN NoText ELSE tree[p]]

\* The same, when the rewriting fails.
BrokenTree(i) == [p \in Path |-> IF p \in {Source(i), Target(i)} THEN NoText ELSE tree[p]]

RestoreNext ==
    /\ place = "restore"
    /\ \/ todo = {} /\ place' = "failed" /\ UNCHANGED <<tree, todo>>
       \/ /\ todo # {}
          /\ \/ tree' = RestoredTree(LastOne(todo)) /\ todo' = todo \ {LastOne(todo)} /\ UNCHANGED place
             \/ tree' = BrokenTree(LastOne(todo)) /\ place' = "broken" /\ UNCHANGED todo
    /\ UNCHANGED <<original, items, options, prepared, kept, half>>

\* The process is killed.
KillPatch ==
    /\ place \in {"backup", "apply", "restore"}
    /\ place' = "broken"
    /\ UNCHANGED <<tree, original, items, options, prepared, kept, todo, half>>

PatchNext == PrepareAll \/ BackupNext \/ ApplyNext \/ ValidatePatch \/ RestoreNext \/ KillPatch
-----------------------------------------------------------------------------
(***************************************************************************)
(* "Rollback on failure": a transaction that reports a failure leaves      *)
(* every file of the root as it found it, whichever item failed and        *)
(* whatever the items do to each other's files.                            *)
(***************************************************************************)
FailureRestores == place \in {"refused", "failed"} => tree = original

(***************************************************************************)
(* With backups no text is ever lost: at every moment, also after a        *)
(* failed restoration or a killed process, each original text is still in  *)
(* the tree or in a backup.                                                *)
(***************************************************************************)
NothingLost ==
    options.keep => \A p \in Path : original[p] # NoText =>
                        original[p] \in kept \/ \E q \in Path : tree[q] = original[p]

\* No file is in two items of the patch.
Disjoint ==
    \A i, j \in Numbers : i # j =>
        {Source(i), Target(i)} \cap {Source(j), Target(j)} \subseteq {NoPath}

(***************************************************************************)
(* A patch of disjoint files that succeeds has made every change it        *)
(* reports and touched no other file; a dry run has made none.             *)
(***************************************************************************)
SuccessIsComplete ==
    place = "done" /\ Disjoint =>
        \A p \in Path :
            tree[p] = IF options.dry THEN original[p]
                      ELSE IF \E i \in Numbers : Target(i) = p
                           THEN prepared[CHOOSE i \in Numbers : Target(i) = p].new
                      ELSE IF \E i \in Numbers : Source(i) = p
                                                 /\ items[i].kind \in {"delete", "rename"}
                           THEN NoText
                      ELSE original[p]

-----------------------------------------------------------------------------
(***************************************************************************)
(* _apply_hunks of tools/filesystem/patches.py on the hunks that           *)
(* _parse_hunk reads, against the text a unified diff stands for.          *)
(*                                                                         *)
(* A text is its lines and whether the last of them is ended.  A diff is   *)
(* the sequence of its lines, kept, removed or added; the runs of lines    *)
(* that are shown, with any amount of context, are its hunks.              *)
(***************************************************************************)
CONSTANTS
    Line,           \* contents of a line
    MaxDiff         \* bound on the lines of a diff

VARIABLE diff   \* [lines, shown, oldEnded, newEnded]

Mark == {" ", "-", "+"}
IsOld(line) == line.mark \in {" ", "-"}
IsNew(line) == line.mark \in {" ", "+"}
Content(lines) == [i \in DOMAIN lines |-> lines[i].content]

\* A kept or removed line is the next one of the source.
Matches(source, cursor, line) == cursor < Len(source) /\ source[cursor + 1] = line.content

\* One line of a hunk; acc.ok turns FALSE on a mismatch.
TakeLine(source, acc, line) ==
    IF ~acc.ok THEN acc
    ELSE IF line.mark = "+" THEN [acc EXCEPT !.output = Append(@, line.content)]
    ELSE IF ~Matches(source, acc.cursor, line) THEN [acc EXCEPT !.ok = FALSE]
    ELSE [acc EXCEPT !.cursor = @ + 1,
                     !.output = IF line.mark = " " THEN Append(@, source[acc.cursor + 1]) ELSE @]

\* Lines are numbered from one; a creation starts at zero.
Start(hunk) == IF hunk.old_start # 0 THEN hunk.old_start - 1 ELSE 0

\* One hunk: what precedes it is copied, then its lines are taken.
TakeHunk(source, acc, hunk) ==
    IF ~acc.ok \/ Start(hunk) < acc.cursor \/ Start(hunk) > Len(source)
    THEN [acc EXCEPT !.ok = FALSE]
    ELSE FoldLeft(LAMBDA a, line : TakeLine(source, a, line),
                  [acc EXCEPT !.output = @ \o SubSeq(source, acc.cursor + 1, Start(hunk)),
                              !.cursor = Start(hunk)],
                  hunk.lines)

\* Whether the result ends with a newline.
FinalNewline(before, hunks) ==
    /\ before.ended \/ before.lines = <<>>
    /\ ~hunks[Len(hunks)].new_no_newline

\* _apply_hunks.  Adding a newline to no lines makes one empty line.
ApplyHunks(before, hunks) ==
    LET end == FoldLeft(LAMBDA a, hunk : TakeHunk(before.lines, a, hunk),
                        [output |-> <<>>, cursor |-> 0, ok |-> TRUE], hunks)
        lines == end.output \o SubSeq(before.lines, end.cursor + 1, Len(before.lines))
        ended == FinalNewline(before, hunks)
    IN  [ok |-> end.ok,
         text |-> [lines |-> IF lines = <<>> /\ ended THEN <<"">> ELSE lines, ended |-> ended]]
-----------------------------------------------------------------------------
(***************************************************************************)
(* The diff format.                                                        *)
(***************************************************************************)

\* The two sides of a diff.
OldSide(d) == [lines |-> Content(SelectSeq(d.lines, IsOld)), ended |-> d.oldEnded]
NewSide(d) == [lines |-> Content(SelectSeq(d.lines, IsNew)), ended |-> d.newEnded]

LastOf(lines, Test(_)) == {i \in DOMAIN lines : Test(lines[i]) /\ \A j \in DOMAIN lines : j > i => ~Test(lines[j])}

\* Context is equal on both sides, to the end of the line; lines that are not
\* shown are context; an empty text is not ended.
WellFormed(d) ==
    /\ \A i \in LastOf(d.lines, IsOld) \cap LastOf(d.lines, IsNew) :
            d.lines[i].mark = " " => d.oldEnded = d.newEnded
    /\ \A i \in LastOf(d.lines, IsOld) :
            d.lines[i].mark = " " /\ i \notin LastOf(d.lines, IsNew) => d.oldEnded
    /\ \A i \in LastOf(d.lines, IsNew) :
            d.lines[i].mark = " " /\ i \notin LastOf(d.lines, IsOld) => d.newEnded
    /\ \A i \in DOMAIN d.lines : d.lines[i].mark # " " => d.shown[i]
    /\ OldSide(d).lines = <<>> => ~d.oldEnded
    /\ NewSide(d).lines = <<>> => ~d.newEnded
    /\ \E i \in DOMAIN d.lines : d.lines[i].mark # " "

\* The hunk of the lines first .. last: an empty range is numbered by the
\* line before it.
HunkOf(d, first, last) ==
    LET earlier == Len(SelectSeq(SubSeq(d.lines, 1, first - 1), IsOld))
        body == SubSeq(d.lines, first, last)
    IN  [old_start |-> IF \E i \in DOMAIN body : IsOld(body[i]) THEN earlier + 1 ELSE earlier,
         lines |-> body,
         new_no_newline |-> ~d.newEnded /\ LastOf(d.lines, IsNew) \cap (first .. last) # {}]

\* The maximal runs of lines that are shown, in their order.
HunksOf(d) ==
    LET Shown(i) == i \in DOMAIN d.lines /\ d.shown[i]
        firsts == {i \in DOMAIN d.lines : Shown(i) /\ ~Shown(i - 1)}
        End(i) == CHOOSE j \in i .. Len(d.lines) : ~Shown(j + 1) /\ \A k \in i .. j : Shown(k)
        order == SetToSortSeq(firsts, <)
    IN  [n \in DOMAIN order |-> HunkOf(d, order[n], End(order[n]))]

\* A hunk that shows no old line, other than at the top.
BareInsertion(d) ==
    \E n \in DOMAIN HunksOf(d) :
        LET hunk == HunksOf(d)[n]
        IN  hunk.old_start # 0 /\ \A i \in DOMAIN hunk.lines : ~IsOld(hunk.lines[i])

\* The diff ends a last line that was not ended, or empties the file.
EndChanges(d) ==
    \/ ~d.oldEnded /\ d.newEnded /\ OldSide(d).lines # <<>>
    \/ NewSide(d).lines = <<>>

HunksInit ==
    /\ diff \in UNION {[lines : [1 .. n -> [mark : Mark, content : Line]], shown : [1 .. n -> BOOLEAN],
                        oldEnded : BOOLEAN, newEnded : BOOLEAN] : n \in 1 .. MaxDiff}
    /\ WellFormed(diff)
-----------------------------------------------------------------------------
(***************************************************************************)
(* Every hunk lands at its declared position in the text it was made for,  *)
(* however the hunks are cut and whatever their context: the result is the *)
(* other side of the diff.  Left out are hunks that insert below the top   *)
(* without showing an old line, which _apply_hunks puts one line early.    *)
(***************************************************************************)
RebuildsAfter ==
    ~BareInsertion(diff) /\ ~EndChanges(diff) =>
        ApplyHunks(OldSide(diff), HunksOf(diff)) = [ok |-> TRUE, text |-> NewSide(diff)]

(***************************************************************************)
(* A patch is applied to no text that differs from its preimage in a line  *)
(* the hunks show, at the declared position or anywhere else.              *)
(***************************************************************************)
StrictPreimage ==
    \A source \in [DOMAIN OldSide(diff).lines -> Line] :
        ApplyHunks([lines |-> source, ended |-> diff.oldEnded], HunksOf(diff)).ok =>
            \A n \in DOMAIN HunksOf(diff) :
                LET old == Content(SelectSeq(HunksOf(diff)[n].lines, IsOld))
                IN  \A i \in DOMAIN old : source[HunksOf(diff)[n].old_start + i - 1] = old[i]

=============================================================================
