---------------------------- MODULE RecordsProofs ----------------------------
(***************************************************************************)
(* Proofs about what outlives a process.  The recovery journal never       *)
(* denies an effect and never gives up the backups of a half-written edit, *)
(* for any number of calls and runtimes.  The databases open whole, for    *)
(* any number of processes that open, of steps, requests and policies, of  *)
(* deaths, and of threads that share a connection.  The backup directory   *)
(* stays within its policy, for any number of processes, backups and kills *)
(* and any age of a backup.                                                *)
(***************************************************************************)
EXTENDS RecoveryJournal, StoreUpgrade, BackupRetention, FiniteSetTheorems, WellFoundedInduction, TLAPS

\* Most leaves need no arithmetic: they are tried with Zenon first, then with SMT, then with Zenon for longer.
USE ZenonT(3), SMTT(60), ZenonT(30)

(***************************************************************************)
(* The inductive invariant, one operation at a time.                       *)
(*  - A call that has not begun left no trace.                             *)
(*  - Before the barrier nothing has happened yet; after a restored edit   *)
(*    nothing is left.                                                     *)
(*  - An operation that was ever denied has a result as long as it is in   *)
(*    the file, so that the barrier refuses it, and it is not past it.     *)
(*  - The native protocols keep the may_dispatch checkpoint, and no result,*)
(*    for as long as the call is past the barrier, and an effect in the    *)
(*    file always has the checkpoint.                                      *)
(***************************************************************************)
Native == Edit \cup {"uia"}

PastBarrier(o) == at[o] # "ended" /\ (o \in effect \/ at[o] \in {"ready", "acted"})

OpInv(o) ==
    /\ at[o] = "idle" => rec[o] = {} /\ o \notin denied
    /\ at[o] \in {"idle", "begun", "prepared", "restored"} => o \notin effect
    /\ o \in denied /\ "begin" \in rec[o] => rec[o] \cap Result # {}
    /\ o \in denied /\ class[o] \in Staged => o \notin effect /\ at[o] \notin {"ready", "acted"}
    /\ class[o] \in Native /\ PastBarrier(o) =>
           {"begin", "may_dispatch"} \subseteq rec[o] /\ rec[o] \cap Result = {}
    /\ class[o] \in Native /\ o \in effect /\ "begin" \in rec[o] => "may_dispatch" \in rec[o]

JournalInv == TypeOK /\ \A o \in Op : OpInv(o)

(***************************************************************************)
(* What the writers of the journal do to the type and to one operation.    *)
(***************************************************************************)
LEMMA AppendType ==
  ASSUME TypeOK, NEW o \in Op, NEW k \in Kind, AppendRecord(o, k) \/ NoAppend
  PROVE  rec' \in [Op -> SUBSET Kind] /\ late' \subseteq Op /\ denied' \subseteq Op
BY DEF TypeOK, AppendRecord, NoAppend

LEMMA AppendHere ==
  ASSUME TypeOK, NEW o \in Op, NEW k, AppendRecord(o, k)
  PROVE  /\ rec'[o] = (IF k \in Result THEN rec[o] \ Result ELSE rec[o]) \cup {k}
         /\ o \in denied' <=> o \in denied \/ k = "error"
BY DEF TypeOK, AppendRecord

LEMMA AppendElsewhere ==
  ASSUME TypeOK, NEW o \in Op, NEW k, AppendRecord(o, k) \/ NoAppend, NEW p \in Op, p # o
  PROVE  rec'[p] = rec[p] /\ (p \in denied' <=> p \in denied)
BY DEF TypeOK, AppendRecord, NoAppend

\* A step that writes at most one record of the operation o.
Wrote(o) == NoAppend \/ \E k \in Kind : AppendRecord(o, k)

LEMMA FinishWrites ==
  ASSUME NEW o \in Op, NEW known, Finish(o, known)
  PROVE  \/ NoAppend \/ AppendRecord(o, "uncertain")
         \/ AppendRecord(o, "ok") /\ known = "ok" /\ "uncertain" \notin Seen(o)
         \/ /\ AppendRecord(o, "error") /\ known # "ok" /\ "uncertain" \notin Seen(o)
            /\ "may_dispatch" \in Seen(o) =>
                  class[o] # "uia" /\ (class[o] \in Edit => known # "raised")
BY DEF Finish

LEMMA FinishWrote ==
  ASSUME NEW o \in Op, NEW known, Finish(o, known) \/ MarkUncertain(o)
  PROVE  Wrote(o)
<1>1. CASE Finish(o, known)
  BY <1>1, FinishWrites DEF Wrote, Kind, Final, Result
<1>2. CASE MarkUncertain(o)
  BY <1>2 DEF MarkUncertain, Wrote, Kind
<1>. QED BY <1>1, <1>2

(***************************************************************************)
(* A step of a call other than its begin writes records of that operation  *)
(* only and moves only that call.                                          *)
(***************************************************************************)
Moved(o) ==
    /\ Wrote(o) /\ UNCHANGED <<class, home, started, up>>
    /\ \E spot \in Place : at' = [at EXCEPT ![o] = spot]
    /\ effect' \in {effect, effect \cup {o}, effect \ {o}}
    /\ at[o] # "idle"

Begins(o) == \E r \in Runtime, c \in Classes : Begin(o, r, c)

LEMMA CallMoves ==
  ASSUME NEW o \in Op, Call(o), ~ Begins(o)
  PROVE  Moved(o)
<1> USE DEF Goto, Place
<1>1. CASE CheckpointPostcondition(o)
  BY <1>1 DEF CheckpointPostcondition, Moved, Wrote, Kind, Checkpoint
<1>2. CASE CheckpointPrepared(o)
  BY <1>2 DEF CheckpointPrepared, Moved, Wrote, Kind, Checkpoint
<1>3. CASE CheckpointMayDispatch(o)
  <2>1. /\ at[o] # "idle" /\ effect' = effect
        /\ \E spot \in {"ready", "ended", "raising"} : Goto(o, spot)
    BY <1>3 DEF CheckpointMayDispatch
  <2>2. Wrote(o)
    BY <1>3 DEF CheckpointMayDispatch, Wrote, Kind, Checkpoint
  <2>. QED BY <2>1, <2>2, ZenonT(30) DEF Moved
<1>4. CASE FinishNotDispatched(o)
  BY <1>4 DEF FinishNotDispatched, Moved, Wrote, Kind, Final, Result
<1>5. CASE DeadlinePasses(o) \/ Act(o) \/ Raise(o) \/ LoseRecord(o)
  BY <1>5 DEF DeadlinePasses, Act, Raise, LoseRecord, Moved, Wrote
<1>6. CASE Return(o)
  <2>1. Wrote(o)
    BY <1>6, FinishWrote DEF Return
  <2>. QED BY <1>6, <2>1 DEF Return, Moved
<1>7. CASE RecordRaised(o)
  <2>1. Wrote(o)
    BY <1>7, FinishWrote DEF RecordRaised, Wrote
  <2>. QED BY <1>7, <2>1 DEF RecordRaised, Moved
<1>8. CASE RollBack(o)
  <2>1. Wrote(o)
    BY <1>8, FinishWrote DEF RollBack, Wrote
  <2>. QED BY <1>8, <2>1 DEF RollBack, Moved
<1>9. CASE KeepPartialEdit(o)
  <2>1. Wrote(o)
    BY <1>9, FinishWrote DEF KeepPartialEdit
  <2>. QED BY <1>9, <2>1 DEF KeepPartialEdit, Moved
<1>10. CASE RecordRestored(o)
  <2>1. Wrote(o)
    BY <1>10, FinishWrote DEF RecordRestored, Wrote
  <2>. QED BY <1>10, <2>1 DEF RecordRestored, Moved
<1>. QED BY <1>1, <1>2, <1>3, <1>4, <1>5, <1>6, <1>7, <1>8, <1>9, <1>10 DEF Call, Begins

LEMMA RecoverType ==
  ASSUME TypeOK, NEW ops \in SUBSET Op, RecoverPrevious(ops)
  PROVE  rec' \in [Op -> SUBSET Kind] /\ denied' \subseteq Op
BY DEF TypeOK, RecoverPrevious, Kind, Final, Result

LEMMA TypeStep == TypeOK /\ [Next]_vars => TypeOK'
<1> SUFFICES ASSUME TypeOK, [Next]_vars PROVE TypeOK'
  OBVIOUS
<1>r. Runtimes \in Nat
  BY JournalAssumption
<1>1. CASE Configure \/ DieInConfigure
  <2>1. PICK ops \in SUBSET Interrupted : RecoverPrevious(ops)
    BY <1>1 DEF Configure, DieInConfigure
  <2>2. rec' \in [Op -> SUBSET Kind] /\ denied' \subseteq Op
    BY <2>1, RecoverType DEF Interrupted
  <2>3. started' \in 0 .. Runtimes /\ up' \subseteq 1 .. started'
    <3>1. started \in Nat /\ started < Runtimes /\ started' = started + 1
      BY <1>1, <1>r DEF Configure, DieInConfigure, TypeOK
    <3>2. up \subseteq 1 .. started /\ up' \in {up, up \cup {started + 1}}
      BY <1>1 DEF Configure, DieInConfigure, TypeOK
    <3>. QED BY <3>1, <3>2, <1>r
  <2>. QED BY <1>1, <2>2, <2>3 DEF Configure, DieInConfigure, TypeOK
<1>2. ASSUME NEW r \in Runtime, Die(r) PROVE TypeOK'
  BY <1>2 DEF Die, TypeOK, journal, Place
<1>3. ASSUME NEW r \in Runtime, Compact(r) PROVE TypeOK'
  BY <1>3 DEF Compact, TypeOK, callVars
<1>4. ASSUME NEW o \in Op, Call(o) PROVE TypeOK'
  <2>1. CASE Begins(o)
    <3>1. PICK r \in Runtime, c \in Classes : Begin(o, r, c)
      BY <2>1 DEF Begins
    <3>2. rec' \in [Op -> SUBSET Kind] /\ late' \subseteq Op /\ denied' \subseteq Op
      BY <3>1, AppendType DEF Begin, Kind
    <3>3. r \in 0 .. Runtimes
      BY <1>r DEF Runtime
    <3>4. PICK spot \in Place : at' = [at EXCEPT ![o] = spot]
      BY <3>1, ZenonT(30) DEF Begin, Place
    <3>5. class' \in [Op -> Classes] /\ home' \in [Op -> 0 .. Runtimes] /\ at' \in [Op -> Place]
      BY <3>1, <3>3, <3>4 DEF Begin, TypeOK
    <3>. QED BY <3>1, <3>2, <3>5 DEF Begin, TypeOK
  <2>2. CASE ~ Begins(o)
    <3>1. Moved(o)
      BY <1>4, <2>2, CallMoves
    <3>2. rec' \in [Op -> SUBSET Kind] /\ late' \subseteq Op /\ denied' \subseteq Op
      BY <3>1, AppendType DEF Moved, Wrote, Kind
    <3>. QED BY <3>1, <3>2, ZenonT(30) DEF Moved, TypeOK
  <2>. QED BY <2>1, <2>2
<1>5. ASSUME NEW o \in Op, NEW k \in Resolution, Resolve(o, k) PROVE TypeOK'
  <2>1. rec' \in [Op -> SUBSET Kind] /\ late' \subseteq Op /\ denied' \subseteq Op
    BY <1>5, AppendType, ZenonT(30) DEF Resolve, Kind, Final
  <2>. QED BY <1>5, <2>1 DEF Resolve, TypeOK
<1>6. CASE UNCHANGED vars
  BY <1>6 DEF vars, journal, callVars, TypeOK
<1>. QED BY <1>1, <1>2, <1>3, <1>4, <1>5, <1>6 DEF Next

LEMMA InitType == Init => TypeOK
BY JournalAssumption DEF Init, TypeOK, Classes, Place

(***************************************************************************)
(* Type correctness of the journal and its calls, for any set of           *)
(* operations, any number of runtimes and any limits (core/recovery.py).   *)
(***************************************************************************)
THEOREM JournalTypeCorrect == Spec => []TypeOK
BY InitType, TypeStep, PTL DEF Spec

(***************************************************************************)
(* The steps that keep OpInv.  An operation that is not touched keeps it,  *)
(* and so does one whose call ends, unless it is called failed while its   *)
(* effect is in place.                                                     *)
(***************************************************************************)
LEMMA Untouched ==
  ASSUME NEW o \in Op, OpInv(o), rec'[o] = rec[o], at'[o] = at[o], class'[o] = class[o],
         o \in effect' <=> o \in effect, o \in denied' <=> o \in denied
  PROVE  OpInv(o)'
BY DEF OpInv, PastBarrier

LEMMA EndCall ==
  ASSUME TypeOK, NEW o \in Op, OpInv(o), at[o] # "idle", at'[o] = "ended", class' = class,
         o \in effect' <=> o \in effect,
         \/ NoAppend \/ AppendRecord(o, "uncertain") \/ AppendRecord(o, "ok")
         \/ AppendRecord(o, "error") /\ (class[o] \in Staged => o \notin effect)
  PROVE  OpInv(o)'
<1>1. CASE NoAppend
  BY <1>1 DEF NoAppend, OpInv, PastBarrier
<1>2. CASE AppendRecord(o, "uncertain")
  BY <1>2, AppendHere DEF OpInv, PastBarrier, Result
<1>3. CASE AppendRecord(o, "ok")
  BY <1>3, AppendHere DEF OpInv, PastBarrier, Result
<1>4. CASE AppendRecord(o, "error") /\ (class[o] \in Staged => o \notin effect)
  BY <1>4, AppendHere DEF OpInv, PastBarrier, Result
<1>. QED BY <1>1, <1>2, <1>3, <1>4

LEMMA RaiseCall ==
  ASSUME TypeOK, NEW o \in Op, OpInv(o), at[o] \notin {"idle", "ended"}, at'[o] = "raising",
         class' = class, o \in effect' <=> o \in effect, NoAppend
  PROVE  OpInv(o)'
BY DEF NoAppend, OpInv, PastBarrier

LEMMA CallInv ==
  ASSUME TypeOK, NEW o \in Op, OpInv(o), Call(o)
  PROVE  OpInv(o)'
<1> DEFINE To(spot) == at'[o] = spot /\ class' = class
<1>g. ASSUME NEW spot, Goto(o, spot) PROVE To(spot)
  BY <1>g DEF Goto, TypeOK
<1>1. CASE Begins(o)
  <2>1. PICK r \in Runtime, c \in Classes : Begin(o, r, c)
    BY <1>1 DEF Begins
  <2>2. rec'[o] = {"begin"} /\ o \notin denied' /\ o \notin effect'
    BY <2>1, AppendHere DEF Begin, OpInv, Result
  <2>3. class'[o] = c /\ at'[o] = IF c \in {"plain", "verify"} THEN "ready" ELSE "begun"
    BY <2>1 DEF Begin, TypeOK
  <2>. QED BY <2>2, <2>3 DEF OpInv, PastBarrier, Native, Edit
<1>2. CASE CheckpointPostcondition(o)
  <2>1. CASE AppendRecord(o, "postcondition") /\ Goto(o, "ready")
    BY <1>2, <2>1, <1>g, AppendHere
       DEF CheckpointPostcondition, OpInv, PastBarrier, Result, Native, Staged, Edit
  <2>2. CASE NoAppend /\ Goto(o, "raising")
    BY <1>2, <2>2, <1>g, RaiseCall DEF CheckpointPostcondition
  <2>. QED BY <1>2, <2>1, <2>2 DEF CheckpointPostcondition
<1>3. CASE CheckpointPrepared(o)
  <2>1. CASE AppendRecord(o, "prepared") /\ Goto(o, "prepared")
    BY <1>3, <2>1, <1>g, AppendHere DEF CheckpointPrepared, OpInv, PastBarrier, Result
  <2>2. CASE NoAppend /\ Goto(o, "raising")
    BY <1>3, <2>2, <1>g, RaiseCall DEF CheckpointPrepared
  <2>. QED BY <1>3, <2>1, <2>2 DEF CheckpointPrepared
<1>4. CASE CheckpointMayDispatch(o)
  <2>1. at[o] \in {"begun", "prepared"} /\ effect' = effect
    BY <1>4 DEF CheckpointMayDispatch
  <2>2. CASE Open(o) /\ AppendRecord(o, "may_dispatch") /\ Goto(o, "ready")
    <3>1. "begin" \in rec[o] /\ rec[o] \cap Result = {}
      BY <2>2 DEF Open, Seen, Final
    <3>2. o \notin denied /\ o \notin effect
      BY <2>1, <3>1 DEF OpInv
    <3>3. rec'[o] = rec[o] \cup {"may_dispatch"} /\ o \notin denied'
      BY <2>2, <3>2, AppendHere DEF Result
    <3>. QED BY <2>1, <2>2, <3>1, <3>2, <3>3, <1>g DEF OpInv, PastBarrier, Result
  <2>3. CASE NoAppend /\ Goto(o, "ended")
    BY <2>1, <2>3, <1>g, EndCall
  <2>4. CASE NoAppend /\ Goto(o, "raising")
    BY <2>1, <2>4, <1>g, RaiseCall
  <2>. QED BY <1>4, <2>2, <2>3, <2>4 DEF CheckpointMayDispatch
<1>5. CASE FinishNotDispatched(o) \/ DeadlinePasses(o)
  <2>1. /\ at[o] = "begun" /\ effect' = effect /\ Goto(o, "ended")
        /\ NoAppend \/ AppendRecord(o, "error")
    BY <1>5 DEF FinishNotDispatched, DeadlinePasses
  <2>2. o \notin effect
    BY <2>1 DEF OpInv
  <2>. QED BY <2>1, <2>2, <1>g, EndCall
<1>6. CASE Act(o)
  <2>1. /\ at[o] = "ready" /\ To("acted") /\ NoAppend /\ effect' = effect \cup {o}
    BY <1>6, <1>g DEF Act
  <2>. QED BY <2>1 DEF OpInv, PastBarrier, NoAppend
<1>7. CASE Raise(o)
  BY <1>7, <1>g, RaiseCall DEF Raise
<1>8. CASE LoseRecord(o)
  BY <1>8, <1>g, EndCall DEF LoseRecord
\* A native call whose effect is in place has its may_dispatch record.
<1>d. at[o] # "ended" /\ o \in effect /\ class[o] \in Native => "may_dispatch" \in Seen(o)
  BY DEF OpInv, PastBarrier, Seen
<1>9. CASE Return(o)
  <2>1. /\ at[o] \in {"acted", "begun"} /\ effect' = effect /\ To("ended")
    BY <1>9, <1>g DEF Return
  <2>2. CASE Finish(o, "ok")
    <3>1. NoAppend \/ AppendRecord(o, "uncertain") \/ AppendRecord(o, "ok")
      BY <2>2, FinishWrites
    <3>. QED BY <2>1, <3>1, EndCall
  <2>3. CASE /\ class[o] \in {"plain", "verify", "document", "uia"} \/ at[o] = "begun"
             /\ Finish(o, "returned_error")
    <3>1. \/ NoAppend \/ AppendRecord(o, "uncertain")
          \/ AppendRecord(o, "error") /\ ~ ("may_dispatch" \in Seen(o) /\ class[o] = "uia")
      BY <2>3, FinishWrites
    <3>2. at[o] = "begun" => o \notin effect
      BY DEF OpInv
    <3>3. \/ NoAppend \/ AppendRecord(o, "uncertain")
          \/ AppendRecord(o, "error") /\ (class[o] \in Staged => o \notin effect)
      BY <2>1, <2>3, <3>1, <3>2, <1>d DEF Staged, Edit, Native
    <3>. QED BY <2>1, <3>3, EndCall
  <2>4. CASE MarkUncertain(o)
    BY <2>1, <2>4, EndCall DEF MarkUncertain
  <2>. QED BY <1>9, <2>2, <2>3, <2>4 DEF Return
<1>10. CASE RecordRaised(o)
  <2>1. at[o] = "raising" /\ effect' = effect /\ To("ended") /\ ~ EditDispatched(o)
    BY <1>10, <1>g DEF RecordRaised
  <2>2. ASSUME NEW known, Finish(o, known), class[o] # "external", known # "ok" PROVE OpInv(o)'
    <3>1. \/ NoAppend \/ AppendRecord(o, "uncertain")
          \/ AppendRecord(o, "error") /\ ~ ("may_dispatch" \in Seen(o) /\ class[o] = "uia")
      BY <2>2, FinishWrites
    <3>2. class[o] \in Edit => "may_dispatch" \notin Seen(o)
      BY <2>1 DEF EditDispatched, Seen
    <3>3. \/ NoAppend \/ AppendRecord(o, "uncertain")
          \/ AppendRecord(o, "error") /\ (class[o] \in Staged => o \notin effect)
      BY <2>1, <2>2, <3>1, <3>2, <1>d DEF Staged, Native
    <3>. QED BY <2>1, <3>3, EndCall
  <2>3. CASE MarkUncertain(o) \/ NoAppend
    BY <2>1, <2>3, EndCall DEF MarkUncertain
  <2>. QED BY <1>10, <2>2, <2>3 DEF RecordRaised
<1>11. CASE RollBack(o)
  <2>1. /\ at[o] = "raising" /\ To("restored") /\ o \notin effect'
    BY <1>11, <1>g DEF RollBack
  <2>2. \/ NoAppend \/ AppendRecord(o, "uncertain") \/ AppendRecord(o, "error")
    BY <1>11, FinishWrites DEF RollBack
  <2>3. CASE NoAppend
    BY <2>1, <2>3 DEF OpInv, PastBarrier, NoAppend
  <2>4. CASE AppendRecord(o, "uncertain")
    BY <2>1, <2>4, AppendHere DEF OpInv, PastBarrier, Result
  <2>5. CASE AppendRecord(o, "error")
    BY <2>1, <2>5, AppendHere DEF OpInv, PastBarrier, Result
  <2>. QED BY <2>2, <2>3, <2>4, <2>5
<1>12. CASE KeepPartialEdit(o)
  <2>1. at[o] = "raising" /\ effect' = effect /\ To("ended") /\ MarkUncertain(o)
    BY <1>12, <1>g DEF KeepPartialEdit
  <2>. QED BY <2>1, EndCall DEF MarkUncertain
<1>13. CASE RecordRestored(o)
  <2>1. at[o] = "restored" /\ effect' = effect /\ To("ended") /\ o \notin effect
    BY <1>13, <1>g DEF RecordRestored, OpInv
  <2>2. NoAppend \/ AppendRecord(o, "uncertain") \/ AppendRecord(o, "error")
    BY <1>13, FinishWrites DEF RecordRestored
  <2>. QED BY <2>1, <2>2, EndCall
<1>. QED BY <1>1, <1>2, <1>3, <1>4, <1>5, <1>6, <1>7, <1>8, <1>9, <1>10, <1>11, <1>12, <1>13
     DEF Call, Begins

LEMMA RecoverInv ==
  ASSUME TypeOK, NEW o \in Op, OpInv(o), NEW ops \in SUBSET Interrupted, RecoverPrevious(ops),
         UNCHANGED <<class, at, effect>>
  PROVE  OpInv(o)'
<1>1. CASE o \notin ops
  <2>1. rec'[o] = rec[o] /\ (o \in denied' <=> o \in denied)
    BY <1>1 DEF RecoverPrevious, TypeOK
  <2>. QED BY <2>1, Untouched
<1>2. CASE o \in ops
  <2>1. "begin" \in rec[o] /\ rec[o] \cap Result = {}
    BY <1>2 DEF Interrupted, Unresolved, Seen, Final
  <2>2. o \notin denied /\ at[o] # "idle"
    BY <2>1 DEF OpInv
  <2>3. CASE BeforeDispatch(o)
    <3>1. rec'[o] = rec[o] \cup {"error"} /\ o \in denied'
      BY <1>2, <2>3 DEF RecoverPrevious
    <3>2. class[o] \in Native /\ "may_dispatch" \notin rec[o]
      BY <2>3 DEF BeforeDispatch, Native, Edit
    <3>3. o \notin effect /\ at[o] \notin {"ready", "acted"}
      BY <2>1, <3>2 DEF OpInv, PastBarrier
    <3>. QED BY <2>2, <3>1, <3>3 DEF OpInv, PastBarrier, Result
  <2>4. CASE ~ BeforeDispatch(o)
    <3>1. rec'[o] = rec[o] \cup {"uncertain"} /\ o \notin denied'
      BY <1>2, <2>2, <2>4 DEF RecoverPrevious
    <3>. QED BY <2>2, <3>1 DEF OpInv, PastBarrier, Result
  <2>. QED BY <2>3, <2>4
<1>. QED BY <1>1, <1>2

LEMMA InvStep == JournalInv /\ [Next]_vars => JournalInv'
<1> SUFFICES ASSUME JournalInv, [Next]_vars, NEW o \in Op PROVE OpInv(o)'
  BY TypeStep DEF JournalInv
<1>t. TypeOK /\ OpInv(o)
  BY DEF JournalInv
<1>1. CASE Configure \/ DieInConfigure
  <2>1. PICK ops \in SUBSET Interrupted : RecoverPrevious(ops)
    BY <1>1 DEF Configure, DieInConfigure
  <2>. QED BY <1>1, <1>t, <2>1, RecoverInv DEF Configure, DieInConfigure
<1>2. ASSUME NEW r \in Runtime, Die(r) PROVE OpInv(o)'
  <2>1. /\ UNCHANGED <<rec, class, effect, denied>>
        /\ at'[o] = at[o] \/ (at'[o] = "dead" /\ at[o] # "ended")
    BY <1>2 DEF Die, journal
  <2>. QED BY <2>1, <1>t DEF OpInv, PastBarrier
<1>3. ASSUME NEW r \in Runtime, Compact(r) PROVE OpInv(o)'
  <2>1. /\ UNCHANGED <<class, at, effect, denied>>
        /\ \/ rec'[o] = rec[o]
           \/ rec'[o] = {} /\ (rec[o] \cap Result # {} \/ class[o] = "external")
    BY <1>3 DEF Compact, callVars, ResolvedExternal
  <2>. QED BY <2>1, <1>t DEF OpInv, PastBarrier, Native, Edit
<1>4. ASSUME NEW p \in Op, Call(p) PROVE OpInv(o)'
  <2>1. CASE p = o
    BY <1>4, <2>1, <1>t, CallInv
  <2>2. CASE p # o /\ Begins(p)
    <3>1. PICK r \in Runtime, c \in Classes : Begin(p, r, c)
      BY <2>2 DEF Begins
    <3>2. rec'[o] = rec[o] /\ (o \in denied' <=> o \in denied)
      BY <3>1, <2>2, <1>t, AppendElsewhere DEF Begin
    <3>3. at'[o] = at[o] /\ class'[o] = class[o] /\ effect' = effect
      BY <3>1, <2>2, <1>t DEF Begin, TypeOK
    <3>. QED BY <3>2, <3>3, <1>t, Untouched
  <2>3. CASE p # o /\ ~ Begins(p)
    <3>1. Moved(p)
      BY <1>4, <2>3, CallMoves
    <3>2. rec'[o] = rec[o] /\ (o \in denied' <=> o \in denied)
      BY <3>1, <2>3, <1>t, AppendElsewhere DEF Moved, Wrote
    <3>3. at'[o] = at[o] /\ class'[o] = class[o] /\ (o \in effect' <=> o \in effect)
      BY <3>1, <2>3, <1>t DEF Moved, TypeOK
    <3>. QED BY <3>2, <3>3, <1>t, Untouched
  <2>. QED BY <2>1, <2>2, <2>3
<1>5. ASSUME NEW p \in Op, NEW k \in Resolution, Resolve(p, k) PROVE OpInv(o)'
  <2>1. AppendRecord(p, k) /\ UNCHANGED <<class, at, effect>>
    BY <1>5 DEF Resolve
  <2>2. CASE p # o
    <3>1. rec'[o] = rec[o] /\ (o \in denied' <=> o \in denied)
      BY <2>1, <2>2, <1>t, AppendElsewhere
    <3>. QED BY <2>1, <3>1, <1>t, Untouched
  <2>3. CASE p = o
    <3>1. "begin" \in rec[o] /\ rec[o] \cap Result = {}
      BY <1>5, <2>3, <1>t DEF Resolve, View, Result
    <3>2. rec'[o] = rec[o] \cup {k} /\ (o \in denied' <=> o \in denied)
      BY <2>1, <2>3, <1>t, AppendHere DEF Resolution, Result
    <3>. QED BY <2>1, <3>1, <3>2, <1>t DEF OpInv, PastBarrier, Resolution, Result
  <2>. QED BY <2>2, <2>3
<1>6. CASE UNCHANGED vars
  BY <1>6, <1>t, Untouched DEF vars, journal, callVars
<1>. QED BY <1>t, <1>1, <1>2, <1>3, <1>4, <1>5, <1>6 DEF Next

LEMMA InitInv == Init => JournalInv
<1> SUFFICES ASSUME Init, NEW o \in Op PROVE OpInv(o)
  BY InitType DEF JournalInv
<1>1. rec[o] = {} /\ at[o] = "idle" /\ o \notin effect /\ o \notin denied
  BY DEF Init
<1>. QED BY <1>1 DEF OpInv, PastBarrier

LEMMA Inductive == Spec => []JournalInv
BY InitInv, InvStep, PTL DEF Spec

(***************************************************************************)
(* An operation that the journal ever called failed has no effect in place,*)
(* when its protocol has a dispatch barrier.  It rests on the barrier      *)
(* being checked and written in one journal transaction, so that a         *)
(* recovery by another runtime is either before it, and closes it, or      *)
(* after it, and sees the checkpoint.                                      *)
(***************************************************************************)
THEOREM NeverDeniesAnEffect == Spec => []NoDeniedEffect
<1>1. JournalInv => NoDeniedEffect
  BY DEF JournalInv, TypeOK, OpInv, NoDeniedEffect
<1>. QED BY <1>1, Inductive, PTL

(***************************************************************************)
(* The backups of a half-written workspace edit stay protected until it is *)
(* finished, restored or reconciled (protected_workspace_backups).         *)
(***************************************************************************)
THEOREM BackupsStay == Spec => []BackupsKept
<1>1. ASSUME JournalInv, NEW o \in effect, class[o] \in Edit, at[o] \in {"acted", "raising", "dead"}
      PROVE  Seen(o) \cap Checkpoint # {} /\ Seen(o) \cap Result = {}
  <2>1. OpInv(o) /\ class[o] \in Native
    BY <1>1 DEF JournalInv, TypeOK, Native
  <2>2. PastBarrier(o)
    BY <1>1 DEF PastBarrier
  <2>3. {"begin", "may_dispatch"} \subseteq rec[o] /\ rec[o] \cap Result = {}
    BY <2>1, <2>2 DEF OpInv
  <2>. QED BY <2>3 DEF Seen, Checkpoint
<1>2. JournalInv => BackupsKept
  BY <1>1 DEF BackupsKept
<1>. QED BY <1>2, Inductive, PTL

\* A record of one operation, unless it is a result of an uncertain one, takes nothing away.
LEMMA EvidenceAppend ==
  ASSUME TypeOK, NEW p \in Op, NEW o \in Op, Unresolved(o), NEW k,
         AppendRecord(p, k) \/ NoAppend, k \in Result => "uncertain" \notin Seen(p)
  PROVE  /\ rec[o] \subseteq rec'[o]
         /\ "uncertain" \in rec[o] => rec'[o] \cap Result = {}
<1>1. "begin" \in rec[o] /\ Seen(o) = rec[o] /\ rec[o] \cap Result = {}
  BY DEF Unresolved, Seen, Final
<1>2. CASE NoAppend
  BY <1>1, <1>2 DEF NoAppend
<1>3. CASE AppendRecord(p, k) /\ p # o
  BY <1>1, <1>3, AppendElsewhere
<1>4. CASE AppendRecord(p, k) /\ p = o
  <2>1. rec'[o] = rec[o] \cup {k}
    BY <1>1, <1>4, AppendHere
  <2>. QED BY <1>1, <1>4, <2>1
<1>. QED BY <1>2, <1>3, <1>4

(***************************************************************************)
(* Evidence is never lost: an operation without an outcome stays in the    *)
(* file through every compaction, recovery and late call, and an uncertain *)
(* one never gets a result (_compact_locked, finish, mark_uncertain).      *)
(***************************************************************************)
THEOREM EvidenceStays == Spec => EvidenceKept
<1>1. JournalInv /\ [Next]_vars => [EvidenceStep]_vars
  <2> SUFFICES ASSUME JournalInv, Next, NEW o \in Op, Unresolved(o)
               PROVE  /\ rec[o] \subseteq rec'[o]
                      /\ "uncertain" \in rec[o] => rec'[o] \cap Result = {}
    BY DEF EvidenceStep
  <2>t. TypeOK
    BY DEF JournalInv
  <2>o. "begin" \in rec[o] /\ rec[o] \cap Final = {}
    BY DEF Unresolved, Seen
  <2>1. CASE Configure \/ DieInConfigure
    <3>1. PICK ops \in SUBSET Interrupted : RecoverPrevious(ops)
      BY <2>1 DEF Configure, DieInConfigure
    <3>2. o \in ops => "uncertain" \notin rec[o]
      BY DEF Interrupted
    <3>. QED BY <3>1, <3>2, <2>o DEF RecoverPrevious, Final
  <2>2. ASSUME NEW r \in Runtime, Die(r) \/ Compact(r)
        PROVE  rec'[o] = rec[o]
    BY <2>2, <2>o, ZenonT(30) DEF Die, journal, Compact, ResolvedExternal, Seen, Final
  <2>3. ASSUME NEW p \in Op, Call(p)
        PROVE  NoAppend \/ \E k : AppendRecord(p, k) /\ (k \in Result => "uncertain" \notin Seen(p))
    <3>f. (\E known : Finish(p, known)) \/ MarkUncertain(p) =>
             NoAppend \/ \E k : AppendRecord(p, k) /\ (k \in Result => "uncertain" \notin Seen(p))
      BY FinishWrites DEF MarkUncertain, Result
    <3>1. CASE Return(p) \/ RecordRaised(p) \/ RecordRestored(p)
      <4>1. NoAppend \/ (\E known : Finish(p, known)) \/ MarkUncertain(p)
        BY <3>1 DEF Return, RecordRaised, RecordRestored
      <4>. QED BY <4>1, <3>f
    <3>2. CASE RollBack(p) \/ KeepPartialEdit(p) \/ LoseRecord(p)
      <4>1. NoAppend \/ (\E known : Finish(p, known)) \/ MarkUncertain(p)
        BY <3>2 DEF RollBack, KeepPartialEdit, LoseRecord
      <4>. QED BY <4>1, <3>f
    <3>3. CASE (\E r \in Runtime, c \in Classes : Begin(p, r, c)) \/ FinishNotDispatched(p)
      BY <3>3 DEF Begin, FinishNotDispatched, Result
    <3>4. CASE CheckpointPostcondition(p) \/ CheckpointPrepared(p) \/ CheckpointMayDispatch(p)
      BY <3>4 DEF CheckpointPostcondition, CheckpointPrepared, CheckpointMayDispatch, Result
    <3>5. CASE DeadlinePasses(p) \/ Act(p) \/ Raise(p)
      BY <3>5 DEF DeadlinePasses, Act, Raise
    <3>. QED BY <2>3, <3>1, <3>2, <3>3, <3>4, <3>5 DEF Call
  <2>4. ASSUME NEW p \in Op, NEW k \in Resolution, Resolve(p, k)
        PROVE  AppendRecord(p, k) /\ k \notin Result
    BY <2>4 DEF Resolve, Resolution, Result
  <2>. QED BY <2>t, <2>o, <2>1, <2>2, <2>3, <2>4, EvidenceAppend DEF Next, Final
<1>. QED BY <1>1, Inductive, PTL DEF Spec, EvidenceKept
-----------------------------------------------------------------------------
(* The databases.                                                          *)

\* A database that an earlier program has left satisfies the invariant.
LEMMA UpgradeInitial == UpgradeInit => UpgradeInv
<1> SUFFICES ASSUME UpgradeInit PROVE UpgradeInv
  OBVIOUS
<1> USE DEF UpgradeInit, SchemaVersion, Newer, NoOperation, NoPolicy, Nothing
<1>1. steps \in [Step -> {"created", "running", "completed"}]
  OBVIOUS
<1>2. operations \in [Step -> OperationStates \cup {NoOperation}]
  BY <1>1 DEF OperationStates
<1>3. \A s \in Step : operations[s] # NoOperation =>
          /\ steps[s] = "running" => operations[s] = "uncertain"
          /\ steps[s] = "completed" => operations[s] = "succeeded"
  BY <1>1
<1>4. edges = IF schema >= 7 THEN LegacyChain ELSE {}
  BY DEF LegacyChain
<1>5. LegacyChain \subseteq Step \X (0..StepCount)
  BY UpgradeAssumption DEF LegacyChain, Step
<1>6. requests \in [Request -> [state : {Nothing, "pending", "active", "quarantined", "released"},
                               policy : Policies \cup {NoPolicy}]]
  BY DEF NoRequest
<1>7. compatible \in BOOLEAN
  BY ZenonT(30)
<1>8. UpgradeTypeOK
  <2>1. schema \in 0..Newer /\ steps \in [Step -> StepStates]
    BY <1>1 DEF StepStates
  <2>2. edges \subseteq Step \X (0..StepCount)
    BY <1>4, <1>5
  <2>3. opener \in [Opener -> {"out", "locked", "migrate", "open", "failed", "dead"}]
    OBVIOUS
  <2>4. \A x \in Opener : opener[x] \in {"locked", "migrate"} => guard = x
    OBVIOUS
  <2>. QED BY <2>1, <2>2, <2>3, <2>4, <1>2, <1>6, <1>7 DEF UpgradeTypeOK
<1>9. OpensUnlessNewer /\ HistoryMigrated
  BY <1>4 DEF OpensUnlessNewer, HistoryMigrated
<1>10. UpgradeFenced
  BY DEF UpgradeFenced, ClaimsSurviveUpgrade, PolicyKnown, NoRequest
<1>11. guard \in Opener \cup {Nothing} /\ version \in [Opener -> Nat] /\ busy \subseteq Request
  OBVIOUS
<1>12. \A x \in Opener : opener[x] # "migrate"
  OBVIOUS
<1>. QED BY <1>3, <1>4, <1>8, <1>9, <1>10, <1>11, <1>12, ZenonT(30) DEF UpgradeInv

(***************************************************************************)
(* A step that leaves the rows alone: a process moves on, with the lock it *)
(* takes or gives back.                                                    *)
(***************************************************************************)
LEMMA OpenerFrame ==
  ASSUME UpgradeInv, UNCHANGED <<database, busy>>, NEW x \in Opener, NEW w,
         w \in {"out", "locked", "migrate", "open", "failed", "dead"},
         opener' = [opener EXCEPT ![x] = w],
         guard' \in Opener \cup {Nothing}, version' \in [Opener -> Nat],
         w \in {"locked", "migrate"} => guard' = x,
         \A y \in Opener : y # x /\ opener[y] \in {"locked", "migrate"} =>
            guard' = y /\ version'[y] = version[y],
         w = "migrate" => version'[x] = schema /\ schema <= SchemaVersion,
         w = "open" => schema >= SchemaVersion /\ \A s \in Step : operations[s] # NoOperation,
         w = "failed" => schema = Newer
  PROVE  UpgradeInv'
<1> USE DEF UpgradeInv, UpgradeTypeOK, database
<1>1. \A y \in Opener : opener'[y] = IF y = x THEN w ELSE opener[y]
  OBVIOUS
<1>2. opener' \in [Opener -> {"out", "locked", "migrate", "open", "failed", "dead"}]
  OBVIOUS
<1>3. UpgradeTypeOK'
  <2>1. \A y \in Opener : opener'[y] \in {"locked", "migrate"} => guard' = y
    BY <1>1
  <2>2. /\ schema' \in 0..Newer /\ steps' \in [Step -> StepStates]
        /\ operations' \in [Step -> OperationStates \cup {NoOperation}]
        /\ edges' \subseteq Step \X (0..StepCount) /\ compatible' \in BOOLEAN
        /\ requests' \in [Request -> [state : {Nothing, "pending", "active", "quarantined", "released"},
                                      policy : Policies \cup {NoPolicy}]]
    BY ZenonT(30)
  <2>. QED BY <2>1, <2>2, <1>2, ZenonT(30)
<1>4. \A y \in Opener : opener'[y] = "migrate" => version'[y] = schema' /\ schema' <= SchemaVersion
  BY <1>1
<1>5. OpensUnlessNewer'
  BY <1>1 DEF OpensUnlessNewer
<1>6. HistoryMigrated'
  BY <1>1 DEF HistoryMigrated
<1>7. UpgradeFenced'
  BY DEF UpgradeFenced, ClaimsSurviveUpgrade, PolicyKnown
<1>8. /\ edges' = IF schema' >= 7 THEN LegacyChain ELSE {}
      /\ \A s \in Step : operations'[s] # NoOperation =>
            /\ steps'[s] = "running" => operations'[s] = "uncertain"
            /\ steps'[s] = "completed" => operations'[s] = "succeeded"
  OBVIOUS
<1>9. busy' \subseteq Request
  OBVIOUS
<1>. QED BY <1>3, <1>4, <1>5, <1>6, <1>7, <1>8, <1>9, ZenonT(30) DEF LegacyChain

\* A step of a client, which leaves the schema, the history and the processes alone.
LEMMA ClientFrame ==
  ASSUME UpgradeInv,
         UNCHANGED <<schema, steps, operations, edges, compatible, guard, opener, version>>,
         busy' \subseteq Request,
         requests' \in [Request -> [state : {Nothing, "pending", "active", "quarantined", "released"},
                                    policy : Policies \cup {NoPolicy}]],
         UpgradeFenced'
  PROVE  UpgradeInv'
<1>1. UpgradeTypeOK'
  BY ZenonT(30) DEF UpgradeInv, UpgradeTypeOK
<1>2. OpensUnlessNewer' /\ HistoryMigrated'
  BY DEF UpgradeInv, OpensUnlessNewer, HistoryMigrated, LegacyChain
<1>3. /\ guard' \in Opener \cup {Nothing} /\ version' \in [Opener -> Nat]
      /\ \A x \in Opener : opener'[x] = "migrate" => version'[x] = schema' /\ schema' <= SchemaVersion
      /\ \A s \in Step : operations'[s] # NoOperation =>
            /\ steps'[s] = "running" => operations'[s] = "uncertain"
            /\ steps'[s] = "completed" => operations'[s] = "succeeded"
  BY DEF UpgradeInv
<1>4. edges' = IF schema' >= 7 THEN LegacyChain ELSE {}
  BY DEF UpgradeInv
<1>. QED BY <1>1, <1>2, <1>3, <1>4, ZenonT(30) DEF UpgradeInv

(***************************************************************************)
(* A migration: the process has the lock and reads no older version than   *)
(* the schema has, so it makes the one that is next.                       *)
(***************************************************************************)
LEMMA MigrateStep ==
  ASSUME UpgradeInv, NEW x \in Opener, Migrate(x)
  PROVE  UpgradeInv'
<1> DEFINE v == version[x] + 1
<1>1. /\ opener[x] = "migrate" /\ version[x] = schema /\ schema \in 0..10 /\ guard = x
      /\ v = schema + 1
  BY DEF Migrate, UpgradeInv, UpgradeTypeOK, SchemaVersion, Newer
<1>2. ~ (AddsColumns(v) /\ schema >= v)
  BY <1>1
<1>3. /\ schema' = v /\ version' = [version EXCEPT ![x] = v]
      /\ compatible' = IF v = 2 THEN AddedCompatible ELSE compatible
      /\ edges' = IF v = 7 THEN edges \cup LegacyChain ELSE edges
      /\ requests' = [r \in Request |-> CASE v = 10 -> QuarantineUnlinked(requests[r])
                                          [] v = 11 -> FenceUnknownPolicy(requests[r])
                                          [] OTHER -> requests[r]]
      /\ UNCHANGED <<opener, guard, steps, operations, exact, backfilled, unreleased, busy, executed>>
  BY <1>2, ZenonT(30) DEF Migrate
<1> HIDE DEF v
<1>4. /\ schema' \in 1..SchemaVersion /\ schema' = schema + 1
      /\ schema' = SchemaVersion <=> v = 11
  BY <1>1, <1>3 DEF SchemaVersion
<1>5. /\ \A r \in Request : requests[r] \in [state : {Nothing, "pending", "active", "quarantined", "released"},
                                           policy : Policies \cup {NoPolicy}]
      /\ DOMAIN opener = Opener
  BY DEF UpgradeInv, UpgradeTypeOK
<1>6. ASSUME NEW r \in Request
      PROVE  /\ requests'[r] \in [state : {Nothing, "pending", "active", "quarantined", "released"},
                                  policy : Policies \cup {NoPolicy}]
             /\ requests[r].state \in {"active", "quarantined"} => requests'[r].state \in {"active", "quarantined"}
             /\ v = 11 => requests'[r].state # "active"
  <2>1. CASE v = 10
    <3>1. requests'[r] = QuarantineUnlinked(requests[r])
      BY <1>3, <2>1
    <3>2. requests'[r] = requests[r] \/
            (requests[r].state = "active" /\ requests'[r] = [requests[r] EXCEPT !.state = "quarantined"])
      BY <3>1, ZenonT(30) DEF QuarantineUnlinked
    <3>. QED BY <3>2, <1>5, <2>1
  <2>2. CASE v = 11
    <3>1. requests'[r] = FenceUnknownPolicy(requests[r])
      BY <1>3, <2>2
    <3>. QED BY <3>1, <1>5, <2>2 DEF FenceUnknownPolicy
  <2>3. CASE v \notin {10, 11}
    <3>1. requests'[r] = requests[r]
      BY <1>3, <2>3
    <3>. QED BY <3>1, <1>5, <2>3
  <2>. QED BY <2>1, <2>2, <2>3
<1>7. edges' = IF schema' >= 7 THEN LegacyChain ELSE {}
  <2>1. edges = IF schema >= 7 THEN LegacyChain ELSE {}
    BY DEF UpgradeInv
  <2>2. schema' = v /\ edges' = IF v = 7 THEN edges \cup LegacyChain ELSE edges
    BY <1>3
  <2>3. CASE v = 7
    <3>1. edges = {} /\ edges' = edges \cup LegacyChain
      BY <2>1, <2>2, <2>3, <1>1
    <3>2. edges' = LegacyChain
      BY <3>1, ZenonT(30)
    <3>. QED BY <3>2, <2>2, <2>3
  <2>4. CASE v # 7
    <3>1. edges' = edges
      BY <2>2, <2>4
    <3>. QED BY <3>1, <2>1, <2>2, <2>4, <1>1
  <2>. QED BY <2>3, <2>4
<1>8. edges' \subseteq Step \X (0..StepCount)
  <2>1. LegacyChain \subseteq Step \X (0..StepCount)
    BY UpgradeAssumption DEF LegacyChain, Step
  <2>. QED BY <2>1, <1>7
<1>9. compatible' \in BOOLEAN
  BY <1>3, ZenonT(30) DEF UpgradeInv, UpgradeTypeOK, AddedCompatible
<1>10. requests' \in [Request -> [state : {Nothing, "pending", "active", "quarantined", "released"},
                                  policy : Policies \cup {NoPolicy}]]
  BY <1>3, <1>6, ZenonT(30)
<1>11. UpgradeTypeOK'
  <2>1. /\ steps' \in [Step -> StepStates]
        /\ operations' \in [Step -> OperationStates \cup {NoOperation}]
        /\ opener' \in [Opener -> {"out", "locked", "migrate", "open", "failed", "dead"}]
        /\ \A y \in Opener : opener'[y] \in {"locked", "migrate"} => guard' = y
    BY <1>3 DEF UpgradeInv, UpgradeTypeOK
  <2>2. schema' \in 0..Newer
    BY <1>4 DEF SchemaVersion, Newer
  <2>. QED BY <2>1, <2>2, <1>8, <1>9, <1>10, ZenonT(30) DEF UpgradeTypeOK
<1>12. /\ guard' \in Opener \cup {Nothing} /\ version' \in [Opener -> Nat] /\ busy' \subseteq Request
  BY <1>1, <1>3 DEF UpgradeInv
<1>13. ASSUME NEW y \in Opener, opener'[y] = "migrate"
       PROVE  version'[y] = schema' /\ schema' <= SchemaVersion
  <2>1. y = x
    BY <1>13, <1>1, <1>3 DEF UpgradeInv, UpgradeTypeOK
  <2>. QED BY <2>1, <1>3, <1>4 DEF UpgradeInv, SchemaVersion
<1>14. \A y \in Opener : opener[y] \notin {"open", "failed"}
  BY <1>1 DEF UpgradeInv, OpensUnlessNewer, SchemaVersion, Newer
<1>15. OpensUnlessNewer'
  BY <1>14, <1>3 DEF OpensUnlessNewer
<1>16. HistoryMigrated'
  BY <1>14, <1>3, <1>7 DEF HistoryMigrated, LegacyChain
<1>17. UpgradeFenced'
  <2>1. ClaimsSurviveUpgrade'
    BY <1>3, <1>6 DEF UpgradeInv, UpgradeFenced, ClaimsSurviveUpgrade
  <2>2. PolicyKnown'
    BY <1>4, <1>6 DEF PolicyKnown, SchemaVersion
  <2>. QED BY <2>1, <2>2 DEF UpgradeFenced
<1>18. \A s \in Step : operations'[s] # NoOperation =>
            /\ steps'[s] = "running" => operations'[s] = "uncertain"
            /\ steps'[s] = "completed" => operations'[s] = "succeeded"
  BY <1>3 DEF UpgradeInv
<1>. QED BY <1>7, <1>11, <1>12, <1>13, <1>15, <1>16, <1>17, <1>18, ZenonT(30) DEF UpgradeInv

\* The backfill gives every step an operation that fits its state.
LEMMA BackfillStep ==
  ASSUME UpgradeInv, NEW x \in Opener, Backfill(x)
  PROVE  UpgradeInv'
<1>1. /\ opener[x] = "migrate" /\ version[x] = schema /\ schema = SchemaVersion /\ guard = x
      /\ operations' = Materialized /\ guard' = Nothing
      /\ opener' = [opener EXCEPT ![x] = "open"]
      /\ UNCHANGED <<schema, steps, edges, compatible, exact, requests, unreleased, busy, executed, version>>
  BY DEF Backfill, UpgradeInv, UpgradeTypeOK, SchemaVersion, Newer
<1>2. /\ steps \in [Step -> StepStates] /\ operations \in [Step -> OperationStates \cup {NoOperation}]
      /\ opener \in [Opener -> {"out", "locked", "migrate", "open", "failed", "dead"}]
  BY DEF UpgradeInv, UpgradeTypeOK
<1>3. ASSUME NEW s \in Step
      PROVE  /\ operations'[s] \in OperationStates /\ operations'[s] # NoOperation
             /\ steps[s] = "running" => operations'[s] = "uncertain"
             /\ steps[s] = "completed" => operations'[s] = "succeeded"
  <2>1. operations'[s] = IF operations[s] = NoOperation THEN StepOperationState(steps[s]) ELSE operations[s]
    BY <1>1 DEF Materialized
  <2>2. steps[s] \in StepStates /\ operations[s] \in OperationStates \cup {NoOperation}
    BY <1>2
  <2>3. CASE operations[s] = NoOperation
    BY <2>1, <2>2, <2>3 DEF StepOperationState, StepStates, OperationStates, NoOperation
  <2>4. CASE operations[s] # NoOperation
    BY <2>1, <2>2, <2>4 DEF UpgradeInv
  <2>. QED BY <2>3, <2>4
<1>4. operations' \in [Step -> OperationStates \cup {NoOperation}]
  BY <1>1, <1>3 DEF Materialized
<1>5. \A y \in Opener : y # x => opener'[y] = opener[y] /\ opener[y] \notin {"locked", "migrate"}
  BY <1>1, <1>2 DEF UpgradeInv, UpgradeTypeOK
<1>6. opener'[x] = "open"
  BY <1>1, <1>2
<1>7. UpgradeTypeOK'
  <2>1. /\ schema' \in 0..Newer /\ steps' \in [Step -> StepStates]
        /\ edges' \subseteq Step \X (0..StepCount) /\ compatible' \in BOOLEAN
        /\ requests' \in [Request -> [state : {Nothing, "pending", "active", "quarantined", "released"},
                                      policy : Policies \cup {NoPolicy}]]
    BY <1>1, ZenonT(30) DEF UpgradeInv, UpgradeTypeOK
  <2>2. /\ opener' \in [Opener -> {"out", "locked", "migrate", "open", "failed", "dead"}]
        /\ \A y \in Opener : opener'[y] \in {"locked", "migrate"} => guard' = y
    BY <1>1, <1>2, <1>5, <1>6
  <2>. QED BY <2>1, <2>2, <1>4, ZenonT(30) DEF UpgradeTypeOK
<1>8. /\ guard' \in Opener \cup {Nothing} /\ version' \in [Opener -> Nat] /\ busy' \subseteq Request
      /\ edges' = IF schema' >= 7 THEN LegacyChain ELSE {}
  BY <1>1 DEF UpgradeInv
<1>9. \A y \in Opener : opener'[y] # "migrate"
  BY <1>5, <1>6
<1>10. OpensUnlessNewer'
  BY <1>1, <1>5, <1>6 DEF UpgradeInv, OpensUnlessNewer, SchemaVersion
<1>11. HistoryMigrated'
  BY <1>1, <1>3, <1>8 DEF HistoryMigrated, LegacyChain
<1>12. UpgradeFenced'
  BY <1>1 DEF UpgradeInv, UpgradeFenced, ClaimsSurviveUpgrade, PolicyKnown
<1>13. \A s \in Step : operations'[s] # NoOperation =>
            /\ steps'[s] = "running" => operations'[s] = "uncertain"
            /\ steps'[s] = "completed" => operations'[s] = "succeeded"
  BY <1>1, <1>3
<1>. QED BY <1>7, <1>8, <1>9, <1>10, <1>11, <1>12, <1>13, ZenonT(30) DEF UpgradeInv

\* A newer program upgrades the file while nobody has the lock.
LEMMA NewerStep ==
  ASSUME UpgradeInv, NewerUpgrades
  PROVE  UpgradeInv'
<1>1. /\ schema = SchemaVersion /\ schema' = Newer /\ guard = Nothing
      /\ UNCHANGED <<steps, operations, edges, compatible, exact, requests, busy, guard, opener, version>>
  BY DEF NewerUpgrades
<1>2. \A y \in Opener : opener[y] \notin {"locked", "migrate"}
  BY <1>1, UpgradeAssumption DEF UpgradeInv, UpgradeTypeOK
<1>3. UpgradeTypeOK'
  <2>1. schema' \in 0..Newer
    BY <1>1 DEF Newer
  <2>. QED BY <2>1, <1>1, ZenonT(30) DEF UpgradeInv, UpgradeTypeOK
<1>4. /\ guard' \in Opener \cup {Nothing} /\ version' \in [Opener -> Nat] /\ busy' \subseteq Request
      /\ \A y \in Opener : opener'[y] # "migrate"
      /\ \A s \in Step : operations'[s] # NoOperation =>
            /\ steps'[s] = "running" => operations'[s] = "uncertain"
            /\ steps'[s] = "completed" => operations'[s] = "succeeded"
  BY <1>1, <1>2 DEF UpgradeInv
<1>5. edges' = IF schema' >= 7 THEN LegacyChain ELSE {}
  BY <1>1 DEF UpgradeInv, SchemaVersion, Newer
<1>6. OpensUnlessNewer'
  BY <1>1 DEF OpensUnlessNewer, SchemaVersion, Newer
<1>7. HistoryMigrated'
  BY <1>1, <1>5 DEF UpgradeInv, HistoryMigrated, LegacyChain, SchemaVersion, Newer
<1>8. UpgradeFenced'
  BY <1>1 DEF UpgradeInv, UpgradeFenced, ClaimsSurviveUpgrade, PolicyKnown, SchemaVersion, Newer
<1>. QED BY <1>3, <1>4, <1>5, <1>6, <1>7, <1>8, ZenonT(30) DEF UpgradeInv

\* UpgradeInv is inductive.
LEMMA UpgradeStep == UpgradeInv /\ [UpgradeNext]_upgradeVars => UpgradeInv'
<1> SUFFICES ASSUME UpgradeInv, [UpgradeNext]_upgradeVars PROVE UpgradeInv'
  OBVIOUS
<1>t. /\ opener \in [Opener -> {"out", "locked", "migrate", "open", "failed", "dead"}]
      /\ schema \in 0..Newer /\ version \in [Opener -> Nat] /\ guard \in Opener \cup {Nothing}
      /\ requests \in [Request -> [state : {Nothing, "pending", "active", "quarantined", "released"},
                                   policy : Policies \cup {NoPolicy}]]
      /\ \A y \in Opener : opener[y] \in {"locked", "migrate"} => guard = y
      /\ Nothing \notin Opener /\ busy \subseteq Request
  BY UpgradeAssumption DEF UpgradeInv, UpgradeTypeOK
<1>1. ASSUME NEW x \in Opener, TakeGuard(x) PROVE UpgradeInv'
  <2>1. /\ guard = Nothing /\ guard' = x /\ opener' = [opener EXCEPT ![x] = "locked"]
        /\ UNCHANGED <<database, busy, version>>
    BY <1>1 DEF TakeGuard, GuardFree
  <2>. QED BY <2>1, <1>t, OpenerFrame
<1>2. ASSUME NEW x \in Opener, Connect(x) PROVE UpgradeInv'
  <2>1. opener[x] = "locked" /\ guard = x /\ UNCHANGED <<database, busy>>
    BY <1>2, <1>t DEF Connect
  <2>2. CASE schema > SchemaVersion
    <3>1. opener' = [opener EXCEPT ![x] = "failed"] /\ guard' = Nothing /\ version' = version
      BY <1>2, <2>2 DEF Connect, TooNew
    <3>2. schema = Newer
      BY <2>2, <1>t DEF SchemaVersion, Newer
    <3>. QED BY <2>1, <3>1, <3>2, <1>t, OpenerFrame
  <2>3. CASE ~ (schema > SchemaVersion)
    <3>1. /\ opener' = [opener EXCEPT ![x] = "migrate"] /\ guard' = guard
          /\ version' = [version EXCEPT ![x] = schema]
      BY <1>2, <2>3 DEF Connect, TooNew
    <3>2. schema <= SchemaVersion /\ schema \in Nat
      BY <2>3, <1>t DEF SchemaVersion, Newer
    <3>3. /\ version' \in [Opener -> Nat] /\ version'[x] = schema
          /\ \A y \in Opener : y # x => version'[y] = version[y]
      BY <3>1, <3>2, <1>t
    <3>. QED BY <2>1, <3>1, <3>2, <3>3, <1>t, OpenerFrame
  <2>. QED BY <2>2, <2>3
<1>3. ASSUME NEW x \in Opener, DieOpening(x) PROVE UpgradeInv'
  <2>1. /\ guard = x /\ guard' = Nothing /\ opener' = [opener EXCEPT ![x] = "dead"]
        /\ UNCHANGED <<database, busy, version>>
    BY <1>3, <1>t DEF DieOpening
  <2>. QED BY <2>1, <1>t, OpenerFrame
<1>4. ASSUME NEW x \in Opener, Execute(x) PROVE UpgradeInv'
  <2>1. /\ UNCHANGED <<schema, steps, edges, compatible, requests, busy, guard, opener, version>>
        /\ operations' = [s \in Step |-> IF operations[s] = "created" THEN "succeeded" ELSE operations[s]]
        /\ opener[x] = "open"
    BY <1>4 DEF Execute
  <2>2. operations \in [Step -> OperationStates \cup {NoOperation}]
    BY DEF UpgradeInv, UpgradeTypeOK
  <2>3. operations' \in [Step -> OperationStates \cup {NoOperation}]
    BY <2>1, <2>2 DEF OperationStates
  <2>4. \A s \in Step : operations'[s] # NoOperation /\
            (steps[s] = "running" => operations'[s] = "uncertain") /\
            (steps[s] = "completed" => operations'[s] = "succeeded")
    BY <2>1 DEF UpgradeInv, HistoryMigrated, NoOperation
  <2>5. UpgradeTypeOK'
    BY <2>1, <2>3, ZenonT(30) DEF UpgradeInv, UpgradeTypeOK
  <2>6. OpensUnlessNewer' /\ UpgradeFenced'
    BY <2>1 DEF UpgradeInv, OpensUnlessNewer, UpgradeFenced, ClaimsSurviveUpgrade, PolicyKnown
  <2>7. HistoryMigrated'
    BY <2>1, <2>4 DEF UpgradeInv, HistoryMigrated, LegacyChain
  <2>8. /\ guard' \in Opener \cup {Nothing} /\ version' \in [Opener -> Nat] /\ busy' \subseteq Request
        /\ \A y \in Opener : opener'[y] = "migrate" => version'[y] = schema' /\ schema' <= SchemaVersion
        /\ edges' = IF schema' >= 7 THEN LegacyChain ELSE {}
    BY <2>1 DEF UpgradeInv
  <2>9. \A s \in Step : operations'[s] # NoOperation =>
            /\ steps'[s] = "running" => operations'[s] = "uncertain"
            /\ steps'[s] = "completed" => operations'[s] = "succeeded"
    BY <2>1, <2>4
  <2>. QED BY <2>5, <2>6, <2>7, <2>8, <2>9, ZenonT(30) DEF UpgradeInv
<1>5. ASSUME NEW r \in Request, NEW p \in Policies \cup {NoPolicy}, NEW s \in {"pending", "active"}, Ask(r, p, s)
      PROVE  UpgradeInv'
  <2>1. /\ requests' = [requests EXCEPT ![r] = [state |-> s, policy |-> p]]
        /\ requests[r].state \in {Nothing, "pending"} /\ TriggersAllow(r, p, s)
        /\ UNCHANGED <<schema, steps, operations, edges, compatible, busy, guard, opener, version>>
    BY <1>5, <1>t DEF Ask
  <2>2. /\ requests' \in [Request -> [state : {Nothing, "pending", "active", "quarantined", "released"},
                                      policy : Policies \cup {NoPolicy}]]
        /\ requests'[r].state = s /\ requests'[r].policy = p
        /\ \A o \in Request : o # r => requests'[o] = requests[o]
    BY <2>1, <1>t
  <2>3. ClaimsSurviveUpgrade'
    <3>1. r \notin busy
      BY <2>1 DEF UpgradeInv, UpgradeFenced, ClaimsSurviveUpgrade, Nothing
    <3>. QED BY <3>1, <2>1, <2>2, <1>t DEF UpgradeInv, UpgradeFenced, ClaimsSurviveUpgrade
  <2>4. PolicyKnown'
    <3> SUFFICES ASSUME schema >= SchemaVersion, NEW a \in Request, NEW b \in Request,
                        requests'[a].state = "active", requests'[b].state = "active"
                 PROVE  requests'[a].policy # NoPolicy /\ requests'[a].policy = requests'[b].policy
      BY <2>1 DEF PolicyKnown
    <3>1. /\ p # NoPolicy
          /\ s = "active" => \A o \in Request \ {r} : requests[o].state = "active" => requests[o].policy = p
      BY <2>1 DEF TriggersAllow
    <3>2. \A c, d \in Request : requests[c].state = "active" /\ requests[d].state = "active" =>
             requests[c].policy # NoPolicy /\ requests[c].policy = requests[d].policy
      BY DEF UpgradeInv, UpgradeFenced, PolicyKnown
    <3>. QED BY <3>1, <3>2, <2>2
  <2>. QED BY <2>1, <2>2, <2>3, <2>4, <1>t, ClientFrame DEF UpgradeFenced
<1>6. ASSUME NEW r \in Request, Dispatch(r) PROVE UpgradeInv'
  <2>1. /\ requests[r].state = "active" /\ busy' = busy \cup {r}
        /\ UNCHANGED <<schema, steps, operations, edges, compatible, requests, guard, opener, version>>
    BY <1>6 DEF Dispatch, database
  <2>2. UpgradeFenced'
    BY <2>1 DEF UpgradeInv, UpgradeFenced, ClaimsSurviveUpgrade, PolicyKnown
  <2>. QED BY <2>1, <2>2, <1>t, ClientFrame
<1>7. ASSUME NEW r \in Request, Settle(r) PROVE UpgradeInv'
  <2>1. /\ busy' = busy \ {r}
        /\ requests' = requests \/ requests' = [requests EXCEPT ![r].state = "released"]
        /\ UNCHANGED <<schema, steps, operations, edges, compatible, guard, opener, version>>
    BY <1>7 DEF Settle
  <2>2. /\ requests' \in [Request -> [state : {Nothing, "pending", "active", "quarantined", "released"},
                                      policy : Policies \cup {NoPolicy}]]
        /\ \A o \in Request : /\ o # r => requests'[o] = requests[o]
                              /\ requests'[o].state = "active" => requests'[o] = requests[o]
    BY <2>1, <1>t
  <2>3. UpgradeFenced'
    <3>1. ClaimsSurviveUpgrade'
      BY <2>1, <2>2, <1>t DEF UpgradeInv, UpgradeFenced, ClaimsSurviveUpgrade
    <3>2. PolicyKnown'
      BY <2>1, <2>2 DEF UpgradeInv, UpgradeFenced, PolicyKnown
    <3>. QED BY <3>1, <3>2 DEF UpgradeFenced
  <2>. QED BY <2>1, <2>2, <2>3, <1>t, ClientFrame
<1>8. CASE UNCHANGED upgradeVars
  <2>1. UNCHANGED <<schema, steps, operations, edges, compatible, requests, busy, guard, opener, version>>
    BY <1>8 DEF upgradeVars
  <2>2. UpgradeFenced'
    BY <2>1 DEF UpgradeInv, UpgradeFenced, ClaimsSurviveUpgrade, PolicyKnown
  <2>. QED BY <2>1, <2>2, <1>t, ClientFrame
<1>. QED BY <1>1, <1>2, <1>3, <1>4, <1>5, <1>6, <1>7, <1>8, MigrateStep, BackfillStep, NewerStep, ZenonT(30)
     DEF UpgradeNext

(***************************************************************************)
(* The invariant of the payload: the column of _migrate_v2 starts FALSE    *)
(* and the one row that has it TRUE has an exact payload.                  *)
(***************************************************************************)
LEMMA PayloadStep == PayloadInv /\ [UpgradeNext]_upgradeVars => PayloadInv'
<1> SUFFICES ASSUME PayloadInv, [UpgradeNext]_upgradeVars PROVE PayloadInv'
  OBVIOUS
<1> USE DEF PayloadInv, database
<1>1. ASSUME NEW x \in Opener, Migrate(x) PROVE PayloadInv'
  <2>1. (compatible' => compatible) /\ exact' = exact /\ executed' = executed
    BY <1>1, ZenonT(30) DEF Migrate, AddedCompatible
  <2>. QED BY <2>1, ZenonT(30)
<1>2. ASSUME NEW x \in Opener, Execute(x) PROVE PayloadInv'
  <2>1. compatible /\ compatible' = compatible /\ exact' = exact
    BY <1>2, ZenonT(30) DEF Execute, Executable
  <2>. QED BY <2>1, ZenonT(30)
<1>3. ASSUME NEW x \in Opener, TakeGuard(x) \/ Connect(x) \/ Backfill(x) \/ DieOpening(x)
      PROVE  PayloadInv'
  <2>1. UNCHANGED <<compatible, exact, executed>>
    BY <1>3, ZenonT(30) DEF TakeGuard, Connect, Backfill, DieOpening
  <2>. QED BY <2>1, ZenonT(30)
<1>4. ASSUME NEW r \in Request, NEW p \in Policies \cup {NoPolicy}, NEW s \in {"pending", "active"},
             Ask(r, p, s) \/ Dispatch(r) \/ Settle(r)
      PROVE  PayloadInv'
  <2>1. UNCHANGED <<compatible, exact, executed>>
    BY <1>4, ZenonT(30) DEF Ask, Dispatch, Settle
  <2>. QED BY <2>1, ZenonT(30)
<1>5. ASSUME NEW r \in Request, Dispatch(r) \/ Settle(r) PROVE PayloadInv'
  <2>1. UNCHANGED <<compatible, exact, executed>>
    BY <1>5, ZenonT(30) DEF Dispatch, Settle
  <2>. QED BY <2>1, ZenonT(30)
<1>6. CASE NewerUpgrades
  <2>1. UNCHANGED <<compatible, exact, executed>>
    BY <1>6, ZenonT(30) DEF NewerUpgrades
  <2>. QED BY <2>1, ZenonT(30)
<1>7. CASE UNCHANGED upgradeVars
  <2>1. UNCHANGED <<compatible, exact, executed>>
    BY <1>7, ZenonT(30) DEF upgradeVars
  <2>. QED BY <2>1, ZenonT(30)
<1>. QED BY <1>1, <1>2, <1>3, <1>4, <1>5, <1>6, <1>7, ZenonT(30) DEF UpgradeNext

-----------------------------------------------------------------------------
(***************************************************************************)
(* The connection that is shared.                                          *)
(***************************************************************************)

\* A store that was just made has no connection and nobody in it.
LEMMA BorrowInitial == BorrowInit => BorrowInv
<1> SUFFICES ASSUME BorrowInit PROVE BorrowInv
  OBVIOUS
<1>1. ConnectionServed
  BY ZenonT(30) DEF BorrowInit, ConnectionServed
<1>. QED BY <1>1 DEF BorrowInit, BorrowInv, NoInheritedTransaction

\* BorrowInv is inductive.
LEMMA BorrowStep == BorrowInv /\ [BorrowNext]_borrowVars => BorrowInv'
<1> SUFFICES ASSUME BorrowInv, [BorrowNext]_borrowVars PROVE BorrowInv'
  OBVIOUS
<1>t. /\ depth \in [Borrower -> Nat] /\ place \in [Borrower -> {"out", "connect", "use", "return"}]
      /\ shared \in {"absent", "idle", "transaction"}
      /\ \A t \in Borrower : place[t] \in {"use", "return"} => depth[t] > 0 /\ FreeFor(t)
      /\ \A t \in Borrower : place[t] = "use" => shared # "absent"
      /\ NoInheritedTransaction
  BY DEF BorrowInv, ConnectionServed
<1>s. sealed => shared = "absent"
  BY ZenonT(30) DEF BorrowInv, ConnectionServed
\* What is to be shown of the new state.
<1>g. ASSUME depth' \in [Borrower -> Nat], place' \in [Borrower -> {"out", "connect", "use", "return"}],
             shared' \in {"absent", "idle", "transaction"},
             \A t \in Borrower : place'[t] \in {"use", "return"} =>
                depth'[t] > 0 /\ \A o \in Borrower \ {t} : depth'[o] = 0,
             \A t \in Borrower : place'[t] = "use" => shared' # "absent",
             sealed' => shared' = "absent",
             shared' = "transaction" => \E t \in Borrower : place'[t] \in {"use", "return"}
      PROVE  BorrowInv'
  <2>1. ConnectionServed'
    BY <1>g, ZenonT(30) DEF ConnectionServed, FreeFor
  <2>2. NoInheritedTransaction'
    BY <1>g DEF NoInheritedTransaction
  <2>3. \A t \in Borrower : place'[t] \in {"use", "return"} => depth'[t] > 0 /\ FreeFor(t)'
    BY <1>g DEF FreeFor
  <2>. QED BY <1>g, <2>1, <2>2, <2>3, ZenonT(30) DEF BorrowInv
<1>e. shared = "transaction" => \E t \in Borrower : place[t] \in {"use", "return"}
  BY <1>t DEF NoInheritedTransaction
<1>1. ASSUME NEW t \in Borrower, EnterStore(t) PROVE BorrowInv'
  <2>1. /\ place[t] = "out" /\ place' = [place EXCEPT ![t] = "connect"] /\ shared' = shared
        /\ depth' = depth \/ (FreeFor(t) /\ depth' = [depth EXCEPT ![t] = 1])
    BY <1>1 DEF EnterStore
  <2>2. sealed' = sealed
    BY <1>1, ZenonT(30) DEF EnterStore
  <2>3. \A o \in Borrower : /\ o # t => place'[o] = place[o] /\ depth'[o] = depth[o]
                            /\ place'[t] = "connect"
    BY <2>1, <1>t
  <2>4. \A o \in Borrower : place'[o] \in {"use", "return"} =>
           depth'[o] > 0 /\ \A q \in Borrower \ {o} : depth'[q] = 0
    <3>1. CASE depth' = depth
      BY <3>1, <2>3, <1>t DEF FreeFor
    <3>2. CASE FreeFor(t)
      <4>1. \A o \in Borrower : place'[o] \notin {"use", "return"}
        BY <3>2, <2>3, <1>t DEF FreeFor
      <4>. QED BY <4>1
    <3>. QED BY <2>1, <3>1, <3>2
  <2>5. depth' \in [Borrower -> Nat] /\ place' \in [Borrower -> {"out", "connect", "use", "return"}]
    BY <2>1, <1>t
  <2>6. shared' = "transaction" => \E o \in Borrower : place'[o] \in {"use", "return"}
    BY <2>1, <2>3, <1>e
  <2>7. \A o \in Borrower : place'[o] = "use" => shared' # "absent"
    BY <2>1, <2>3, <1>t
  <2>8. sealed' => shared' = "absent"
    BY <2>1, <2>2, <1>s, ZenonT(30)
  <2>9. shared' \in {"absent", "idle", "transaction"}
    BY <2>1, <1>t
  <2>. QED BY <1>g, <2>4, <2>5, <2>6, <2>7, <2>8, <2>9, ZenonT(30)
<1>2. ASSUME NEW t \in Borrower, BorrowConnection(t) PROVE BorrowInv'
  <2>1. place[t] = "connect" /\ FreeFor(t)
    BY <1>2 DEF BorrowConnection
  <2>2. sealed' = sealed
    BY <1>2, ZenonT(30) DEF BorrowConnection
  <2>3. \A o \in Borrower : place[o] \notin {"use", "return"}
    BY <2>1, <1>t DEF FreeFor
  <2>4. shared # "transaction"
    BY <2>3, <1>e
  <2>5. CASE sealed
    <3>1. /\ depth' = [depth EXCEPT ![t] = 0] /\ place' = [place EXCEPT ![t] = "out"] /\ shared' = shared
      BY <1>2, <2>5, ZenonT(30) DEF BorrowConnection
    <3>2. \A o \in Borrower : place'[o] \notin {"use", "return"}
      BY <3>1, <2>3, <1>t
    <3>3. /\ depth' \in [Borrower -> Nat] /\ place' \in [Borrower -> {"out", "connect", "use", "return"}]
          /\ shared' \in {"absent", "idle", "transaction"} /\ shared' # "transaction"
      BY <3>1, <2>4, <1>t
    <3>4. sealed' => shared' = "absent"
      BY <3>1, <2>2, <1>s, ZenonT(30)
    <3>5. \A o \in Borrower : place'[o] # "use"
      BY <3>2
    <3>. QED BY <1>g, <3>2, <3>3, <3>4, <3>5, ZenonT(30)
  <2>6. CASE ~ sealed
    <3>1. /\ depth' = [depth EXCEPT ![t] = @ + 1] /\ place' = [place EXCEPT ![t] = "use"]
          /\ shared' = IF shared = "absent" THEN "idle" ELSE shared
      BY <1>2, <2>6, ZenonT(30) DEF BorrowConnection
    <3>2. /\ depth' \in [Borrower -> Nat] /\ place' \in [Borrower -> {"out", "connect", "use", "return"}]
          /\ depth'[t] > 0 /\ place'[t] = "use"
          /\ \A o \in Borrower \ {t} : depth'[o] = 0 /\ place'[o] \notin {"use", "return"}
      BY <3>1, <2>1, <2>3, <1>t DEF FreeFor
    <3>3. shared' \in {"absent", "idle", "transaction"} /\ shared' # "absent"
      BY <3>1, <1>t
    <3>4. ~ sealed'
      BY <2>2, <2>6, ZenonT(30)
    <3>5. \A o \in Borrower : place'[o] \in {"use", "return"} =>
             depth'[o] > 0 /\ \A q \in Borrower \ {o} : depth'[q] = 0
      BY <3>2
    <3>6. \E o \in Borrower : place'[o] \in {"use", "return"}
      BY <3>2
    <3>. QED BY <1>g, <3>2, <3>3, <3>4, <3>5, <3>6, ZenonT(30)
  <2>. QED BY <2>5, <2>6
<1>3. ASSUME NEW t \in Borrower, BeginImmediate(t) \/ EndUse(t) PROVE BorrowInv'
  <2>1. /\ place[t] = "use" /\ depth' = depth
        /\ place' = place \/ place' = [place EXCEPT ![t] = "return"]
        /\ shared' = shared \/ (shared \in {"idle", "transaction"} /\ shared' \in {"idle", "transaction"})
    BY <1>3 DEF BeginImmediate, EndUse
  <2>2. sealed' = sealed
    BY <1>3, ZenonT(30) DEF BeginImmediate, EndUse
  <2>3. /\ place' \in [Borrower -> {"out", "connect", "use", "return"}]
        /\ place'[t] \in {"use", "return"} /\ \A o \in Borrower \ {t} : place'[o] = place[o]
    BY <2>1, <1>t
  <2>4. /\ shared' \in {"absent", "idle", "transaction"}
        /\ shared = "absent" <=> shared' = "absent"
    BY <2>1, <1>t
  <2>5. \A o \in Borrower : place'[o] \in {"use", "return"} =>
           depth'[o] > 0 /\ \A q \in Borrower \ {o} : depth'[q] = 0
    BY <2>1, <2>3, <1>t DEF FreeFor
  <2>6. \A o \in Borrower : place'[o] = "use" => shared' # "absent"
    BY <2>1, <2>3, <2>4, <1>t
  <2>7. sealed' => shared' = "absent"
    BY <2>2, <2>4, <1>s, ZenonT(30)
  <2>8. depth' \in [Borrower -> Nat]
    BY <2>1, <1>t
  <2>9. \E o \in Borrower : place'[o] \in {"use", "return"}
    BY <2>3
  <2>. QED BY <1>g, <2>3, <2>4, <2>5, <2>6, <2>7, <2>8, <2>9, ZenonT(30)
<1>4. ASSUME NEW t \in Borrower, ReturnConnection(t) PROVE BorrowInv'
  <2>1. /\ place[t] = "return" /\ shared' \in Returned(shared)
        /\ depth' = [depth EXCEPT ![t] = 0] /\ place' = [place EXCEPT ![t] = "out"]
    BY <1>4 DEF ReturnConnection
  <2>2. sealed' = sealed
    BY <1>4, ZenonT(30) DEF ReturnConnection
  <2>3. \A o \in Borrower \ {t} : place[o] \notin {"use", "return"}
    BY <2>1, <1>t DEF FreeFor
  <2>4. \A o \in Borrower : place'[o] \notin {"use", "return"}
    BY <2>1, <2>3, <1>t
  <2>5. /\ shared' \in {"absent", "idle", "transaction"} /\ shared' # "transaction"
        /\ shared = "absent" => shared' = "absent"
    BY <2>1, <1>t DEF Returned
  <2>6. sealed' => shared' = "absent"
    BY <2>2, <2>5, <1>s, ZenonT(30)
  <2>7. depth' \in [Borrower -> Nat] /\ place' \in [Borrower -> {"out", "connect", "use", "return"}]
    BY <2>1, <1>t
  <2>8. \A o \in Borrower : place'[o] # "use"
    BY <2>4
  <2>. QED BY <1>g, <2>4, <2>5, <2>6, <2>7, <2>8, ZenonT(30)
<1>5. ASSUME NEW t \in Borrower, CloseStore(t) PROVE BorrowInv'
  <2>1. /\ place[t] = "out" /\ FreeFor(t) /\ shared' = "absent" /\ UNCHANGED <<depth, place>>
    BY <1>5 DEF CloseStore, MayClose
  <2>2. \A o \in Borrower : place'[o] \notin {"use", "return"}
    BY <2>1, <1>t DEF FreeFor
  <2>3. depth' \in [Borrower -> Nat] /\ place' \in [Borrower -> {"out", "connect", "use", "return"}]
    BY <2>1, <1>t
  <2>4. shared' \in {"absent", "idle", "transaction"} /\ shared' # "transaction"
    BY <2>1
  <2>5. \A o \in Borrower : place'[o] # "use"
    BY <2>2
  <2>. QED BY <1>g, <2>1, <2>2, <2>3, <2>4, <2>5, ZenonT(30)
<1>6. CASE UNCHANGED borrowVars
  BY <1>6, ZenonT(30) DEF borrowVars, BorrowInv, ConnectionServed, NoInheritedTransaction, FreeFor
<1>. QED BY <1>1, <1>2, <1>3, <1>4, <1>5, <1>6 DEF BorrowNext

-----------------------------------------------------------------------------
(***************************************************************************)
(* However the migrations of processes that open together, that die and    *)
(* that come again fall among the calls of clients old and new, no claim   *)
(* under which an effect may be going on is given up, and from schema 11   *)
(* on the claims active together have one known policy (_migrate_v10,      *)
(* _migrate_v11 and its triggers).                                         *)
(***************************************************************************)
THEOREM UpgradeKeepsFences == UpgradeSpec => []UpgradeFenced
<1>1. UpgradeInv => UpgradeFenced
  BY DEF UpgradeInv
<1>. QED BY <1>1, UpgradeInitial, UpgradeStep, PTL DEF UpgradeSpec

(***************************************************************************)
(* A store that opens is whole, and so is the connection its threads       *)
(* share: it opens unless a newer program wrote the file, with its history *)
(* migrated; nothing without an exact payload is executed; a thread that   *)
(* uses the connection is alone with it, and no transaction outlives its   *)
(* operation (_initialize, _materialize_workflow, _ConnectionLease).       *)
(***************************************************************************)
THEOREM StoresOpenWhole == StoreSpec => []StoreSound
<1>1. UpgradeInit => PayloadInv
  <2> SUFFICES ASSUME UpgradeInit PROVE PayloadInv
    OBVIOUS
  <2>1. compatible => exact
    BY ZenonT(30) DEF UpgradeInit
  <2>2. executed = FALSE
    BY ZenonT(30) DEF UpgradeInit
  <2>. QED BY <2>1, <2>2, ZenonT(30) DEF PayloadInv
<1>2. UpgradeInv /\ PayloadInv /\ BorrowInv => StoreSound
  <2> SUFFICES ASSUME UpgradeInv, PayloadInv, BorrowInv PROVE StoreSound
    OBVIOUS
  <2>1. UpgradeTypeOK /\ OpensUnlessNewer /\ HistoryMigrated
    BY DEF UpgradeInv
  <2>2. NeverGuesses
    BY ZenonT(30) DEF PayloadInv, NeverGuesses
  <2>3. ConnectionServed /\ NoInheritedTransaction
    BY DEF BorrowInv
  <2>. QED BY <2>1, <2>2, <2>3 DEF StoreSound
<1>. QED BY <1>1, <1>2, UpgradeInitial, UpgradeStep, PayloadStep, BorrowInitial, BorrowStep, PTL
     DEF StoreSpec, UpgradeSpec, BorrowSpec

(***************************************************************************)
(* The schema never goes back, and a file that a newer program upgraded is *)
(* not written by a process that opens it (_new_connection, _initialize).  *)
(***************************************************************************)
THEOREM SchemaOnlyMovesOn == UpgradeSpec => [][SchemaMovesOn]_upgradeVars
<1>1. UpgradeInv /\ [UpgradeNext]_upgradeVars => [SchemaMovesOn]_upgradeVars
  <2> SUFFICES ASSUME UpgradeInv, UpgradeNext PROVE SchemaMovesOn
    OBVIOUS
  <2>t. /\ schema \in 0..Newer
        /\ \A x \in Opener : opener[x] = "migrate" => version[x] = schema /\ schema <= SchemaVersion
    BY DEF UpgradeInv, UpgradeTypeOK
  <2>1. ASSUME NEW x \in Opener, Migrate(x) PROVE SchemaMovesOn
    <3>1. opener[x] = "migrate" /\ (schema' = schema \/ schema' = version[x] + 1)
      BY <2>1, ZenonT(30) DEF Migrate
    <3>2. schema <= SchemaVersion /\ version[x] = schema
      BY <3>1, <2>t
    <3>3. schema' >= schema /\ schema # Newer
      BY <3>1, <3>2, <2>t DEF SchemaVersion, Newer
    <3>. QED BY <3>3 DEF SchemaMovesOn
  <2>2. ASSUME NEW x \in Opener, Backfill(x) PROVE SchemaMovesOn
    <3>1. opener[x] = "migrate" /\ schema' = schema
      BY <2>2 DEF Backfill
    <3>2. schema # Newer
      BY <3>1, <2>t DEF SchemaVersion, Newer
    <3>. QED BY <3>1, <3>2, <2>t DEF SchemaMovesOn, Newer
  <2>3. ASSUME NEW x \in Opener, TakeGuard(x) \/ Connect(x) \/ DieOpening(x) PROVE SchemaMovesOn
    <3>1. UNCHANGED database
      BY <2>3, ZenonT(30) DEF TakeGuard, Connect, DieOpening
    <3>2. schema' = schema
      BY <3>1 DEF database
    <3>. QED BY <3>1, <3>2, <2>t DEF SchemaMovesOn, Newer
  <2>4. ASSUME NEW x \in Opener, Execute(x) PROVE SchemaMovesOn
    <3>1. schema' = schema /\ opener' = opener
      BY <2>4 DEF Execute
    <3>. QED BY <3>1, <2>t DEF SchemaMovesOn, Newer
  <2>5. ASSUME NEW r \in Request, NEW p, NEW s, Ask(r, p, s) PROVE SchemaMovesOn
    <3>1. schema' = schema /\ opener' = opener
      BY <2>5 DEF Ask
    <3>. QED BY <3>1, <2>t DEF SchemaMovesOn, Newer
  <2>6. ASSUME NEW r \in Request, Dispatch(r) \/ Settle(r) PROVE SchemaMovesOn
    <3>1. schema' = schema /\ opener' = opener
      BY <2>6 DEF Dispatch, Settle, database
    <3>. QED BY <3>1, <2>t DEF SchemaMovesOn, Newer
  <2>7. CASE NewerUpgrades
    <3>1. schema' = Newer /\ opener' = opener
      BY <2>7 DEF NewerUpgrades
    <3>. QED BY <3>1, <2>t DEF SchemaMovesOn, Newer
  <2>. QED BY <2>1, <2>2, <2>3, <2>4, <2>5, <2>6, <2>7 DEF UpgradeNext
<1>. QED BY <1>1, UpgradeInitial, UpgradeStep, PTL DEF UpgradeSpec
-----------------------------------------------------------------------------
(* The backup directory.                                                   *)

\* A bounded set of backups that is not empty has a last one.
LEMMA LastBackup ==
    ASSUME NEW n \in Nat, NEW D \in SUBSET (1 .. n), D # {}
    PROVE  \E m \in D : \A b \in D : b <= m
<1> DEFINE T == {k \in Nat : n - k \in D}
<1>1. T \subseteq Nat /\ T # {}
  <2>1. PICK d \in D : TRUE
    OBVIOUS
  <2>2. n - d \in Nat /\ n - (n - d) = d
    OBVIOUS
  <2>3. n - d \in T
    BY <2>1, <2>2
  <2>. QED BY <2>3
<1>2. PICK k \in T : \A y \in T : ~(<<y, k>> \in OpToRel(<, Nat))
  <2> HIDE DEF T
  <2>. QED BY <1>1, NatLessThanWellFounded, WFMin, ZenonT(30)
<1>3. \A y \in T : ~(y < k)
  BY <1>1, <1>2 DEF OpToRel
<1>4. ASSUME NEW b \in D PROVE b <= n - k
  <2>1. n - b \in Nat /\ n - (n - b) = b
    OBVIOUS
  <2>2. n - b \in T
    BY <2>1
  <2>3. ~(n - b < k) /\ k \in Nat
    BY <2>2, <1>3
  <2>. QED BY <2>3
<1>. QED BY <1>4

\* The n oldest of some backups are at most n.
LEMMA OldestBound ==
    ASSUME NEW k \in Nat, NEW S \in SUBSET (1 .. k), NEW n \in Nat
    PROVE  IsFiniteSet(OldestFirst(S, n)) /\ Cardinality(OldestFirst(S, n)) <= n
<1> DEFINE D == OldestFirst(S, n)
<1>a. IsFiniteSet(1 .. k)
  BY FS_Interval
<1>b. IsFiniteSet(S)
  BY <1>a, FS_Subset
<1>1. D \subseteq S /\ IsFiniteSet(S)
  BY <1>b DEF OldestFirst
<1>2. IsFiniteSet(D)
  BY <1>1, FS_Subset
<1>3. CASE D = {}
  BY <1>3, <1>2, FS_EmptySet
<1>4. CASE D # {}
  <2>1. PICK m \in D : \A b \in D : b <= m
    <3>1. D \in SUBSET (1 .. k)
      BY <1>1
    <3> HIDE DEF D
    <3>. QED BY <3>1, <1>4, LastBackup
  <2>2. m \in S /\ Cardinality({c \in S : c < m}) < n
    BY <2>1 DEF OldestFirst
  <2> DEFINE B == {c \in S : c < m}
  <2>a. B \in SUBSET S
    OBVIOUS
  <2>b. m \notin B
    BY <2>2, SMT
  <2>3. IsFiniteSet(B) /\ Cardinality(B) \in Nat /\ m \notin B
    <3> HIDE DEF B
    <3>. QED BY <1>1, <2>a, <2>b, FS_Subset, FS_CardinalityType
  <2>4. IsFiniteSet(B \cup {m}) /\ Cardinality(B \cup {m}) = Cardinality(B) + 1
    <3> HIDE DEF B
    <3>. QED BY <2>3, FS_AddElement
  <2>5. D \subseteq B \cup {m}
    <3>1. ASSUME NEW b \in D PROVE b < m \/ b = m
      <4>1. b \in 1 .. k /\ m \in 1 .. k /\ b <= m
        BY <1>1, <2>1
      <4>. QED BY <4>1
    <3>. QED BY <3>1, <1>1
  <2>6. Cardinality(D) <= Cardinality(B \cup {m}) /\ Cardinality(D) \in Nat
    <3> HIDE DEF B, D
    <3>. QED BY <2>4, <2>5, <1>2, FS_Subset, FS_CardinalityType
  <2>7. Cardinality(B) < n
    BY <2>2
  <2>8. Cardinality(D) <= n
    <3> HIDE DEF B, D
    <3>. QED BY <2>3, <2>4, <2>6, <2>7
  <2>. QED BY <2>8, <1>2
<1>. QED BY <1>3, <1>4

\* What a pass keeps: the protected backups.
LEMMA CleanupKeeps ==
    ASSUME NEW protected, NEW stuck
    PROVE  /\ CleanupBackups(protected, stuck) \subseteq files
           /\ protected \cap files \subseteq CleanupBackups(protected, stuck)
BY DEF CleanupBackups, OldestFirst

\* More backups are numbered.
LEMMA MoreBackups ==
    ASSUME RetentionTypes, made' = made + 1
    PROVE  /\ made' \in Nat /\ made + 1 \in 1 .. made' /\ 1 .. made \subseteq 1 .. made'
           /\ 0 .. made \subseteq 0 .. made' /\ made + 1 # 0
BY DEF RetentionTypes
-----------------------------------------------------------------------------
\* The types.
LEMMA RetentionTypeStep == RetentionInv /\ [RetentionNext]_retentionVars => RetentionTypes'
<1> SUFFICES ASSUME RetentionInv, [RetentionNext]_retentionVars PROVE RetentionTypes'
  OBVIOUS
<1>0. RetentionTypes
  BY DEF RetentionInv
<1> USE <1>0
<1>1. CASE TimePasses
  <2>1. graceMark' \in 0 .. made /\ ageMark' \in 0 .. graceMark'
    BY <1>1, SMT DEF TimePasses, RetentionTypes
  <2>. QED BY <1>1, <2>1 DEF TimePasses, RetentionTypes, passVars, editVars
<1>2. CASE UNCHANGED retentionVars
  BY <1>2 DEF RetentionTypes, retentionVars
<1>3. ASSUME NEW p \in Process, ToolBackup(p) PROVE RetentionTypes'
  <2>1. made' = made + 1 /\ graceMark' = graceMark /\ ageMark' = ageMark
    BY <1>3 DEF ToolBackup, Schedule
  <2>2. graceMark' \in 0 .. made' /\ ageMark' \in 0 .. graceMark'
    BY <2>1, SMT DEF RetentionTypes
  <2>3. /\ made' \in Nat /\ made + 1 \in 1 .. made' /\ 1 .. made \subseteq 1 .. made' /\ 0 .. made \subseteq 0 .. made'
        /\ made + 1 \in 0 .. made'
    BY <2>1, MoreBackups
  <2>4. files' \subseteq 1 .. made'
    BY <1>3, <2>3 DEF ToolBackup, Schedule, RetentionTypes
  <2>5. shielded' \in [Process -> SUBSET (1 .. made')] /\ carried' \in [Process -> SUBSET (1 .. made')]
    BY <1>3, <2>3 DEF ToolBackup, Schedule, RetentionTypes, passVars
  <2>6. backupOf' \in [Process -> 0 .. made'] /\ pins' \in [Process -> SUBSET (1 .. made')]
    BY <1>3, <2>3 DEF ToolBackup, Schedule, RetentionTypes, editVars
  <2>. QED BY <1>3, <2>2, <2>3, <2>4, <2>5, <2>6 DEF ToolBackup, Schedule, RetentionTypes, passVars, editVars
<1>4. ASSUME NEW p \in Process, LoopTop(p) PROVE RetentionTypes'
  <2>1. carried' \in [Process -> SUBSET (1 .. made)]
    BY <1>4, SMT DEF LoopTop, RetentionTypes
  <2>2. dirty' \in [Process -> BOOLEAN]
    <3>1. dirty' = dirty \/ dirty' = [dirty EXCEPT ![p] = FALSE]
      BY <1>4 DEF LoopTop
    <3>. QED BY <3>1 DEF RetentionTypes
  <2>3. cleaner' \in [Process -> {"none", "top", "wait", "clean"}]
    BY <1>4, SMT DEF LoopTop, RetentionTypes
  <2>4. UNCHANGED <<files, made, graceMark, ageMark, flock, shielded, editVars>>
    BY <1>4 DEF LoopTop
  <2>. QED BY <2>1, <2>2, <2>3, <2>4 DEF RetentionTypes, editVars
<1>5. ASSUME NEW p \in Process, LockRetention(p) PROVE RetentionTypes'
  BY <1>5 DEF LockRetention, RetentionTypes, passVars, editVars, Holding, Undecided
<1>6. ASSUME NEW p \in Process, CleanPass(p) PROVE RetentionTypes'
  <2>1. files' \subseteq files
    BY <1>6, CleanupKeeps DEF CleanPass
  <2>. QED BY <1>6, <2>1 DEF CleanPass, RetentionTypes, editVars
<1>7. ASSUME NEW p \in Process, ReserveBackup(p) PROVE RetentionTypes'
  <2>1. made' = made + 1 /\ graceMark' = graceMark /\ ageMark' = ageMark
    BY <1>7 DEF ReserveBackup, EditStep
  <2>2. graceMark' \in 0 .. made' /\ ageMark' \in 0 .. graceMark'
    BY <2>1, SMT DEF RetentionTypes
  <2>3. /\ made' \in Nat /\ made + 1 \in 1 .. made' /\ 1 .. made \subseteq 1 .. made' /\ 0 .. made \subseteq 0 .. made'
        /\ made + 1 \in 0 .. made'
    BY <2>1, MoreBackups
  <2>4. files' \subseteq 1 .. made'
    BY <1>7, <2>3 DEF ReserveBackup, EditStep, RetentionTypes
  <2>5. shielded' \in [Process -> SUBSET (1 .. made')] /\ carried' \in [Process -> SUBSET (1 .. made')]
    BY <1>7, <2>3 DEF ReserveBackup, EditStep, RetentionTypes, passVars
  <2>6. backupOf' \in [Process -> 0 .. made'] /\ pins' \in [Process -> SUBSET (1 .. made')]
    BY <1>7, <2>3 DEF ReserveBackup, EditStep, RetentionTypes, editVars
  <2>. QED BY <1>7, <2>2, <2>3, <2>4, <2>5, <2>6 DEF ReserveBackup, EditStep, RetentionTypes, passVars, editVars
<1>8. ASSUME NEW p \in Process, PinPaths(p) PROVE RetentionTypes'
  <2>1. editor[p] \in {"reserved", "pinned"} /\ backupOf[p] # 0
    BY <1>8 DEF PinPaths, EditStep, RetentionInv, RecordKept
  <2>2. backupOf[p] \in 1 .. made
    BY <2>1, SMT DEF RetentionTypes
  <2>. QED BY <1>8, <2>2 DEF PinPaths, EditStep, RetentionTypes, passVars, editVars, Holding
<1>9. ASSUME NEW p \in Process, SaveBackup(p) PROVE RetentionTypes'
  <2>1. editor[p] \in {"reserved", "pinned"} /\ backupOf[p] # 0
    BY <1>9 DEF SaveBackup, EditStep, RetentionInv, RecordKept
  <2>2. backupOf[p] \in 1 .. made
    BY <2>1, SMT DEF RetentionTypes
  <2>. QED BY <1>9, <2>2 DEF SaveBackup, EditStep, RetentionTypes, passVars, editVars, Holding
<1>10. ASSUME NEW p \in Process, CheckpointEdit(p) PROVE RetentionTypes'
  BY <1>10 DEF CheckpointEdit, EditStep, RetentionTypes, passVars, editVars, Holding, Undecided
<1>11. ASSUME NEW p \in Process, WriteTarget(p) PROVE RetentionTypes'
  BY <1>11 DEF WriteTarget, EditStep, RetentionTypes, passVars, editVars, Holding, Undecided
<1>12. ASSUME NEW p \in Process, RestoreTarget(p) PROVE RetentionTypes'
  <2>1. record' = record \/ (\E r \in {"finished", "uncertain"} : record' = [record EXCEPT ![p] = r])
    BY <1>12 DEF RestoreTarget, EditStep
  <2>2. record' \in [Process -> {"none", "running", "finished", "reconciled"} \cup Undecided]
    BY <2>1 DEF RetentionTypes, Undecided
  <2>. QED BY <1>12, <2>2 DEF RestoreTarget, EditStep, RetentionTypes, passVars, Holding
<1>13. ASSUME NEW p \in Process, AbandonEdit(p) PROVE RetentionTypes'
  <2>1. record' = record \/ (\E r \in {"finished", "uncertain"} : record' = [record EXCEPT ![p] = r])
    BY <1>13 DEF AbandonEdit
  <2>2. record' \in [Process -> {"none", "running", "finished", "reconciled"} \cup Undecided]
    BY <2>1 DEF RetentionTypes, Undecided
  <2>. QED BY <1>13, <2>2 DEF AbandonEdit, RetentionTypes, passVars, Holding
<1>14. ASSUME NEW p \in Process, UnpinPaths(p) PROVE RetentionTypes'
  BY <1>14 DEF UnpinPaths, RetentionTypes, passVars, editVars, Holding, Undecided
<1>15. ASSUME NEW p \in Process, FinishEdit(p) PROVE RetentionTypes'
  <2>1. record' = record \/ (\E r \in {"finished", "uncertain"} : record' = [record EXCEPT ![p] = r])
    BY <1>15 DEF FinishEdit, EditStep
  <2>2. record' \in [Process -> {"none", "running", "finished", "reconciled"} \cup Undecided]
    BY <2>1 DEF RetentionTypes, Undecided
  <2>. QED BY <1>15, <2>2 DEF FinishEdit, EditStep, RetentionTypes, passVars, Holding
<1>16. ASSUME NEW p \in Process, KillEditor(p) PROVE RetentionTypes'
  <2>1. kills' \in Nat
    BY <1>16, SMT DEF KillEditor, RetentionTypes
  <2>. QED BY <1>16, <2>1 DEF KillEditor, RetentionTypes
<1>17. ASSUME NEW p \in Process, ReconcileEdit(p) PROVE RetentionTypes'
  BY <1>17 DEF ReconcileEdit, RetentionTypes, passVars, editVars, Holding, Undecided
<1>. QED BY <1>1, <1>2, <1>3, <1>4, <1>5, <1>6, <1>7, <1>8, <1>9, <1>10, <1>11, <1>12, <1>13, <1>14, <1>15, <1>16, <1>17 DEF RetentionNext, CleanerStep, EditorStep

\* The lock file and the threads.
LEMMA LockStep == RetentionInv /\ [RetentionNext]_retentionVars => \A q \in Process : LockKept(q)'
<1> SUFFICES ASSUME RetentionInv, [RetentionNext]_retentionVars, NEW q \in Process PROVE LockKept(q)'
  OBVIOUS
<1>0. RetentionTypes /\ \A p \in Process : LockKept(p)
  BY DEF RetentionInv
<1> USE <1>0, RetentionAssumption
<1>1. CASE TimePasses \/ UNCHANGED retentionVars
  BY <1>1 DEF TimePasses, LockKept, passVars, editVars, retentionVars
<1>2. ASSUME NEW p \in Process, ToolBackup(p) PROVE LockKept(q)'
  BY <1>2 DEF ToolBackup, Schedule, LockKept, RetentionTypes, passVars, editVars, Holding
<1>3. ASSUME NEW p \in Process, LoopTop(p) PROVE LockKept(q)'
  BY <1>3 DEF LoopTop, LockKept, RetentionTypes, passVars, editVars, Holding
<1>4. ASSUME NEW p \in Process, LockRetention(p) PROVE LockKept(q)'
  BY <1>4 DEF LockRetention, LockKept, RetentionTypes, passVars, editVars, Holding
<1>5. ASSUME NEW p \in Process, CleanPass(p) PROVE LockKept(q)'
  BY <1>5 DEF CleanPass, LockKept, RetentionTypes, passVars, editVars, Holding
<1>6. ASSUME NEW p \in Process, ReserveBackup(p) PROVE LockKept(q)'
  BY <1>6 DEF ReserveBackup, EditStep, LockKept, RetentionTypes, passVars, editVars, Holding
<1>7. ASSUME NEW p \in Process, PinPaths(p) PROVE LockKept(q)'
  BY <1>7 DEF PinPaths, EditStep, LockKept, RetentionTypes, passVars, editVars, Holding
<1>8. ASSUME NEW p \in Process, SaveBackup(p) PROVE LockKept(q)'
  BY <1>8 DEF SaveBackup, EditStep, LockKept, RetentionTypes, passVars, editVars, Holding
<1>9. ASSUME NEW p \in Process, CheckpointEdit(p) PROVE LockKept(q)'
  BY <1>9 DEF CheckpointEdit, EditStep, LockKept, RetentionTypes, passVars, editVars, Holding
<1>10. ASSUME NEW p \in Process, WriteTarget(p) PROVE LockKept(q)'
  BY <1>10 DEF WriteTarget, EditStep, LockKept, RetentionTypes, passVars, editVars, Holding
<1>11. ASSUME NEW p \in Process, RestoreTarget(p) PROVE LockKept(q)'
  BY <1>11 DEF RestoreTarget, EditStep, LockKept, RetentionTypes, passVars, editVars, Holding
<1>12. ASSUME NEW p \in Process, AbandonEdit(p) PROVE LockKept(q)'
  BY <1>12 DEF AbandonEdit, LockKept, RetentionTypes, passVars, editVars, Holding
<1>13. ASSUME NEW p \in Process, UnpinPaths(p) PROVE LockKept(q)'
  BY <1>13 DEF UnpinPaths, LockKept, RetentionTypes, passVars, editVars, Holding
<1>14. ASSUME NEW p \in Process, FinishEdit(p) PROVE LockKept(q)'
  BY <1>14 DEF FinishEdit, EditStep, LockKept, RetentionTypes, passVars, editVars, Holding
<1>15. ASSUME NEW p \in Process, KillEditor(p) PROVE LockKept(q)'
  BY <1>15 DEF KillEditor, LockKept, RetentionTypes, passVars, editVars, Holding
<1>16. ASSUME NEW p \in Process, ReconcileEdit(p) PROVE LockKept(q)'
  BY <1>16 DEF ReconcileEdit, LockKept, RetentionTypes, passVars, editVars, Holding
<1>. QED BY <1>1, <1>2, <1>3, <1>4, <1>5, <1>6, <1>7, <1>8, <1>9, <1>10, <1>11, <1>12, <1>13, <1>14, <1>15, <1>16 DEF RetentionNext, CleanerStep, EditorStep

\* The records and what can be undone.
LEMMA RecordStep == RetentionInv /\ [RetentionNext]_retentionVars => \A q \in Process : RecordKept(q)'
<1> SUFFICES ASSUME RetentionInv, [RetentionNext]_retentionVars, NEW q \in Process PROVE RecordKept(q)'
  OBVIOUS
<1>0. RetentionTypes /\ \A p \in Process : LockKept(p) /\ RecordKept(p)
  BY DEF RetentionInv
<1> USE <1>0, RetentionAssumption
<1>1. CASE TimePasses \/ UNCHANGED retentionVars
  BY <1>1 DEF TimePasses, RecordKept, passVars, editVars, retentionVars
<1>2. ASSUME NEW p \in Process, ToolBackup(p) PROVE RecordKept(q)'
  <2>1. made + 1 # 0
    BY SMT DEF RetentionTypes
  <2>. QED BY <1>2, <2>1 DEF ToolBackup, Schedule, RecordKept, RetentionTypes, passVars, editVars, Undecided
<1>3. ASSUME NEW p \in Process, LoopTop(p) PROVE RecordKept(q)'
  BY <1>3 DEF LoopTop, RecordKept, RetentionTypes, passVars, editVars, Undecided
<1>4. ASSUME NEW p \in Process, LockRetention(p) PROVE RecordKept(q)'
  BY <1>4 DEF LockRetention, RecordKept, RetentionTypes, passVars, editVars, Undecided
<1>5. ASSUME NEW p \in Process, CleanPass(p) PROVE RecordKept(q)'
  <2>1. UNCHANGED editVars
    BY <1>5 DEF CleanPass
  <2>2. ASSUME record[q] \in Undecided \/ editor[q] = "saved" PROVE backupOf[q] \in files'
    <3>1. backupOf[q] \in files
      BY <2>2 DEF RecordKept
    <3>2. CASE files' = files
      BY <3>1, <3>2
    <3>3. CASE record[q] \in Undecided
      <4>1. backupOf[q] \in JournalProtected
        BY <3>3 DEF JournalProtected, Undecided
      <4>. QED BY <1>5, <4>1, <3>1, CleanupKeeps DEF CleanPass
    <3>4. CASE editor[q] = "saved"
      BY <1>5, <3>4 DEF CleanPass, LockKept, Holding
    <3>. QED BY <2>2, <3>3, <3>4
  <2>. QED BY <2>1, <2>2 DEF RecordKept, editVars
<1>6. ASSUME NEW p \in Process, ReserveBackup(p) PROVE RecordKept(q)'
  <2>1. made + 1 # 0
    BY SMT DEF RetentionTypes
  <2>. QED BY <1>6, <2>1 DEF ReserveBackup, EditStep, RecordKept, RetentionTypes, passVars, editVars, Undecided
<1>7. ASSUME NEW p \in Process, PinPaths(p) PROVE RecordKept(q)'
  BY <1>7 DEF PinPaths, EditStep, RecordKept, RetentionTypes, passVars, editVars, Undecided
<1>8. ASSUME NEW p \in Process, SaveBackup(p) PROVE RecordKept(q)'
  BY <1>8 DEF SaveBackup, EditStep, RecordKept, RetentionTypes, passVars, editVars, Undecided
<1>9. ASSUME NEW p \in Process, CheckpointEdit(p) PROVE RecordKept(q)'
  BY <1>9 DEF CheckpointEdit, EditStep, RecordKept, RetentionTypes, passVars, editVars, Undecided
<1>10. ASSUME NEW p \in Process, WriteTarget(p) PROVE RecordKept(q)'
  BY <1>10 DEF WriteTarget, EditStep, RecordKept, RetentionTypes, passVars, editVars, Undecided
<1>11. ASSUME NEW p \in Process, RestoreTarget(p) PROVE RecordKept(q)'
  BY <1>11 DEF RestoreTarget, EditStep, RecordKept, RetentionTypes, passVars, editVars, Undecided
<1>12. ASSUME NEW p \in Process, AbandonEdit(p) PROVE RecordKept(q)'
  BY <1>12 DEF AbandonEdit, RecordKept, RetentionTypes, passVars, editVars, Undecided
<1>13. ASSUME NEW p \in Process, UnpinPaths(p) PROVE RecordKept(q)'
  BY <1>13 DEF UnpinPaths, RecordKept, RetentionTypes, passVars, editVars, Undecided
<1>14. ASSUME NEW p \in Process, FinishEdit(p) PROVE RecordKept(q)'
  BY <1>14 DEF FinishEdit, EditStep, RecordKept, RetentionTypes, passVars, editVars, Undecided
<1>15. ASSUME NEW p \in Process, KillEditor(p) PROVE RecordKept(q)'
  BY <1>15 DEF KillEditor, RecordKept, RetentionTypes, passVars, editVars, Undecided
<1>16. ASSUME NEW p \in Process, ReconcileEdit(p) PROVE RecordKept(q)'
  BY <1>16 DEF ReconcileEdit, RecordKept, RetentionTypes, passVars, editVars, Undecided
<1>. QED BY <1>1, <1>2, <1>3, <1>4, <1>5, <1>6, <1>7, <1>8, <1>9, <1>10, <1>11, <1>12, <1>13, <1>14, <1>15, <1>16 DEF RetentionNext, CleanerStep, EditorStep

LEMMA RetentionBegins == RetentionInit => RetentionInv
<1> SUFFICES ASSUME RetentionInit PROVE RetentionInv
  OBVIOUS
<1>1. RetentionTypes
  <2>1. 0 \in Nat /\ 0 \in 0 .. 0
    OBVIOUS
  <2>. QED BY <2>1 DEF RetentionInit, RetentionTypes
<1>2. ASSUME NEW p \in Process PROVE LockKept(p) /\ RecordKept(p)
  BY DEF RetentionInit, LockKept, RecordKept, Holding, Undecided
<1>. QED BY <1>1, <1>2 DEF RetentionInv

LEMMA RetentionAlways == RetentionSpec => []RetentionInv
<1>1. RetentionInv /\ [RetentionNext]_retentionVars => RetentionInv'
  BY RetentionTypeStep, LockStep, RecordStep DEF RetentionInv
<1>. QED BY <1>1, RetentionBegins, PTL DEF RetentionSpec

(***************************************************************************)
(* Retention never takes the backup of an edit that may have to be undone, *)
(* whichever process cleans, whoever is killed and however old the backup  *)
(* is, and no wanted pass is forgotten (pin_paths,                         *)
(* protected_workspace_backups, BackupRetentionManager.schedule).          *)
(***************************************************************************)
THEOREM RetentionIsSound == RetentionSpec => []RetentionSound
<1>1. RetentionInv => RetentionSound
  <2> SUFFICES ASSUME RetentionInv PROVE RetentionSound
    OBVIOUS
  <2>1. RetentionTypes /\ \A p \in Process : LockKept(p) /\ RecordKept(p)
    BY DEF RetentionInv
  <2>2. ageMark <= graceMark /\ graceMark <= made
    BY <2>1, SMT DEF RetentionTypes
  <2>3. RetentionTypeOK
    BY <2>1, <2>2 DEF RetentionTypes, RetentionTypeOK, LockKept
  <2>4. EditRecoverable
    BY <2>1 DEF EditRecoverable, RecordKept, RetentionTypes, Undecided
  <2>5. ScheduleKept
    BY <2>1 DEF ScheduleKept, LockKept, RetentionTypes
  <2>. QED BY <2>3, <2>4, <2>5 DEF RetentionSound
<1>. QED BY <1>1, RetentionAlways, PTL

(***************************************************************************)
(* A cleanup leaves the newest backup and those within the grace period,   *)
(* and below the quota only aged backups go: never more than age and quota *)
(* ask for, whatever is protected and whatever cannot be deleted           *)
(* (cleanup_backups).                                                      *)
(***************************************************************************)
THEOREM CleansByPolicy == RetentionSpec => [][DeletesByPolicy]_retentionVars
<1>1. ASSUME RetentionTypes, NEW protected, NEW stuck, files' = CleanupBackups(protected, stuck)
      PROVE  DeletesByPolicy
  <2> DEFINE safe == protected \cup Newest \cup Recent
             kept == files \ {b \in files \ (safe \cup stuck) : b <= ageMark}
             n == Cardinality(kept) - MaxCount
             gone == OldestFirst(kept \ (safe \cup stuck), n)
  <2>1. files' = kept \ gone
    BY <1>1 DEF CleanupBackups
  <2>2. kept \subseteq files /\ kept \ (safe \cup stuck) \in SUBSET (1 .. made) /\ files \in SUBSET (1 .. made) /\ made \in Nat
    BY <1>1 DEF RetentionTypes
  <2>3. IsFiniteSet(files) /\ IsFiniteSet(kept) /\ Cardinality(files) \in Nat /\ Cardinality(kept) \in Nat
        /\ Cardinality(kept) <= Cardinality(files)
    <3> HIDE DEF kept
    <3>1. IsFiniteSet(1 .. made)
      BY <2>2, FS_Interval
    <3>2. IsFiniteSet(files)
      BY <2>2, <3>1, FS_Subset
    <3>. QED BY <2>2, <3>2, FS_Subset, FS_CardinalityType
  <2>4. n \in Int /\ MaxCount \in Nat
    <3> HIDE DEF kept
    <3>. QED BY <2>3, RetentionAssumption
  <2>5. gone \subseteq kept \ (safe \cup stuck)
    BY DEF OldestFirst
  <2>6. ASSUME NEW b \in gone PROVE n > 0
    <3>1. Cardinality({c \in kept \ (safe \cup stuck) : c < b}) < n
      BY DEF OldestFirst
    <3>2. Cardinality({c \in kept \ (safe \cup stuck) : c < b}) \in Nat
      <4>1. {c \in kept \ (safe \cup stuck) : c < b} \in SUBSET kept
        OBVIOUS
      <4> HIDE DEF kept, safe
      <4>. QED BY <4>1, <2>3, FS_Subset, FS_CardinalityType
    <3> HIDE DEF n
    <3>. QED BY <3>1, <3>2, <2>4
  <2>7. ASSUME NEW b \in gone PROVE Cardinality(files') >= MaxCount
    <3>1. n \in Nat
      <4> HIDE DEF n, gone
      <4>. QED BY <2>4, <2>6
    <3>2. IsFiniteSet(gone) /\ Cardinality(gone) <= n /\ Cardinality(gone) \in Nat
      <4> HIDE DEF n, kept, safe
      <4>1. IsFiniteSet(gone) /\ Cardinality(gone) <= n
        BY <3>1, <2>2, OldestBound
      <4> HIDE DEF gone
      <4>. QED BY <4>1, FS_CardinalityType
    <3>3. kept \cap gone = gone
      BY <2>5
    <3>4. Cardinality(kept \ gone) = Cardinality(kept) - Cardinality(gone)
      <4> HIDE DEF kept, gone
      <4>. QED BY <3>3, <2>3, FS_Difference
    <3>5. n = Cardinality(kept) - MaxCount
      OBVIOUS
    <3> HIDE DEF n, kept, gone
    <3>. QED BY <2>1, <2>3, <2>4, <3>2, <3>4, <3>5
  <2>8. ASSUME NEW b \in files \ files'
        PROVE  /\ b \notin Newest /\ b <= graceMark
               /\ b <= ageMark \/ Cardinality(files) > MaxCount
               /\ b <= ageMark \/ Cardinality(files') >= MaxCount
    <3>1. b \in gone \/ (b \in files \ (safe \cup stuck) /\ b <= ageMark)
      BY <2>1
    <3>2. b \in files /\ b \notin safe
      BY <3>1, <2>5, <2>2
    <3>3. b \notin Newest /\ ~(b > graceMark)
      BY <3>2 DEF Recent
    <3>4. b <= graceMark
      BY <3>2, <3>3, <1>1, SMT DEF RetentionTypes
    <3>5. ASSUME ~(b <= ageMark) PROVE Cardinality(files) > MaxCount /\ Cardinality(files') >= MaxCount
      <4>1. b \in gone
        BY <3>1, <3>5
      <4>2. n > 0 /\ Cardinality(files') >= MaxCount
        BY <4>1, <2>6, <2>7
      <4>3. Cardinality(kept) - MaxCount > 0
        BY <4>2
      <4> HIDE DEF n, kept
      <4>4. Cardinality(files) > MaxCount
        BY <4>3, <2>3, <2>4
      <4>. QED BY <4>2, <4>4
    <3>. QED BY <3>3, <3>4, <3>5
  <2>. QED BY <2>8 DEF DeletesByPolicy
<1>2. RetentionInv /\ [RetentionNext]_retentionVars => DeletesByPolicy
  <2> SUFFICES ASSUME RetentionInv, [RetentionNext]_retentionVars PROVE DeletesByPolicy
    OBVIOUS
  <2>1. CASE files \subseteq files'
    BY <2>1 DEF DeletesByPolicy
  <2>2. CASE ~(files \subseteq files')
    <3>1. PICK p \in Process : CleanPass(p)
      BY <2>2 DEF RetentionNext, retentionVars, TimePasses, ToolBackup, CleanerStep, EditorStep, LoopTop, LockRetention,
         ReserveBackup, PinPaths, SaveBackup, CheckpointEdit, WriteTarget, RestoreTarget, AbandonEdit, UnpinPaths,
         FinishEdit, KillEditor, ReconcileEdit
    <3>2. PICK stuck \in SUBSET files : files' = CleanupBackups(carried[p] \cup pins[p] \cup JournalProtected, stuck)
      BY <3>1, <2>2 DEF CleanPass
    <3>. QED BY <3>2, <1>1 DEF RetentionInv
  <2>. QED BY <2>1, <2>2
<1>. QED BY <1>2, RetentionAlways, PTL DEF RetentionSpec
=============================================================================
