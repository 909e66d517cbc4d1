-------------------------- MODULE HistoryRetention --------------------------
(***************************************************************************)
(* Retention of finished jobs (rows and output directories) and finished   *)
(* workflows: a pass chooses from what it read and deletes in a later      *)
(* transaction, while jobs and workflows go on and the process may die.    *)
(* core/job_retention.py, core/workflow_retention.py.                      *)
(***************************************************************************)
EXTENDS Integers, Sequences, SequencesExt, FiniteSets

CONSTANTS OldJob,        \* job identifiers
          Flow,          \* workflow identifiers
          HistoryClock,  \* bound on time
          JobAge, JobCount, JobBytes,
          FlowAge, FlowCount,
          OrphanGrace    \* orphan_grace_sec

VARIABLES now,
          rows,      \* jobs table: job -> "none", "active" or "terminal", and when updated
          dirs,      \* output directories: job -> when modified; bytes are 1 each
          flows,     \* workflows table with its evidence and leases
          jobPass,   \* cleanup_job_history
          flowPass,  \* cleanup_workflow_history
          asked      \* the managers: _dirty and _running of each

historyVars == <<now, rows, dirs, flows, jobPass, flowPass, asked>>

NoRow == [status |-> "none", updated |-> 0]
NoFlow == [state |-> "none", updated |-> 0, unsettled |-> FALSE, leased |-> FALSE]
Idle == [at |-> "off", now |-> 0, chosen |-> <<>>]

HistoryInit ==
    /\ now = 0
    /\ rows = [j \in OldJob |-> NoRow] /\ dirs = [j \in {} |-> 0]
    /\ flows = [w \in Flow |-> NoFlow]
    /\ jobPass = Idle /\ flowPass = Idle
    /\ asked = [m \in {"jobs", "flows"} |-> [dirty |-> FALSE, running |-> FALSE]]

TimePasses ==
    /\ now < HistoryClock /\ now' = now + 1
    /\ UNCHANGED <<rows, dirs, flows, jobPass, flowPass, asked>>

-----------------------------------------------------------------------------
(* What goes on meanwhile.                                                 *)

\* submit inserts the row of a new identifier first; the directory follows.
SubmitRow(j) ==
    /\ rows[j].status = "none" /\ j \notin DOMAIN dirs
    /\ \A e \in ToSet(jobPass.chosen) : e.id # j
    /\ rows' = [rows EXCEPT ![j] = [status |-> "active", updated |-> now]]
    /\ UNCHANGED <<now, dirs, flows, jobPass, flowPass, asked>>

MakeDirectory(j) ==
    /\ rows[j].status = "active" /\ j \notin DOMAIN dirs
    /\ dirs' = [d \in DOMAIN dirs \cup {j} |-> IF d = j THEN now ELSE dirs[d]]
    /\ UNCHANGED <<now, rows, flows, jobPass, flowPass, asked>>

JobEnds(j) ==
    /\ rows[j].status = "active"
    /\ rows' = [rows EXCEPT ![j] = [status |-> "terminal", updated |-> now]]
    /\ UNCHANGED <<now, dirs, flows, jobPass, flowPass, asked>>

\* A workflow ends with or without evidence to settle; evidence and leases
\* of a finished workflow come and go with recovery and resumption.
FlowStep(w) ==
    /\ \/ flows[w].state = "none" /\ flows' = [flows EXCEPT ![w] = [NoFlow EXCEPT !.state = "running", !.updated = now]]
       \/ /\ flows[w].state = "running"
          /\ \E u \in BOOLEAN :
                flows' = [flows EXCEPT ![w] = [state |-> "completed", updated |-> now, unsettled |-> u, leased |-> FALSE]]
       \/ flows[w].state = "completed" /\ flows' = [flows EXCEPT ![w].unsettled = ~@]
       \/ flows[w].state = "completed" /\ flows' = [flows EXCEPT ![w].leased = ~@]
    /\ UNCHANGED <<now, rows, dirs, jobPass, flowPass, asked>>

-----------------------------------------------------------------------------
(* The managers: requests are coalesced onto one thread each.              *)

AskFor(m) ==
    /\ asked' = [asked EXCEPT ![m] = [dirty |-> TRUE, running |-> TRUE]]
    /\ UNCHANGED <<now, rows, dirs, flows, jobPass, flowPass>>

ManagerTop(m) ==
    /\ asked[m].running
    /\ IF m = "jobs" THEN jobPass.at = "off" ELSE flowPass.at = "off"
    /\ IF asked[m].dirty
         THEN /\ asked' = [asked EXCEPT ![m].dirty = FALSE]
              /\ IF m = "jobs" THEN jobPass' = [Idle EXCEPT !.at = "read"] /\ UNCHANGED flowPass
                               ELSE flowPass' = [Idle EXCEPT !.at = "read"] /\ UNCHANGED jobPass
         ELSE asked' = [asked EXCEPT ![m].running = FALSE] /\ UNCHANGED <<jobPass, flowPass>>
    /\ UNCHANGED <<now, rows, dirs, flows>>

-----------------------------------------------------------------------------
(* cleanup_job_history.                                                    *)

Ordered(s, T(_)) == \A i \in 1..(Len(s) - 1) : T(s[i]) <= T(s[i + 1])

\* _select_removals over the terminal rows, oldest first: by age, then by
\* count, then by output bytes; the newest row stays.
FirstOf(s, n) == SubSeq(s, 1, IF n < 0 THEN 0 ELSE IF n < Len(s) THEN n ELSE Len(s))
OutputBytes(js) == Cardinality(ToSet(js) \cap DOMAIN dirs)

WithinBytes(js) == OutputBytes(js) <= JobBytes

SelectRemovals(order) ==
    LET aged == SelectSeq(Front(order), LAMBDA j : rows[j].updated < now - JobAge)
        young == SelectSeq(order, LAMBDA j : j \notin ToSet(aged))
        counted == FirstOf(Front(young), Len(young) - JobCount)
        left == SubSeq(young, Len(counted) + 1, Len(young))
        Fits(k) == WithinBytes(SubSeq(left, k + 1, Len(left)))
        quota == CHOOSE k \in 0..(Len(left) - 1) :
                    (Fits(k) \/ k = Len(left) - 1) /\ \A m \in 0..(k - 1) : ~Fits(m)
    IN  aged \o counted \o SubSeq(left, 1, quota)

ReadTerminalRows ==
    LET terminal == {j \in OldJob : rows[j].status = "terminal"} IN
    /\ jobPass.at = "read"
    /\ IF terminal = {}
         THEN jobPass' = [jobPass EXCEPT !.at = "orphans", !.now = now]
         ELSE \E order \in SetToSeqs(terminal) :
                /\ Ordered(order, LAMBDA j : rows[j].updated)
                /\ jobPass' = [at |-> "delete", now |-> now, chosen |->
                                [i \in 1..Len(SelectRemovals(order)) |->
                                   LET j == SelectRemovals(order)[i] IN [id |-> j, updated |-> rows[j].updated]]]
    /\ UNCHANGED <<now, rows, dirs, flows, flowPass, asked>>

StillThatRow(e) == rows[e.id].status = "terminal" /\ rows[e.id].updated <= e.updated

DeleteBatch ==
    LET gone == {e \in ToSet(jobPass.chosen) : StillThatRow(e)} IN
    /\ jobPass.at = "delete"
    /\ \/ /\ rows' = [j \in OldJob |-> IF \E e \in gone : e.id = j THEN NoRow ELSE rows[j]]
          /\ jobPass' = [jobPass EXCEPT !.at = "output", !.chosen = SetToSeq(gone)]
       \/ \* the transaction fails and is rolled back
          jobPass' = [jobPass EXCEPT !.at = "orphans", !.chosen = <<>>] /\ UNCHANGED rows
    /\ UNCHANGED <<now, dirs, flows, flowPass, asked>>

RemoveDir(j) == dirs' = [d \in DOMAIN dirs \ {j} |-> dirs[d]]

\* rmtree of each deleted row's directory: done, or left to a later pass.
RemoveOutput ==
    /\ jobPass.at = "output"
    /\ IF jobPass.chosen = <<>>
         THEN jobPass' = [jobPass EXCEPT !.at = "orphans"] /\ UNCHANGED dirs
         ELSE /\ RemoveDir(Head(jobPass.chosen).id) \/ UNCHANGED dirs
              /\ jobPass' = [jobPass EXCEPT !.chosen = Tail(@)]
    /\ UNCHANGED <<now, rows, flows, flowPass, asked>>

Orphan(j) == dirs[j] <= jobPass.now - OrphanGrace /\ rows[j].status = "none"

\* Any orphan may fail to be removed; the sweep goes on to the next.
SweepOrphans ==
    /\ jobPass.at = "orphans"
    /\ \/ \E j \in DOMAIN dirs : Orphan(j) /\ RemoveDir(j) /\ UNCHANGED jobPass
       \/ jobPass' = Idle /\ UNCHANGED dirs
    /\ UNCHANGED <<now, rows, flows, flowPass, asked>>

-----------------------------------------------------------------------------
(* cleanup_workflow_history.                                               *)

\* The condition of the SELECT and, again, of the DELETE.
Eligible(w) == flows[w].state = "completed" /\ ~flows[w].unsettled /\ ~flows[w].leased

ReadEligible ==
    /\ flowPass.at = "read"
    /\ \E order \in SetToSeqs({w \in Flow : Eligible(w)}) :
          /\ Ordered(order, LAMBDA w : flows[w].updated)
          /\ LET aged == SelectSeq(order, LAMBDA w : flows[w].updated < now - FlowAge)
                 young == SelectSeq(order, LAMBDA w : w \notin ToSet(aged))
                 chosen == aged \o FirstOf(young, Len(young) - FlowCount)
             IN  flowPass' = IF chosen = <<>> THEN Idle ELSE [at |-> "delete", now |-> now, chosen |-> chosen]
    /\ UNCHANGED <<now, rows, dirs, flows, jobPass, asked>>

Deletable(w) == Eligible(w)

DeleteFlows ==
    /\ flowPass.at = "delete" /\ flowPass' = Idle
    /\ \/ flows' = [w \in Flow |-> IF w \in ToSet(flowPass.chosen) /\ Deletable(w) THEN NoFlow ELSE flows[w]]
       \/ UNCHANGED flows \* rolled back
    /\ UNCHANGED <<now, rows, dirs, jobPass, asked>>

\* The process dies and another starts: passes and requests are gone.
Die ==
    /\ jobPass' = Idle /\ flowPass' = Idle
    /\ asked' = [m \in {"jobs", "flows"} |-> [dirty |-> FALSE, running |-> FALSE]]
    /\ UNCHANGED <<now, rows, dirs, flows>>

JobHistoryNext ==
    \/ TimePasses \/ Die
    \/ \E j \in OldJob : SubmitRow(j) \/ MakeDirectory(j) \/ JobEnds(j)
    \/ AskFor("jobs") \/ ManagerTop("jobs")
    \/ ReadTerminalRows \/ DeleteBatch \/ RemoveOutput \/ SweepOrphans

FlowHistoryNext ==
    \/ TimePasses \/ Die
    \/ \E w \in Flow : FlowStep(w)
    \/ AskFor("flows") \/ ManagerTop("flows")
    \/ ReadEligible \/ DeleteFlows

-----------------------------------------------------------------------------
HistoryTypeOK ==
    /\ now \in 0..HistoryClock /\ DOMAIN dirs \subseteq OldJob
    /\ \A j \in OldJob : rows[j].status \in {"none", "active", "terminal"} /\ rows[j].updated <= now
    /\ \A w \in Flow : flows[w].state \in {"none", "running", "completed"} /\ flows[w].updated <= now
    /\ \A m \in {"jobs", "flows"} : asked[m].dirty => asked[m].running
    /\ (jobPass.at # "off" => asked["jobs"].running) /\ (flowPass.at # "off" => asked["flows"].running)

\* The output of a job whose row exists is never removed, by the removal of
\* chosen rows or as an orphan, and a row is never taken from a job that has
\* not ended, whatever changed between the choice and the deletion.
LiveHistoryKept ==
    \A j \in OldJob :
      /\ rows[j].status = "active" => rows'[j].status # "none"
      /\ j \in DOMAIN dirs \ DOMAIN dirs' => rows[j].status = "none"

\* "terminal durable workflow history": a workflow with unsettled evidence,
\* a live lease or work to do is never deleted, even when it was chosen
\* before that evidence or lease appeared.
EvidenceOutlives ==
    \A w \in Flow :
      (flows[w].state # "none" /\ flows'[w].state = "none")
      => flows[w].state = "completed" /\ ~flows[w].unsettled /\ ~flows[w].leased

\* A job pass chooses the oldest finished jobs, never the newest, as many as
\* the limits on age, count and bytes ask for and not one more.
ChoosesByPolicy ==
    (jobPass.at = "read" /\ jobPass'.at = "delete") =>
      LET terminal == {j \in OldJob : rows[j].status = "terminal"}
          chosen == {e.id : e \in ToSet(jobPass'.chosen)}
          kept == terminal \ chosen
          Newest(j) == \A k \in terminal : rows[k].updated <= rows[j].updated
          Within(js) ==
             \/ Cardinality(js) = 1
             \/ /\ \E n \in js : Newest(n) /\ \A j \in js \ {n} : rows[j].updated >= now - JobAge
                /\ Cardinality(js) <= JobCount
                /\ Cardinality(js \cap DOMAIN dirs) <= JobBytes
      IN  /\ kept # {} /\ Within(kept)
          /\ \A c \in chosen, k \in kept : rows[c].updated <= rows[k].updated
          /\ chosen # {} => ~Within(kept \cup {Last(jobPass'.chosen).id})

=============================================================================
