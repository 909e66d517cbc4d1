-------------------------- MODULE LanguageSessions ---------------------------
(***************************************************************************)
(* The language sessions of one workspace (tools/language/sessions.py):    *)
(* callers on the event loop, one owner thread per session that launches   *)
(* the server and serves the queue, closers that drain sessions, and the   *)
(* admission limits.  A step is one critical section of the manager lock,  *)
(* or a stretch of an owner's code that touches no shared state but the    *)
(* one event, queue or attribute it names.                                 *)
(*                                                                         *)
(* A session <<k, n>> is the n-th incarnation for the session key k.  The  *)
(* keys of this module differ in their provider only, so that a request    *)
(* for one retires the sessions of the others.                             *)
(***************************************************************************)
EXTENDS Integers, FiniteSets, Sequences

CONSTANTS
    Key,            \* session keys of one workspace root and language
    Ticket,         \* requests
    Incarnations,   \* bound on the sessions of one key
    StartLimit,     \* starts of one key in a minute (2 in _admit_start)
    QueueMax,       \* capacity of a session's queue (8)
    RequestMax,     \* requests in preparation and in queues (32)
    NoTicket

Session == Key \X (1 .. Incarnations)
Drainer == Ticket \cup {"closer"}

VARIABLES
    closed,         \* _closed
    closingRoot,    \* the workspace is in _closing_roots
    table,          \* _sessions: key -> incarnation, 0 when none
    born,           \* key -> incarnations so far
    starts,         \* _starts: key -> starts in the last minute
    sstate,         \* session -> state
    sstop,          \* session -> stop event is set
    owner,          \* session -> where the owner thread is
    squeue,         \* session -> queued tickets
    taken,          \* session -> ticket the owner has in hand
    current,        \* session -> session.current, which others read
    server,         \* session -> its server process: "none", "alive", "dead"
    caller,         \* ticket -> where its caller is
    key,            \* ticket -> session key, by the provider found in its preparation, while it is used
    preparing,      \* tickets counted in _preparing_count
    cancelled,      \* tickets whose cancelled event is set
    answer,         \* ticket -> its future
    dropped,        \* history: tickets waited for and lost between queue.get and session.current
    drainer,        \* closer or retiring caller -> where it is
    draining        \* closer or retiring caller -> the sessions it drains

lockVars == <<closed, closingRoot, table, born, starts>>
sessionVars == <<sstate, sstop, owner, squeue, taken, current, server>>
callerVars == <<caller, key, preparing, cancelled, answer, dropped>>
drainVars == <<drainer, draining>>
sessionsVars == <<lockVars, sessionVars, callerVars, drainVars>>

InTable(s) == table[s[1]] = s[2]
Queued == UNION {{squeue[s][i] : i \in DOMAIN squeue[s]} : s \in Session}
RequestCount == Cardinality(preparing) + Cardinality(Queued)

SessionsInit ==
    /\ closed = FALSE /\ closingRoot = FALSE
    /\ table = [k \in Key |-> 0] /\ born = [k \in Key |-> 0] /\ starts = [k \in Key |-> 0]
    /\ sstate = [s \in Session |-> "STARTING"] /\ sstop = [s \in Session |-> FALSE]
    /\ owner = [s \in Session |-> "none"] /\ squeue = [s \in Session |-> << >>]
    /\ taken = [s \in Session |-> NoTicket] /\ current = [s \in Session |-> NoTicket]
    /\ server = [s \in Session |-> "none"]
    /\ caller = [t \in Ticket |-> "idle"] /\ key = [t \in Ticket |-> "none"]
    /\ preparing = {} /\ cancelled = {}
    /\ answer = [t \in Ticket |-> "none"] /\ dropped = {}
    /\ drainer = [d \in Drainer |-> "idle"] /\ draining = [d \in Drainer |-> {}]

\* _finish on every ticket of the set: the first answer stays.
Finish(ts, how) == answer' = [t \in Ticket |-> IF t \in ts /\ answer[t] = "none" THEN how ELSE answer[t]]

TicketsOf(ss) == UNION {{squeue[s][i] : i \in DOMAIN squeue[s]} : s \in ss}

\* stop.set(), current.cancelled.set() and _fail_queued for the sessions of ss.
StopSessions(ss) ==
    /\ sstop' = [s \in Session |-> sstop[s] \/ s \in ss]
    /\ cancelled' = cancelled \cup ({current[s] : s \in ss} \ {NoTicket})
    /\ squeue' = [s \in Session |-> IF s \in ss THEN << >> ELSE squeue[s]]
    /\ Finish(TicketsOf(ss), "error")
-----------------------------------------------------------------------------
(***************************************************************************)
(* The caller: arequest_with_evidence                                      *)
(***************************************************************************)

\* The first admission: refused when closed or full, else preparation starts.
BeginRequest(t) ==
    /\ caller[t] = "idle"
    /\ IF closed \/ RequestCount >= RequestMax
       THEN caller' = [caller EXCEPT ![t] = "over"] /\ preparing' = preparing
       ELSE caller' = [caller EXCEPT ![t] = "preparing"] /\ preparing' = preparing \cup {t}
    /\ UNCHANGED <<lockVars, sessionVars, key, cancelled, answer, dropped, drainVars>>

\* prepare() ends: its finally clause gives the slot back, also when the
\* caller has given up meanwhile (the preparation is shielded).
EndPreparation(t) ==
    /\ t \in preparing
    /\ preparing' = preparing \ {t}
    /\ caller' = [caller EXCEPT ![t] = IF @ = "preparing" THEN "retire" ELSE @]
    /\ IF caller[t] = "preparing" THEN \E k \in Key : key' = [key EXCEPT ![t] = k] ELSE key' = key
    /\ UNCHANGED <<lockVars, sessionVars, cancelled, answer, dropped, drainVars>>

\* The deadline passes, or the caller is cancelled, before there is a ticket.
GiveUpEarly(t) ==
    /\ caller[t] \in {"preparing", "retire", "admit"}
    /\ caller' = [caller EXCEPT ![t] = "over"]
    /\ key' = [key EXCEPT ![t] = "none"]
    /\ UNCHANGED <<lockVars, sessionVars, preparing, cancelled, answer, dropped, drainVars>>

\* The first critical section of _retire_obsolete: sessions of this workspace
\* under another key are stopped; one that is stopping already is an error.
RetireObsolete(t) ==
    LET obsolete == {s \in Session : /\ InTable(s) /\ s[1] # key[t] /\ sstate[s] # "CLOSED"}
    IN  /\ caller[t] = "retire"
        /\ IF \E s \in obsolete : sstop[s]
           THEN /\ caller' = [caller EXCEPT ![t] = "over"]
                /\ key' = [key EXCEPT ![t] = "none"]
                /\ UNCHANGED <<sstop, cancelled, squeue, answer, drainVars>>
           ELSE IF obsolete = {}
           THEN /\ caller' = [caller EXCEPT ![t] = "admit"]
                /\ UNCHANGED <<key, sstop, cancelled, squeue, answer, drainVars>>
           ELSE /\ StopSessions(obsolete)
                /\ caller' = [caller EXCEPT ![t] = "draining"]
                /\ key' = key
                /\ drainer' = [drainer EXCEPT ![t] = "stop"]
                /\ draining' = [draining EXCEPT ![t] = obsolete]
        /\ UNCHANGED <<lockVars, sstate, owner, taken, current, server, preparing, dropped>>

\* ... and its last one, after _drain_sessions: all must be closed.
Retired(t) ==
    /\ caller[t] = "draining" /\ drainer[t] = "done"
    /\ caller' = [caller EXCEPT ![t] = IF \A s \in draining[t] : sstate[s] = "CLOSED"
                                       THEN "admit" ELSE "over"]
    /\ key' = IF caller'[t] = "over" THEN [key EXCEPT ![t] = "none"] ELSE key
    /\ drainer' = [drainer EXCEPT ![t] = "idle"]
    /\ draining' = [draining EXCEPT ![t] = {}]
    /\ UNCHANGED <<lockVars, sessionVars, preparing, cancelled, answer, dropped>>

\* A session that may take one more request.
Usable(s) == ~ sstop[s] /\ sstate[s] \in {"STARTING", "READY"}

\* The second check of the limit, for the request that leaves preparation.
Full == RequestCount >= RequestMax

Closing == closed \/ closingRoot

\* _admit_start
StartRefused(k) == starts[k] >= StartLimit

(***************************************************************************)
(* The second admission, in one critical section: closed sessions leave    *)
(* the table, the request joins the session of its key or, when there is   *)
(* none and _admit_start allows it, a new one whose owner is started next. *)
(***************************************************************************)
Admit(t) ==
    LET k == key[t]
        kept == [x \in Key |-> IF table[x] > 0 /\ sstate[<<x, table[x]>>] = "CLOSED"
                               THEN 0 ELSE table[x]]
        s == <<k, kept[k]>>
        new == <<k, born[k] + 1>>
        refusedEarly == Closing
        refused == \/ kept[k] > 0 /\ (~ Usable(s) \/ Len(squeue[s]) >= QueueMax)
                   \/ Full
                   \/ kept[k] = 0 /\ StartRefused(k)
    IN  /\ caller[t] = "admit"
        /\ kept[k] = 0 => born[k] < Incarnations
        /\ table' = IF refusedEarly THEN table
                    ELSE IF refused \/ kept[k] > 0 THEN kept
                    ELSE [kept EXCEPT ![k] = born[k] + 1]
        /\ \/ /\ refusedEarly \/ refused
              /\ caller' = [caller EXCEPT ![t] = "over"]
              /\ UNCHANGED <<born, starts, squeue, owner>>
           \/ /\ ~ refusedEarly /\ ~ refused
              /\ caller' = [caller EXCEPT ![t] = "waiting"]
              /\ IF kept[k] > 0
                 THEN /\ squeue' = [squeue EXCEPT ![s] = Append(@, t)]
                      /\ UNCHANGED <<born, starts, owner>>
                 ELSE /\ squeue' = [squeue EXCEPT ![new] = <<t>>]
                      /\ born' = [born EXCEPT ![k] = @ + 1]
                      /\ starts' = [starts EXCEPT ![k] = @ + 1]
                      /\ owner' = [owner EXCEPT ![new] = "unstarted"]
        /\ key' = [key EXCEPT ![t] = "none"]
        /\ UNCHANGED <<closed, closingRoot, sstate, sstop, taken, current, server, preparing,
                       cancelled, answer, dropped, drainVars>>

\* launch.start(): the thread runs, or it cannot be started.
Launch(s) ==
    /\ owner[s] = "unstarted"
    /\ \/ /\ owner' = [owner EXCEPT ![s] = "launching"]
          /\ UNCHANGED <<sstate, squeue, answer>>
       \/ /\ owner' = [owner EXCEPT ![s] = "gone"]
          /\ sstate' = [sstate EXCEPT ![s] = "CLOSED"]
          /\ squeue' = [squeue EXCEPT ![s] = << >>]
          /\ Finish(TicketsOf({s}), "error")
    /\ UNCHANGED <<lockVars, sstop, taken, current, server, caller, key, preparing, cancelled, dropped, drainVars>>

\* The caller sees its future, or stops waiting and cancels the ticket; either
\* way nobody looks at the future again.
Return(t) ==
    /\ caller[t] = "waiting"
    /\ caller' = [caller EXCEPT ![t] = "over"]
    /\ cancelled' = IF answer[t] = "none" THEN cancelled \cup {t} ELSE cancelled
    /\ answer' = [answer EXCEPT ![t] = "read"] /\ dropped' = dropped \ {t}
    /\ UNCHANGED <<lockVars, sessionVars, key, preparing, drainVars>>

\* A minute passes: the starts it covered no longer count.
MinutePasses(k) ==
    /\ starts[k] > 0
    /\ starts' = [starts EXCEPT ![k] = 0]
    /\ UNCHANGED <<closed, closingRoot, table, born, sessionVars, callerVars, drainVars>>

CallerStep(t) ==
    \/ BeginRequest(t) \/ EndPreparation(t) \/ GiveUpEarly(t) \/ RetireObsolete(t) \/ Retired(t)
    \/ Admit(t) \/ Return(t)
-----------------------------------------------------------------------------
(***************************************************************************)
(* The owner thread: _own                                                  *)
(***************************************************************************)
OwnerAt(s, from, to) == owner[s] = from /\ owner' = [owner EXCEPT ![s] = to]

\* The first test of the stop event and of the startup deadline.
CheckStart(s) ==
    /\ \/ ~ sstop[s] /\ OwnerAt(s, "launching", "opening")
       \/ OwnerAt(s, "launching", "finally")
    /\ UNCHANGED <<lockVars, sstate, sstop, squeue, taken, current, server, callerVars, drainVars>>

\* open_transport: the server runs, or the launch fails.
OpenTransport(s) ==
    /\ \/ OwnerAt(s, "opening", "initializing") /\ server' = [server EXCEPT ![s] = "alive"]
       \/ OwnerAt(s, "opening", "failing") /\ server' = server
    /\ UNCHANGED <<lockVars, sstate, sstop, squeue, taken, current, callerVars, drainVars>>

\* The initialize exchange ends: READY in the critical section that tests
\* the stop event, an early return, or an exception.
Initialize(s) ==
    /\ \/ /\ ~ sstop[s] /\ OwnerAt(s, "initializing", "idle")
          /\ sstate' = [sstate EXCEPT ![s] = "READY"]
       \/ OwnerAt(s, "initializing", "finally") /\ sstate' = sstate
       \/ OwnerAt(s, "initializing", "failing") /\ sstate' = sstate
    /\ UNCHANGED <<lockVars, sstop, squeue, taken, current, server, callerVars, drainVars>>

\* queue.get(): the ticket is out of the queue and not yet in session.current.
TakeTicket(s) ==
    /\ ~ sstop[s] /\ squeue[s] # << >>
    /\ OwnerAt(s, "idle", "took")
    /\ taken' = [taken EXCEPT ![s] = Head(squeue[s])]
    /\ squeue' = [squeue EXCEPT ![s] = Tail(@)]
    /\ UNCHANGED <<lockVars, sstate, sstop, current, server, callerVars, drainVars>>

\* The loop ends: stop, the idle limit, or the wire limit.
LeaveLoop(s) ==
    /\ OwnerAt(s, "idle", "shutdown")
    /\ sstate' = [sstate EXCEPT ![s] = "DRAINING"]
    /\ UNCHANGED <<lockVars, sstop, squeue, taken, current, server, callerVars, drainVars>>

\* session.current = ticket
Publish(s) ==
    /\ OwnerAt(s, "took", "preparing")
    /\ current' = [current EXCEPT ![s] = taken[s]]
    /\ UNCHANGED <<lockVars, sstate, sstop, squeue, taken, server, callerVars, drainVars>>

\* The request ends here with the given answer and the owner goes on to "to".
EndRequest(s, from, to, how) ==
    /\ OwnerAt(s, from, to)
    /\ Finish({taken[s]}, how)
    /\ taken' = [taken EXCEPT ![s] = NoTicket]
    /\ current' = [current EXCEPT ![s] = NoTicket]
    /\ cancelled' = cancelled \ {taken[s]}
    /\ UNCHANGED <<lockVars, sstate, sstop, squeue, server, caller, key, preparing, dropped, drainVars>>

\* A ticket that is cancelled or too late, a document error, or a stop seen
\* after the documents are in step; otherwise the phase is may_dispatch.
CheckTicket(s) ==
    \/ EndRequest(s, "preparing", "idle", "error")
    \/ /\ taken[s] \notin cancelled /\ ~ sstop[s]
       /\ OwnerAt(s, "preparing", "dispatched")
       /\ UNCHANGED <<lockVars, sstate, sstop, squeue, taken, current, server, callerVars, drainVars>>

\* The response arrives in time and its documents are verified, or not.
Respond(s) ==
    \/ taken[s] \notin cancelled /\ EndRequest(s, "dispatched", "idle", "result")
    \/ EndRequest(s, "dispatched", "idle", "error")

\* Anything raised between launch and shutdown (the server dies, a limit is
\* exceeded, the request is cancelled or times out) leaves for the handler.
\* A ticket just taken, with a closed document to report first, is in no
\* place where the handler finds it.
Raise(s) ==
    /\ \E from \in {"idle", "took", "preparing", "dispatched"} :
         /\ OwnerAt(s, from, "failing")
         /\ dropped' = IF from = "took" /\ caller[taken[s]] = "waiting" THEN dropped \cup {taken[s]} ELSE dropped
    /\ UNCHANGED <<lockVars, sstate, sstop, squeue, taken, current, server, caller, key, preparing,
                   cancelled, answer, drainVars>>

\* shutdown and exit were exchanged, or that failed.
Shutdown(s) ==
    /\ OwnerAt(s, "shutdown", "finally") \/ OwnerAt(s, "shutdown", "failing")
    /\ UNCHANGED <<lockVars, sstate, sstop, squeue, taken, current, server, callerVars, drainVars>>

\* except Exception: FAILED, the current ticket fails, the tree is terminated.
HandleFailure(s) ==
    /\ OwnerAt(s, "failing", "finally")
    /\ sstate' = [sstate EXCEPT ![s] = "FAILED"]
    /\ Finish({current[s]} \ {NoTicket}, "error")
    /\ server' = [server EXCEPT ![s] = IF @ = "alive" THEN "dead" ELSE @]
                   \/ server' = server
    /\ UNCHANGED <<lockVars, sstop, squeue, taken, current, caller, key, preparing, cancelled, dropped, drainVars>>

\* finally: no request is accepted from here on.
StopAtEnd(s) ==
    /\ OwnerAt(s, "finally", "closing")
    /\ sstop' = [sstop EXCEPT ![s] = TRUE]
    /\ squeue' = [squeue EXCEPT ![s] = << >>]
    /\ Finish(TicketsOf({s}), "error")
    /\ UNCHANGED <<lockVars, sstate, taken, current, server, caller, key, preparing, cancelled, dropped, drainVars>>

\* Mutant: the session counts as closed whatever the transport said.
CloseUnproven(s) ==
    /\ OwnerAt(s, "closing", "gone")
    /\ server' = [server EXCEPT ![s] = IF @ = "alive" THEN "dead" ELSE @] \/ server' = server
    /\ sstate' = [sstate EXCEPT ![s] = "CLOSED"]
    /\ taken' = [taken EXCEPT ![s] = NoTicket]
    /\ current' = [current EXCEPT ![s] = NoTicket]
    /\ UNCHANGED <<lockVars, sstop, squeue, callerVars, drainVars>>

\* close_transport proves the death of the server, or the session is quarantined.
CloseSession(s) ==
    /\ OwnerAt(s, "closing", "gone")
    /\ \/ /\ server' = [server EXCEPT ![s] = "none"]
          /\ sstate' = [sstate EXCEPT ![s] = "CLOSED"]
       \/ /\ server[s] # "none"
          /\ server' = server
          /\ sstate' = [sstate EXCEPT ![s] = "QUARANTINED"]
    /\ taken' = [taken EXCEPT ![s] = NoTicket]
    /\ current' = [current EXCEPT ![s] = NoTicket]
    /\ cancelled' = cancelled \ {taken[s]}
    /\ UNCHANGED <<lockVars, sstop, squeue, caller, key, preparing, answer, dropped, drainVars>>

OwnerStep(s) ==
    \/ CheckStart(s) \/ OpenTransport(s) \/ Initialize(s) \/ TakeTicket(s) \/ LeaveLoop(s)
    \/ Publish(s) \/ CheckTicket(s) \/ Respond(s) \/ Raise(s) \/ Shutdown(s) \/ HandleFailure(s)
    \/ StopAtEnd(s) \/ CloseSession(s)
-----------------------------------------------------------------------------
(***************************************************************************)
(* close_all, close_workspace and _drain_sessions                          *)
(***************************************************************************)

\* Either sets its flag and notes the sessions there are.
CloseCall(flags) ==
    /\ drainer["closer"] = "idle"
    /\ flags
    /\ drainer' = [drainer EXCEPT !["closer"] = "stop"]
    /\ draining' = [draining EXCEPT !["closer"] = {s \in Session : InTable(s)}]
    /\ UNCHANGED <<table, born, starts, sessionVars, callerVars>>

CloseAll == CloseCall(closed' = TRUE /\ closingRoot' = closingRoot)

CloseWorkspace == CloseCall(closingRoot' = TRUE /\ closed' = closed)

\* The first critical section of _drain_sessions.
DrainStop(d) ==
    /\ drainer[d] = "stop"
    /\ drainer' = [drainer EXCEPT ![d] = "join"]
    /\ StopSessions(draining[d])
    /\ UNCHANGED <<lockVars, sstate, owner, taken, current, server, caller, key, preparing, dropped, draining>>

\* The joins end with their owners or with the timeout; what is not closed
\* by then is quarantined, and close_workspace opens the root again.
DrainEnd(d) ==
    /\ drainer[d] = "join"
    /\ drainer' = [drainer EXCEPT ![d] = "done"]
    /\ sstate' = [s \in Session |-> IF s \in draining[d] /\ sstate[s] # "CLOSED"
                                    THEN "QUARANTINED" ELSE sstate[s]]
    /\ closingRoot' = (closingRoot /\ d # "closer")
    /\ draining' = IF d = "closer" THEN [draining EXCEPT ![d] = {}] ELSE draining
    /\ UNCHANGED <<closed, table, born, starts, sstop, owner, squeue, taken, current, server, callerVars>>

SessionsNext ==
    \/ \E t \in Ticket : CallerStep(t)
    \/ \E s \in Session : Launch(s) \/ OwnerStep(s)
    \/ \E k \in Key : MinutePasses(k)
    \/ CloseAll \/ CloseWorkspace
    \/ \E d \in Drainer : DrainStop(d) \/ DrainEnd(d)

SessionsSpec == SessionsInit /\ [][SessionsNext]_sessionsVars

-----------------------------------------------------------------------------
\* Every attribute has its type; what is in hand or current is one ticket.
SessionsTypeOK ==
    /\ table \in [Key -> 0 .. Incarnations] /\ born \in [Key -> 0 .. Incarnations]
    /\ starts \in [Key -> 0 .. StartLimit]
    /\ sstate \in [Session -> {"STARTING", "READY", "DRAINING", "FAILED", "CLOSED", "QUARANTINED"}]
    /\ owner \in [Session -> {"none", "unstarted", "launching", "opening", "initializing", "idle",
                              "took", "preparing", "dispatched", "shutdown", "failing", "finally",
                              "closing", "gone"}]
    /\ squeue \in [Session -> Seq(Ticket)]
    /\ taken \in [Session -> Ticket \cup {NoTicket}]
    /\ current \in [Session -> Ticket \cup {NoTicket}]
    /\ server \in [Session -> {"none", "alive", "dead"}]
    /\ answer \in [Ticket -> {"none", "result", "error", "read"}]
    /\ preparing \subseteq Ticket /\ cancelled \subseteq Ticket

(***************************************************************************)
(* "One process and protocol owner per key": no two incarnations of a key  *)
(* have a live server, because only a proven death frees the table entry.  *)
(***************************************************************************)
OneServer ==
    \A s, r \in Session : s # r /\ s[1] = r[1] => ~ (server[s] = "alive" /\ server[r] = "alive")

(***************************************************************************)
(* No ticket is put into a queue that nobody will read again: the queue of *)
(* a stopped or closed session stays empty.                                *)
(***************************************************************************)
StoppedQueueEmpty ==
    \A s \in Session : sstop[s] \/ sstate[s] = "CLOSED" => squeue[s] = << >>

(***************************************************************************)
(* Whoever stops a session also cancels the request it is waiting for: the *)
(* owner never sits in the receive loop of a request nobody cancelled      *)
(* after its session was stopped.                                          *)
(***************************************************************************)
StopCancelsCurrent ==
    \A s \in Session : sstop[s] /\ owner[s] = "dispatched" => taken[s] \in cancelled

\* Requests in preparation and in queues never exceed the limit, although
\* it is tested in two critical sections.
RequestBound == RequestCount <= RequestMax

(***************************************************************************)
(* A caller that waits without an answer has its ticket in a queue or in   *)
(* the hands of an owner that is still running; the only tickets left to   *)
(* the caller's own deadline are those whose owner failed before it        *)
(* published them.                                                         *)
(***************************************************************************)
NoTicketForgotten ==
    \A t \in Ticket : caller[t] = "waiting" /\ answer[t] = "none" =>
        \/ t \in Queued \cup dropped
        \/ \E s \in Session : taken[s] = t /\ owner[s] # "gone"

(***************************************************************************)
(* close_all is final: once it has stopped what it found, every session    *)
(* there is, or that a request under way could still create, is stopped.   *)
(***************************************************************************)
ClosedForGood ==
    closed /\ drainer["closer"] \in {"join", "done"} =>
        \A s \in Session : owner[s] # "none" => sstop[s] \/ sstate[s] = "CLOSED"

(***************************************************************************)
(* The session manager is sound: one server per key, requests within the   *)
(* limit, none forgotten by a stop, a failure or a close, and no session   *)
(* survives the close of the manager.                                      *)
(***************************************************************************)
SessionsSound ==
    /\ SessionsTypeOK /\ OneServer /\ StoppedQueueEmpty /\ StopCancelsCurrent
    /\ RequestBound /\ NoTicketForgotten /\ ClosedForGood
=============================================================================
