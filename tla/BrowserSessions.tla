--------------------------- MODULE BrowserSessions ---------------------------
(***************************************************************************)
(* The browser sessions and pools of tools/browser/manager.py.  Tasks run  *)
(* open and close on one event loop, so they interleave only where they    *)
(* await: at a session lock, at the pool lock, at a launch, at a           *)
(* navigation, at a close.  The cleanup of idle sessions and pools runs in *)
(* a loop of its own and inside an open that finds the budget exhausted.   *)
(*                                                                         *)
(* A session is an object with an identity, used again once nothing refers *)
(* to it.  A pool is known by its key while it is in the map; of one that  *)
(* has left the map its sessions remember only that it is lost, as it is   *)
(* never used again.  Time is a mark: a session or a pool that is idle has *)
(* not been used for its idle period.                                      *)
(***************************************************************************)
EXTENDS Integers, FiniteSets

CONSTANTS
    Sid,            \* session ids
    PoolKey,         \* pool keys: browser name and headless
    Caller,         \* tasks that run open or close
    Loop,           \* the task _cleanup_loop
    Free,           \* nobody holds the lock
    NoSid,          \* no session id
    SessionMax,     \* _max_sessions
    PoolMax         \* _max_pools

Sess == 1 .. 2 * Cardinality(Sid) + Cardinality(Caller)
None == 0
Cleaner == Caller \cup {Loop}

ASSUME BrowserAssumption ==
    /\ Loop \notin Caller /\ Free \notin Cleaner /\ NoSid \notin Sid
    /\ {SessionMax, PoolMax} \subseteq Nat \ {0}

VARIABLES
    sessions,       \* _sessions: session id -> session, None
    skey, lost, stale, sidle,   \* session -> pool key, "dead" or "closed" when its pool left the map, stale flag, idle
    launched, up,   \* keys of _pools; those whose browser is connected
    act, pend,      \* key -> active_contexts, pending_contexts of its pool
    pidle,          \* keys whose pool is idle
    pendingSessions,                \* _pending_sessions
    slock, plock, clock,            \* holders of the session, pool and cleanup locks
    bpc, bsid, bkey,                \* caller -> place, arguments
    fresh, old,                     \* caller -> replacement, existing
    reserved,                       \* callers with reserved_slot
    cpc, ctodo, cnow                \* cleaner -> place, candidates left, candidate in hand

poolVars == <<launched, up, act, pend, pidle>>
sessVars == <<sessions, skey, lost, stale, sidle>>
openVars == <<bsid, bkey, fresh, old, reserved, pendingSessions>>
cleanVars == <<cpc, ctodo, cnow>>
lockVars == <<slock, plock, clock>>
browserVars == <<sessions, skey, lost, stale, sidle, launched, up, act, pend, pidle, pendingSessions,
                 slock, plock, clock, bpc, bsid, bkey, fresh, old, reserved, cpc, ctodo, cnow>>

AnyKey == CHOOSE k \in PoolKey : TRUE
NoOne == <<NoSid, None>>

BrowserInit ==
    /\ sessions = [s \in Sid |-> None] /\ skey = [i \in Sess |-> AnyKey]
    /\ lost = [i \in Sess |-> "no"] /\ stale = [i \in Sess |-> FALSE] /\ sidle = [i \in Sess |-> FALSE]
    /\ launched = {} /\ up = {} /\ pidle = {}
    /\ act = [k \in PoolKey |-> 0] /\ pend = [k \in PoolKey |-> 0]
    /\ pendingSessions = 0 /\ slock = [s \in Sid |-> Free] /\ plock = Free /\ clock = Free
    /\ bpc = [t \in Caller |-> "idle"] /\ bsid = [t \in Caller |-> NoSid]
    /\ bkey = [t \in Caller |-> AnyKey] /\ fresh = [t \in Caller |-> None]
    /\ old = [t \in Caller |-> None] /\ reserved = {}
    /\ cpc = [q \in Cleaner |-> "off"] /\ ctodo = [q \in Cleaner |-> {}] /\ cnow = [q \in Cleaner |-> NoOne]
-----------------------------------------------------------------------------
(* Helpers without an await.                                               *)

Published == {sessions[s] : s \in Sid} \ {None}

\* Sessions in the map or in the hands of a task.
InHand == (Published \cup {fresh[t] : t \in Caller} \cup {old[t] : t \in Caller}
         \cup {cnow[q][2] : q \in {r \in Cleaner : cpc[r] = "evict"}}) \ {None}

\* Those whose pool is the one in the map under a key of ks.
Of(ks) == {i \in InHand : skey[i] \in ks /\ lost[i] = "no"}

\* The pools of ks leave the map.
PoolsLeave(ks, why) ==
    /\ launched' = launched \ ks /\ up' = up \ ks
    /\ act' = [k \in PoolKey |-> IF k \in ks THEN 0 ELSE act[k]]
    /\ pend' = [k \in PoolKey |-> IF k \in ks THEN 0 ELSE pend[k]]
    /\ pidle' = pidle \ ks
    /\ lost' = [i \in Sess |-> IF i \in Of(ks) THEN why ELSE lost[i]]

\* _mark_pool_dead: out of the map, and the sessions in the map stale.
MarkPoolsDead(ks) ==
    PoolsLeave(ks, "dead") /\ stale' = [i \in Sess |-> stale[i] \/ i \in Of(ks) \cap Published]

\* The pool test of _session_usable and of _new_session.
PoolLost(i) == lost[i] # "no" \/ skey[i] \notin up

Usable(i) == ~stale[i] /\ ~PoolLost(i)

\* What _session_usable leaves behind for the sessions it is asked about.
Looked(is) ==
    LET seen == {i \in is : ~stale[i] /\ PoolLost(i)}
        ks == {skey[i] : i \in {j \in seen : lost[j] = "no"}}
    IN  PoolsLeave(ks, "dead") /\ stale' = [i \in Sess |-> stale[i] \/ i \in seen \/ i \in Of(ks) \cap Published]

\* The session context manager touches the session on the way in and out.
Touched(s) == sidle' = [i \in Sess |-> IF i = sessions[s] THEN FALSE ELSE sidle[i]]

\* The last reference to i goes.
Forget(i) ==
    /\ skey' = [skey EXCEPT ![i] = AnyKey] /\ lost' = [lost EXCEPT ![i] = "no"]
    /\ stale' = [stale EXCEPT ![i] = FALSE] /\ sidle' = [sidle EXCEPT ![i] = FALSE]

BudgetSpent == Cardinality(Published) + pendingSessions >= SessionMax
-----------------------------------------------------------------------------
(* open and close                                                          *)

Ask(t, what) ==
    /\ bpc[t] = "idle"
    /\ \E s \in Sid, k \in PoolKey :
          bsid' = [bsid EXCEPT ![t] = s] /\ bkey' = [bkey EXCEPT ![t] = k]
    /\ bpc' = [bpc EXCEPT ![t] = what]
    /\ UNCHANGED <<sessVars, poolVars, pendingSessions, lockVars, fresh, old, reserved, cleanVars>>

Goes(t, place) == bpc' = [bpc EXCEPT ![t] = place]

\* The end of the call: the place in the budget and the session lock go back.
Done(t) ==
    /\ Goes(t, "idle")
    /\ pendingSessions' = IF t \in reserved THEN pendingSessions - 1 ELSE pendingSessions
    /\ reserved' = reserved \ {t}
    /\ slock' = [slock EXCEPT ![bsid[t]] = Free]
    /\ fresh' = [fresh EXCEPT ![t] = None] /\ old' = [old EXCEPT ![t] = None]
    /\ bsid' = [bsid EXCEPT ![t] = NoSid] /\ bkey' = [bkey EXCEPT ![t] = AnyKey]

\* With the session lock: reuse a compatible usable session, replace another,
\* or ask for a place in the budget.
EnterOpen(t) ==
    LET s == bsid[t]
        i == sessions[s]
        compatible == i # None /\ skey[i] = bkey[t]
        place == IF compatible /\ Usable(i) THEN "navigate"
                 ELSE IF i # None THEN "acquire"
                 ELSE IF BudgetSpent THEN "cleanup" ELSE "reserve"
    IN  /\ bpc[t] = "open" /\ slock[s] = Free
        /\ slock' = [slock EXCEPT ![s] = t]
        /\ Touched(s)
        /\ old' = [old EXCEPT ![t] = i]
        /\ Goes(t, place)
        /\ Looked(IF compatible THEN {i} ELSE {})
        /\ UNCHANGED <<sessions, skey, plock, clock, bsid, bkey, fresh, reserved, pendingSessions, cleanVars>>

\* _navigate on the existing session; after a failure the session is looked at.
Navigate(t) ==
    /\ bpc[t] = "navigate"
    /\ \/ Looked({}) \/ Looked({old[t]})
    /\ Touched(bsid[t])
    /\ Done(t)
    /\ UNCHANGED <<sessions, skey, plock, clock, cleanVars>>

\* cleanup_idle begins, with the list of the sessions.
StartCleanup(q) ==
    /\ clock' = q /\ cpc' = [cpc EXCEPT ![q] = "next"]
    /\ ctodo' = [ctodo EXCEPT ![q] = {<<s, sessions[s]>> : s \in {r \in Sid : sessions[r] # None}}]

\* cleanup_idle before the budget is asked again; it is skipped while it runs.
CleanFirst(t) ==
    /\ bpc[t] = "cleanup"
    /\ IF clock # Free
       THEN Goes(t, "reserve") /\ UNCHANGED <<clock, cpc, ctodo>>
       ELSE Goes(t, "cleaning") /\ StartCleanup(t)
    /\ UNCHANGED <<sessVars, poolVars, slock, plock, openVars, cnow>>

Reserve(t) ==
    /\ bpc[t] = "reserve" \/ (bpc[t] = "cleaning" /\ cpc[t] = "off")
    /\ \/ BudgetSpent /\ Done(t)
       \/ /\ ~BudgetSpent
          /\ pendingSessions' = pendingSessions + 1 /\ reserved' = reserved \cup {t}
          /\ Goes(t, "acquire")
          /\ UNCHANGED <<slock, bsid, bkey, fresh, old>>
    /\ UNCHANGED <<sessVars, poolVars, plock, clock, cleanVars>>

\* A session object for the context that t is about to open.
NewContext(t) ==
    LET i == CHOOSE j \in Sess : /\ j \notin InHand
                              /\ \A q \in Cleaner : j # cnow[q][2] /\ \A s \in Sid : <<s, j>> \notin ctodo[q]
    IN  fresh' = [fresh EXCEPT ![t] = i] /\ skey' = [skey EXCEPT ![i] = bkey[t]]

\* _acquire_pool_for_context up to the launch, under the pool lock.
AcquirePool(t) ==
    LET k == bkey[t]
    IN  /\ bpc[t] = "acquire" /\ plock = Free
        /\ \/ /\ k \in up
              /\ pend' = [pend EXCEPT ![k] = @ + 1] /\ pidle' = pidle \ {k}
              /\ NewContext(t) /\ Goes(t, "context")
              /\ UNCHANGED <<sessions, lost, stale, sidle, launched, up, act, lockVars,
                             bsid, bkey, old, reserved, pendingSessions>>
           \/ /\ k \notin up
              /\ MarkPoolsDead({k})
              /\ \/ Cardinality(launched \ {k}) >= PoolMax /\ Done(t) /\ UNCHANGED <<plock, clock>>
                 \/ /\ Cardinality(launched \ {k}) < PoolMax
                    /\ plock' = t /\ Goes(t, "launch")
                    /\ UNCHANGED <<slock, clock, openVars>>
              /\ UNCHANGED <<sessions, skey, sidle>>
        /\ UNCHANGED cleanVars

\* The launch, which holds the pool lock, ends or fails.
LaunchEnds(t) ==
    LET k == bkey[t]
    IN  /\ bpc[t] = "launch"
        /\ plock' = Free
        /\ \/ /\ launched' = launched \cup {k} /\ up' = up \cup {k} /\ pidle' = pidle \ {k}
              /\ act' = [act EXCEPT ![k] = 0] /\ pend' = [pend EXCEPT ![k] = 1]
              /\ NewContext(t) /\ Goes(t, "context")
              /\ UNCHANGED <<slock, bsid, bkey, old, reserved, pendingSessions>>
           \/ Done(t) /\ UNCHANGED <<skey, poolVars>>
        /\ UNCHANGED <<sessions, lost, stale, sidle, clock, cleanVars>>

\* new_context and new_page end or fail.
OpenContext(t) ==
    /\ bpc[t] = "context"
    /\ \E place \in {"account", "unaccount"} : Goes(t, place)
    /\ UNCHANGED <<sessVars, poolVars, lockVars, openVars, cleanVars>>

\* pending_contexts goes down, if the pool is still the one in the map.
NoLongerPending(i) ==
    IF lost[i] = "no"
    THEN pend' = [pend EXCEPT ![skey[i]] = @ - 1] /\ pidle' = pidle \ {skey[i]}
    ELSE UNCHANGED <<pend, pidle>>

\* The pending context becomes an active one, unless its pool was lost.
Account(t) ==
    LET i == fresh[t]
    IN  /\ bpc[t] = "account" /\ plock = Free
        /\ \/ /\ ~PoolLost(i)
              /\ NoLongerPending(i)
              /\ act' = [act EXCEPT ![skey[i]] = @ + 1]
              /\ Goes(t, "first")
              /\ UNCHANGED <<sessVars, launched, up, lockVars, openVars>>
           \/ /\ PoolLost(i) /\ lost[i] = "no"      \* found out here: _mark_pool_dead
              /\ MarkPoolsDead({skey[i]})
              /\ UNCHANGED <<sessions, skey, sidle, bpc, lockVars, openVars>>
           \/ /\ lost[i] # "no"
              /\ Forget(i) /\ Done(t)
              /\ UNCHANGED <<sessions, poolVars, plock, clock>>
        /\ UNCHANGED cleanVars

Unaccount(t) ==
    /\ bpc[t] = "unaccount" /\ plock = Free
    /\ NoLongerPending(fresh[t])
    /\ Forget(fresh[t]) /\ Done(t)
    /\ UNCHANGED <<sessions, launched, up, act, plock, clock, cleanVars>>

\* The first navigation: published on success, closed on failure.
FirstNavigation(t) ==
    /\ bpc[t] = "first"
    /\ \/ /\ sessions' = [sessions EXCEPT ![bsid[t]] = fresh[t]]
          /\ Goes(t, "closeOld")
       \/ Goes(t, "closeNew") /\ UNCHANGED sessions
    /\ UNCHANGED <<skey, lost, stale, sidle, poolVars, lockVars, openVars, cleanVars>>

\* _close_session_context: the close itself may fail, the count goes down.
ContextClosed(i) ==
    IF lost[i] = "no"
    THEN act' = [act EXCEPT ![skey[i]] = IF @ > 0 THEN @ - 1 ELSE 0] /\ pidle' = pidle \ {skey[i]}
    ELSE UNCHANGED <<act, pidle>>

EndCall(t) ==
    LET i == IF bpc[t] = "closeNew" THEN fresh[t] ELSE old[t]
    IN  /\ bpc[t] \in {"closeNew", "closeOld"}
        /\ IF i = None THEN UNCHANGED <<skey, lost, stale, sidle, act, pidle>>
           ELSE plock = Free /\ ContextClosed(i) /\ Forget(i)
        /\ Done(t)
        /\ UNCHANGED <<sessions, launched, up, pend, plock, clock, cleanVars>>

\* close: the session leaves the map before its context is closed.
EnterClose(t) ==
    LET s == bsid[t]
    IN  /\ bpc[t] = "close" /\ slock[s] = Free
        /\ sessions' = [sessions EXCEPT ![s] = None]
        /\ slock' = [slock EXCEPT ![s] = t]
        /\ old' = [old EXCEPT ![t] = sessions[s]]
        /\ Goes(t, "closeOld")
        /\ UNCHANGED <<skey, lost, stale, sidle, poolVars, plock, clock, bsid, bkey, fresh, reserved,
                       pendingSessions, cleanVars>>

CallerStep(t) ==
    \/ EnterOpen(t) \/ Navigate(t) \/ CleanFirst(t) \/ Reserve(t) \/ AcquirePool(t)
    \/ LaunchEnds(t) \/ OpenContext(t) \/ Account(t) \/ Unaccount(t) \/ FirstNavigation(t)
    \/ EndCall(t) \/ EnterClose(t)
-----------------------------------------------------------------------------
(* cleanup_idle                                                            *)

LoopStarts ==
    /\ cpc[Loop] = "off" /\ clock = Free /\ (launched # {} \/ Published # {})
    /\ StartCleanup(Loop)
    /\ UNCHANGED <<sessVars, poolVars, slock, plock, bpc, openVars, cnow>>

\* The candidate is the session of s, and still idle or unusable.
StillIdle(s, i) == sessions[s] = i /\ (~Usable(i) \/ sidle[i])

\* With its session lock the candidate is left alone when it was replaced or
\* used meanwhile, else taken out of the map.
Decide(q, s, i) ==
    \/ /\ ~StillIdle(s, i)
       /\ cnow' = [cnow EXCEPT ![q] = NoOne] /\ cpc' = [cpc EXCEPT ![q] = "next"]
       /\ UNCHANGED <<sessions, slock>>
    \/ /\ StillIdle(s, i)
       /\ cnow' = [cnow EXCEPT ![q] = <<s, i>>] /\ cpc' = [cpc EXCEPT ![q] = "evict"]
       /\ sessions' = [sessions EXCEPT ![s] = None]
       /\ slock' = [slock EXCEPT ![s] = q]

\* The next candidate: passed over when it is usable and not idle.  One that
\* has left the map fares either way, and is left alone below.  The lock is
\* taken at once when it is free.
Pick(q, s, i) ==
    /\ cpc[q] = "next" /\ <<s, i>> \in ctodo[q]
    /\ ctodo' = [ctodo EXCEPT ![q] = @ \ {<<s, i>>}]
    /\ Looked({i} \cap Published)
    /\ \/ /\ sessions[s] # i \/ (Usable(i) /\ ~sidle[i])
          /\ UNCHANGED <<sessions, slock, cpc, cnow>>
       \/ /\ sessions[s] # i \/ ~Usable(i) \/ sidle[i]
          /\ IF slock[s] = Free THEN Decide(q, s, i)
             ELSE /\ cpc' = [cpc EXCEPT ![q] = "wait"] /\ cnow' = [cnow EXCEPT ![q] = <<s, i>>]
                  /\ UNCHANGED <<sessions, slock>>
    /\ UNCHANGED <<skey, sidle, plock, clock, bpc, openVars>>

\* The lock a candidate had to wait for is free.
Evict(q) ==
    LET s == cnow[q][1]
        i == cnow[q][2]
    IN  /\ cpc[q] = "wait" /\ slock[s] = Free
        /\ Looked({i} \cap Published)
        /\ Decide(q, s, i)
        /\ UNCHANGED <<skey, sidle, plock, clock, bpc, openVars, ctodo>>

EvictEnds(q) ==
    /\ cpc[q] = "evict" /\ plock = Free
    /\ ContextClosed(cnow[q][2]) /\ Forget(cnow[q][2])
    /\ slock' = [slock EXCEPT ![cnow[q][1]] = Free]
    /\ cnow' = [cnow EXCEPT ![q] = NoOne]
    /\ cpc' = [cpc EXCEPT ![q] = "next"]
    /\ UNCHANGED <<sessions, launched, up, pend, plock, clock, bpc, openVars, ctodo>>


\* The pools that cleanup_idle takes out of the map.
EmptyIdle == {k \in launched \cap pidle : act[k] = 0 /\ pend[k] = 0}

TakePools(q) ==
    /\ cpc[q] = "next" /\ ctodo[q] = {} /\ plock = Free
    /\ PoolsLeave(EmptyIdle, "closed")
    /\ cpc' = [cpc EXCEPT ![q] = "pools"]
    /\ UNCHANGED <<sessions, skey, stale, sidle, lockVars, bpc, openVars, ctodo, cnow>>

\* The browsers are closed, or the close fails.
ClosePools(q) ==
    /\ cpc[q] = "pools"
    /\ cpc' = [cpc EXCEPT ![q] = "off"] /\ clock' = Free
    /\ UNCHANGED <<sessVars, poolVars, slock, plock, bpc, openVars, ctodo, cnow>>

CleanStep(q) ==
    \/ Evict(q) \/ EvictEnds(q) \/ TakePools(q) \/ ClosePools(q)
    \/ \E c \in ctodo[q] : Pick(q, c[1], c[2])

\* A cleanup with a candidate to test does not await before it.
Testing == {q \in Cleaner : cpc[q] = "next" /\ ctodo[q] # {}}
-----------------------------------------------------------------------------
(* The browser and the clock.                                              *)

\* A browser process goes away; is_connected says so at once.
Disconnect(k) ==
    /\ k \in up
    /\ up' = up \ {k}
    /\ UNCHANGED <<sessVars, launched, act, pend, pidle, lockVars, bpc, openVars, cleanVars>>

\* The "disconnected" event of _watch_pool.
Disconnected(k) ==
    /\ k \in launched \ up
    /\ MarkPoolsDead({k})
    /\ UNCHANGED <<sessions, skey, sidle, lockVars, bpc, openVars, cleanVars>>

\* An idle period passes without a use.
SessionAges(i) ==
    /\ i \in Published /\ ~sidle[i]
    /\ sidle' = [sidle EXCEPT ![i] = TRUE]
    /\ UNCHANGED <<sessions, skey, lost, stale, poolVars, lockVars, bpc, openVars, cleanVars>>

PoolAges(k) ==
    /\ k \in launched \ pidle
    /\ pidle' = pidle \cup {k}
    /\ UNCHANGED <<sessVars, launched, up, act, pend, lockVars, bpc, openVars, cleanVars>>

BrowserNext ==
    \/ \E q \in Cleaner : CleanStep(q)
    \/ /\ Testing = {}
       /\ \/ \E t \in Caller : Ask(t, "open") \/ Ask(t, "close") \/ CallerStep(t)
          \/ LoopStarts
          \/ \E k \in PoolKey : Disconnect(k) \/ Disconnected(k) \/ PoolAges(k)
          \/ \E i \in Sess : SessionAges(i)

BrowserSpec == BrowserInit /\ [][BrowserNext]_browserVars
-----------------------------------------------------------------------------
(* Properties.                                                             *)

\* Contexts of the pool of k that are being opened, and those open: sessions in
\* the map, or in the hands of a task that publishes or closes them.
Opening(k) == {t \in Caller : bpc[t] \in {"context", "account", "unaccount"} /\ fresh[t] \in Of({k})}
Open(k) ==
    Of({k}) \cap (Published \cup {cnow[q][2] : q \in {r \in Cleaner : cpc[r] = "evict"}}
                   \cup {fresh[t] : t \in {u \in Caller : bpc[u] \in {"first", "closeNew"}}}
                   \cup {old[t] : t \in {u \in Caller : bpc[u] = "closeOld"}})

\* The bookkeeping stays in its types: a caller that waits holds what its place
\* says, and pending sessions are those with a reserved place.
BrowserTypeOK ==
    /\ \A s \in Sid : sessions[s] \in Sess \cup {None} /\ slock[s] \in Cleaner \cup {Free}
    /\ up \subseteq launched /\ launched \subseteq PoolKey /\ pidle \subseteq launched
    /\ pendingSessions = Cardinality(reserved)
    /\ plock \in Caller \cup {Free} /\ (plock # Free => bpc[plock] = "launch")
    /\ clock \in Cleaner \cup {Free} /\ \A q \in Cleaner : cpc[q] # "off" <=> clock = q
    /\ \A t \in Caller : bpc[t] \notin {"idle", "open", "close"} => slock[bsid[t]] = t

\* The counts by which a pool is kept or closed are exact at every moment,
\* whatever opens, fails, is replaced, closed or evicted at once
\* (pending_contexts and active_contexts).
CountsExact ==
    \A k \in launched : pend[k] = Cardinality(Opening(k)) /\ act[k] = Cardinality(Open(k))

\* The cleanup never closes a browser in which a session is open or is being
\* opened (cleanup_idle looks at both counts under the pool lock).
SessionsServed == \A i \in InHand : lost[i] # "closed"

\* The budgets hold in the middle of every open: sessions in the map, and pools
\* launched or being launched (_max_sessions, _max_pools).
BudgetsHold ==
    /\ Cardinality(Published) <= SessionMax
    /\ Cardinality(launched) + (IF plock # Free THEN 1 ELSE 0) <= PoolMax

\* The tasks never wait for each other in a ring: while an open, a close or a
\* cleanup is under way, one of them can go on, though an open cleans up while
\* it holds its session lock and a cleanup waits for session locks.
NobodyStuck ==
    (\E q \in Caller : bpc[q] # "idle") \/ clock # Free
        => ENABLED (\E t \in Caller : CallerStep(t)) \/ ENABLED (\E q \in Cleaner : CleanStep(q))

=============================================================================
