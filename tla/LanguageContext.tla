--------------------------- MODULE LanguageContext ---------------------------
(***************************************************************************)
(* The cache of semantic results of a workspace, with the flights that     *)
(* callers of one question share (tools/language/sessions.py,              *)
(* acontext_result).  A call fingerprints the sources, looks for a cached  *)
(* result or a flight under way, else starts one; the producer and then    *)
(* every caller fingerprint again before a result is used.  Callers live   *)
(* on different event loops, sources change at any moment, the session may *)
(* be replaced, and a closer invalidates the cache.                        *)
(*                                                                         *)
(* The sources are a number that grows with every write: a digest is of    *)
(* their content, and here no content comes back.                          *)
(***************************************************************************)
EXTENDS Integers, FiniteSets, Functions

CONSTANTS
    Asker,          \* the calls
    FlightMax,      \* _CONTEXT_MAX_RESULTS
    SourceMax,      \* bound on the writes of the sources
    OwnerMax,       \* bound on the sessions
    EpochMax        \* bound on the invalidations

NoDigest == 0
Source == 1 .. SourceMax

VARIABLES
    ctxClosed,      \* _closed
    ctxEpoch,       \* _context_epoch
    source,         \* the content of the sources
    sess,           \* the session: [inc, doc], its incarnation and the content it has open, 0 when none is live
    cache,          \* _context_results: <<digest, epoch>> -> [content, gen, made]
    ctxPreparing,   \* calls counted in _context_preparing
    flights,        \* _context_flights: the calls whose producer's flight is in the table
    flight,         \* call -> the flight it started: [key, step, epoch, content, gen, made]
    ask,            \* call -> [step, epoch, before, on, content, gen, made]
    begun           \* history: call -> the epoch when it began

contextVars == <<ctxClosed, ctxEpoch, source, sess, cache, ctxPreparing, flights, flight, ask, begun>>

\* made is the epoch in which a result was built.
NoGen == [inc |-> 0, doc |-> 0]

ContextInit ==
    /\ ctxClosed = FALSE /\ ctxEpoch = 0 /\ source = 1 /\ sess = NoGen
    /\ cache = << >> /\ ctxPreparing = {} /\ flights = {}
    /\ flight = [c \in Asker |-> [key |-> <<0, 0, NoGen>>, step |-> "none", content |-> 0, gen |-> NoGen,
                              epoch |-> 0, made |-> 0]]
    /\ ask = [c \in Asker |-> [step |-> "idle", before |-> 0, on |-> c, content |-> 0, gen |-> NoGen,
                              epoch |-> 0, made |-> 0]]
    /\ begun = [c \in Asker |-> 0]

Put(f, k, v) == [x \in DOMAIN f \cup {k} |-> IF x = k THEN v ELSE f[x]]

\* _context_generation_live
GenerationLive(gen) == ~ctxClosed /\ sess.doc > 0 /\ gen = sess

Step(c, r) == ask' = [ask EXCEPT ![c] = r]
Failed(c) == [ask[c] EXCEPT !.step = "failed"]

\* The first critical section of _context_result.
BeginContext(c) ==
    /\ ask[c].step = "idle"
    /\ begun' = [begun EXCEPT ![c] = ctxEpoch]
    /\ \/ /\ ctxClosed \/ Cardinality(ctxPreparing) + Cardinality(flights) >= FlightMax
          /\ Step(c, Failed(c)) /\ UNCHANGED ctxPreparing
       \/ /\ ~ctxClosed /\ Cardinality(ctxPreparing) + Cardinality(flights) < FlightMax
          /\ ctxPreparing' = ctxPreparing \cup {c}
          /\ Step(c, [ask[c] EXCEPT !.step = "preparing", !.epoch = ctxEpoch])
    /\ UNCHANGED <<ctxClosed, ctxEpoch, source, sess, cache, flights, flight>>

\* prepare() ends, whether or not its call still waits: the fingerprint is
\* taken, cannot be, or fails.
PrepareContext(c) ==
    /\ c \in ctxPreparing
    /\ ctxPreparing' = ctxPreparing \ {c}
    /\ IF ask[c].step = "preparing"
       THEN \E d \in {source, NoDigest} :
              \/ Step(c, [ask[c] EXCEPT !.step = "lookup", !.before = d])
              \/ Step(c, Failed(c))
       ELSE UNCHANGED ask
    /\ UNCHANGED <<ctxClosed, ctxEpoch, source, sess, cache, flights, flight, begun>>

Entry(c) == <<ask[c].before, ask[c].epoch>>
Snapshot == IF sess.doc = 0 THEN NoGen ELSE sess
FlightKey(c) == <<ask[c].before, ask[c].epoch, Snapshot>>

\* The flights c may share: of its digest and epoch, started with the
\* session as it is or without one.
Shared(c) ==
    {f \in flights : /\ ask[c].before # NoDigest
                     /\ flight[f].key \in {FlightKey(c), <<ask[c].before, ask[c].epoch, NoGen>>}}

FlightsFull == Cardinality(flights) >= FlightMax

\* The second critical section: a hit, a flight to share, or one to start.
LookupContext(c) ==
    /\ ask[c].step = "lookup"
    /\ \/ /\ ctxClosed \/ ask[c].epoch # ctxEpoch
          /\ Step(c, Failed(c)) /\ UNCHANGED <<cache, flights, flight>>
       \/ /\ ~ctxClosed /\ ask[c].epoch = ctxEpoch
          /\ LET hit == Entry(c) \in DOMAIN cache /\ GenerationLive(cache[Entry(c)].gen)
             IN  /\ cache' = IF hit THEN cache ELSE Restrict(cache, DOMAIN cache \ {Entry(c)})
                 /\ \/ /\ hit
                       /\ Step(c, [ask[c] EXCEPT !.step = "check", !.content = cache[Entry(c)].content,
                                                 !.gen = cache[Entry(c)].gen, !.made = cache[Entry(c)].made])
                       /\ UNCHANGED <<flights, flight>>
                    \/ /\ ~hit
                       /\ \E f \in Shared(c) : Step(c, [ask[c] EXCEPT !.step = "waiting", !.on = f])
                       /\ UNCHANGED <<flights, flight>>
                    \/ /\ ~hit /\ Shared(c) = {} /\ ~FlightsFull
                       /\ flights' = flights \cup {c}
                       /\ flight' = [flight EXCEPT ![c] = [key |-> FlightKey(c), step |-> "start", content |-> 0,
                                                           gen |-> NoGen, epoch |-> ask[c].epoch, made |-> 0]]
                       /\ Step(c, [ask[c] EXCEPT !.step = "waiting", !.on = c])
                    \/ /\ ~hit /\ Shared(c) = {} /\ FlightsFull
                       /\ Step(c, Failed(c)) /\ UNCHANGED <<flights, flight>>
    /\ UNCHANGED <<ctxClosed, ctxEpoch, source, sess, ctxPreparing, begun>>

\* The flight ends without a result, and leaves the table.
FlightFails(f) ==
    /\ flight' = [flight EXCEPT ![f].step = "failed"]
    /\ flights' = flights \ {f}

\* produce() up to the build: the request syncs the documents of the
\* session, which it may have to start, and answers from them.
BuildContext(f) ==
    /\ flight[f].step = "start"
    /\ \/ /\ \/ ctxClosed \/ flight[f].epoch # ctxEpoch
             \/ TRUE    \* the request fails, or times out
          /\ FlightFails(f) /\ UNCHANGED <<sess, cache>>
       \/ /\ ~ctxClosed /\ flight[f].epoch = ctxEpoch
          /\ sess' = [inc |-> IF sess.doc = 0 THEN sess.inc + 1 ELSE sess.inc, doc |-> source]
          /\ cache' = IF sess.doc \notin {0, source} THEN << >> ELSE cache
          /\ \E gen \in {sess', NoGen} :
               flight' = [flight EXCEPT ![f].step = "built", ![f].content = source, ![f].gen = gen,
                                        ![f].made = ctxEpoch]
          /\ UNCHANGED flights
    /\ UNCHANGED <<ctxClosed, ctxEpoch, source, ctxPreparing, ask, begun>>


\* The digest a fingerprint gives now to a call that had d.
Digest(d) == IF d = NoDigest THEN NoDigest ELSE source

\* A result with a digest and with evidence of the session.
Cacheable(fl) == fl.key[1] # NoDigest /\ fl.gen # NoGen

UnchangedSince(f) == ~ctxClosed /\ flight[f].epoch = ctxEpoch /\ flight[f].key[1] = Digest(flight[f].key[1])

\* produce() after the build: fingerprint again, publish, wake the callers.
PublishContext(f) ==
    /\ flight[f].step = "built"
    /\ LET fl == flight[f]
           good == UnchangedSince(f) /\ (fl.gen = NoGen \/ GenerationLive(fl.gen))
       IN  \/ /\ good
              /\ flight' = [flight EXCEPT ![f].step = "done"]
              /\ flights' = flights \ {f}
              /\ \/ /\ Cacheable(fl)
                    /\ cache' = Put(cache, <<fl.key[1], fl.epoch>>, [content |-> fl.content, gen |-> fl.gen, made |-> fl.made])
                 \/ UNCHANGED cache     \* no digest, no evidence, or evicted for its size
           \/ /\ ~good
              /\ FlightFails(f) /\ UNCHANGED cache
    /\ UNCHANGED <<ctxClosed, ctxEpoch, source, sess, ctxPreparing, ask, begun>>

\* _await_context_flight
WakeContext(c) ==
    /\ ask[c].step = "waiting"
    /\ LET fl == flight[ask[c].on]
       IN  \/ /\ fl.step = "done"
              /\ Step(c, [ask[c] EXCEPT !.step = "check", !.content = fl.content, !.gen = fl.gen, !.made = fl.made])
           \/ /\ fl.step = "failed"
              /\ Step(c, Failed(c))
    /\ UNCHANGED <<ctxClosed, ctxEpoch, source, sess, cache, ctxPreparing, flights, flight, begun>>

Evident(c) == ask[c].before = Digest(ask[c].before) /\ (ask[c].gen = NoGen \/ GenerationLive(ask[c].gen))

Returnable(c) == ~ctxClosed /\ ask[c].epoch = ctxEpoch /\ Evident(c)

\* The last critical section, after the last fingerprint.
ReturnContext(c) ==
    /\ ask[c].step = "check"
    /\ Step(c, IF Returnable(c) THEN [ask[c] EXCEPT !.step = "returned"] ELSE Failed(c))
    /\ UNCHANGED <<ctxClosed, ctxEpoch, source, sess, cache, ctxPreparing, flights, flight, begun>>

\* asyncio.wait_for, or the caller's own cancellation.
CancelContext(c) ==
    /\ ask[c].step \in {"preparing", "waiting", "check"}
    /\ Step(c, Failed(c))
    /\ UNCHANGED <<ctxClosed, ctxEpoch, source, sess, cache, ctxPreparing, flights, flight, begun>>

\* _invalidate_context_locked, by a closer: the tasks it finds are cancelled
\* afterwards, one by one.
Invalidate(last) ==
    /\ ~ctxClosed /\ ctxEpoch < EpochMax
    /\ ctxEpoch' = ctxEpoch + 1 /\ cache' = << >>
    /\ ctxClosed' = last
    /\ sess' = [sess EXCEPT !.doc = 0]
    /\ UNCHANGED <<source, ctxPreparing, flights, flight, ask, begun>>

CancelFlight(f) ==
    /\ f \in flights /\ flight[f].epoch < ctxEpoch
    /\ FlightFails(f)
    /\ UNCHANGED <<ctxClosed, ctxEpoch, source, sess, cache, ctxPreparing, ask, begun>>

WriteSource ==
    /\ source < SourceMax
    /\ source' = source + 1
    /\ UNCHANGED <<ctxClosed, ctxEpoch, sess, cache, ctxPreparing, flights, flight, ask, begun>>

\* Another request syncs the documents of the session.
SyncOwner ==
    /\ sess.doc \notin {0, source}
    /\ sess' = [sess EXCEPT !.doc = source] /\ cache' = << >>
    /\ UNCHANGED <<ctxClosed, ctxEpoch, source, ctxPreparing, flights, flight, ask, begun>>

\* The session fails, without an invalidation.
LoseOwner ==
    /\ sess.doc # 0 /\ sess.inc < OwnerMax
    /\ sess' = [sess EXCEPT !.doc = 0]
    /\ UNCHANGED <<ctxClosed, ctxEpoch, source, cache, ctxPreparing, flights, flight, ask, begun>>

\* A cached result expires, or makes room.
ExpireContext ==
    /\ \E k \in DOMAIN cache : cache' = Restrict(cache, DOMAIN cache \ {k})
    /\ UNCHANGED <<ctxClosed, ctxEpoch, source, sess, ctxPreparing, flights, flight, ask, begun>>

ContextNext ==
    \/ \E c \in Asker : \/ BeginContext(c) \/ PrepareContext(c) \/ LookupContext(c) \/ BuildContext(c)
                        \/ PublishContext(c) \/ WakeContext(c) \/ ReturnContext(c) \/ CancelContext(c)
                        \/ CancelFlight(c)
    \/ \E last \in BOOLEAN : Invalidate(last)
    \/ WriteSource \/ SyncOwner \/ LoseOwner \/ ExpireContext

ContextSpec == ContextInit /\ [][ContextNext]_contextVars
-----------------------------------------------------------------------------
Gen == [inc : 0 .. OwnerMax + EpochMax, doc : 0 .. SourceMax]

\* The type of the cache, of the flights and of the calls.
ContextTypeOK ==
    /\ sess \in Gen
    /\ \A k \in DOMAIN cache : k \in Source \X (0 .. EpochMax) /\ cache[k] \in [content : Source, gen : Gen, made : 0 .. EpochMax]
    /\ ctxPreparing \subseteq Asker /\ flights \subseteq Asker
    /\ \A c \in Asker : /\ flight[c].step \in {"none", "start", "built", "done", "failed"}
                        /\ ask[c].step \in {"idle", "preparing", "lookup", "waiting", "check", "returned", "failed"}

\* A result that a call returns, cached, shared or its own, was built from
\* the sources the call fingerprinted before and after
\* (_context_result, _produce_context).
ContextFresh ==
    \A c \in Asker : ask[c].step = "returned" /\ ask[c].before # NoDigest => ask[c].content = ask[c].before

\* The table of flights keeps its bound, and every flight whose callers
\* wait is in it or is over: no caller waits for a flight that is lost
\* (_context_flights, _finish_context_flight).
FlightsKept ==
    /\ Cardinality(flights) <= FlightMax
    /\ \A c \in Asker : ask[c].step = "waiting" =>
         ask[c].on \in flights \/ flight[ask[c].on].step \in {"done", "failed"}

\* No result is of another epoch than the call that returns it: an invalidation
\* is not crossed by a cached, a shared or an own result.
MadeInItsEpoch == \A c \in Asker : ask[c].step = "returned" => ask[c].made = begun[c]

=============================================================================
