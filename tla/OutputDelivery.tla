--------------------------- MODULE OutputDelivery ---------------------------
(***************************************************************************)
(* What a caller sees of a process's output: the bounded capture of a      *)
(* stream (OutputCapture, core/executor.py) and the cursor a caller        *)
(* follows through a growing stream of multi-byte characters               *)
(* (deliver_stream and _preview, core/artifacts.py).                       *)
(***************************************************************************)
EXTENDS Integers, Sequences, SequencesExt, FiniteSets, FiniteSetsExt

CONSTANTS StreamMax,    \* bytes of the stream
          MarkerLen,    \* length of the truncation marker
          Wide,         \* characters (by number) of two bytes; the others have one
          SoftMax,      \* MCP_INLINE_SOFT_LIMIT_BYTES
          PreviewBytes, \* MCP_PREVIEW_BYTES
          PreviewMin    \* PREVIEW_MIN_BYTES, at least the longest character

ASSUME PreviewAssumption == PreviewMin >= 2 /\ PreviewBytes >= PreviewMin

\* The stream is the bytes 1, 2, ..., total.
VARIABLES mode, limit, total, head, tail,  \* OutputCapture
          ended, cursor, garbled           \* the caller's reading of a full capture

outputVars == <<mode, limit, total, head, tail, ended, cursor, garbled>>

Bytes(first, last) == [i \in 1..(last - first + 1) |-> first + i - 1]
Prefix(s, n) == SubSeq(s, 1, IF n < Len(s) THEN n ELSE Len(s))
Suffix(s, n) == SubSeq(s, IF n < Len(s) THEN Len(s) - n + 1 ELSE 1, Len(s))

OutputInit ==
    /\ mode \in {"head", "tail", "both", "full"}
    /\ limit \in (IF mode = "full" THEN {0} ELSE 0..StreamMax)
    /\ total = 0 /\ head = <<>> /\ tail = <<>>
    /\ ended = FALSE /\ cursor = 0 /\ garbled = FALSE

HeadLimit == limit \div 2
TailLimit == limit - HeadLimit

\* feed: a chunk of the stream.
Feed(size) ==
    LET chunk == Bytes(total + 1, total + size) IN
    /\ ~ended /\ total + size <= StreamMax /\ total' = total + size
    /\ head' = CASE mode = "head" -> Prefix(head \o chunk, limit)
                 [] mode = "both" -> Prefix(head \o chunk, HeadLimit)
                 [] OTHER -> head
    /\ tail' = CASE mode = "tail" -> Suffix(tail \o chunk, limit)
                 [] mode = "both" /\ limit > 0 -> Suffix(tail \o chunk, TailLimit)
                 [] OTHER -> tail
    /\ UNCHANGED <<mode, limit, ended, cursor, garbled>>

EndOfStream ==
    /\ mode = "full" /\ ~ended /\ ended' = TRUE
    /\ UNCHANGED <<mode, limit, total, head, tail, cursor, garbled>>

Marker == [i \in 1..MarkerLen |-> 0]
Overlap == IF Len(head) + Len(tail) > total THEN Len(head) + Len(tail) - total ELSE 0

\* result: the payload of a limited capture.
Payload ==
    CASE mode = "head" -> head
      [] mode = "tail" -> tail
      [] mode = "both" /\ total <= limit -> head \o SubSeq(tail, Overlap + 1, Len(tail))
      [] mode = "both" /\ total > limit /\ limit <= MarkerLen -> Prefix(Marker, limit)
      [] OTHER ->
           LET content == limit - MarkerLen
           IN  Prefix(head, content \div 2) \o Marker \o Suffix(tail, content - content \div 2)

-----------------------------------------------------------------------------
(* The caller's cursor.                                                    *)

CharBytes(c) == IF c \in Wide THEN 2 ELSE 1

\* Where the characters of the stream end.
CharEnd[c \in 0..StreamMax] == IF c = 0 THEN 0 ELSE CharEnd[c - 1] + CharBytes(c)
Boundaries == {CharEnd[c] : c \in 0..StreamMax}

Consumed(offset, size, final) ==
    IF final THEN size ELSE Max({b \in Boundaries \cup {offset} : b <= offset + size}) - offset

HeadBudget(budget, size) ==
    Min({budget, size, Max({PreviewMin, (budget + 1) \div 2})})

PreviewHead(offset, final) ==
    LET size == total - offset
        budget == Min({size, PreviewBytes})
    IN  IF budget >= size THEN Consumed(offset, size, final)
        ELSE Consumed(offset, HeadBudget(budget, size), FALSE)

\* deliver_stream in auto mode: inline up to the soft limit, else a preview;
\* the caller asks again from next_byte.
Delivered ==
    IF total - cursor <= SoftMax THEN Consumed(cursor, total - cursor, ended) ELSE PreviewHead(cursor, ended)

Poll ==
    LET next == cursor + Delivered IN
    /\ mode = "full" /\ cursor < total
    /\ cursor' = next
    /\ garbled' = (garbled \/ (next \notin Boundaries /\ ~(ended /\ next = total)))
    /\ UNCHANGED <<mode, limit, total, head, tail, ended>>

OutputNext == (\E size \in 1..3 : Feed(size)) \/ EndOfStream \/ Poll

-----------------------------------------------------------------------------
OutputTypeOK ==
    /\ total \in 0..StreamMax /\ cursor \in 0..total
    /\ Len(head) <= limit /\ Len(tail) <= limit
    /\ mode # "full" => cursor = 0

\* A limited capture is the stream itself while it fits, whatever chunks it
\* came in; beyond that, its first or last bytes, or both around a marker,
\* never more than the limit allows.
CaptureIsTheStream ==
    mode # "full" =>
        /\ Len(Payload) <= limit
        /\ total <= limit => Payload = Bytes(1, total)
        /\ (total > limit /\ mode = "head") => Payload = Bytes(1, limit)
        /\ (total > limit /\ mode = "tail") => Payload = Bytes(total - limit + 1, total)
        /\ (total > limit /\ mode = "both" /\ limit > MarkerLen) =>
              \E h \in 0..limit : Payload = Bytes(1, h) \o Marker \o Bytes(total - (limit - MarkerLen - h) + 1, total)

\* A caller that follows next_byte never receives half a character, however
\* the stream grows between its calls: the cursor stands between characters
\* until the stream has ended.
CursorBetweenCharacters == ~garbled

\* "so the cursor advances on a complete character without exceeding the
\* budget": once the stream has ended, every call delivers something.
CursorAdvances == (mode = "full" /\ ended /\ cursor < total) => Delivered > 0

-----------------------------------------------------------------------------
(***************************************************************************)
(* Output delivered through file artifacts: deliver_file snapshots a       *)
(* source that outsiders may change, reuses a cached snapshot of the same  *)
(* version, and asks one retention thread to keep the artifact directory   *)
(* within age, count and byte limits.  core/artifacts.py,                  *)
(* core/artifact_retention.py.                                             *)
(***************************************************************************)
CONSTANTS Artifact,    \* names the artifact directory can hold
          Deliverer,   \* threads that deliver the same source
          Nothing,
          Versions,    \* versions of the source, told apart by size and times
          Clock,       \* bound on time
          Grace,       \* ARTIFACT_RECENT_GRACE_SEC
          AgeMax, CountMax, BytesMax, CacheItems

SizeOfVersion(v) == v  \* a later version is longer

VARIABLES version,     \* of the source file
          clock,
          disk,        \* artifacts on disk: name -> [version, mtime]
          cache,       \* _CACHE: sequence of [version, artifact], oldest first
          deliver,     \* per thread: where it is and what it holds
          sourceLock,  \* RESOURCE_LOCKS.sync(path)
          wanted,      \* ArtifactRetentionManager: _dirty, _running, _protected
          sweep        \* the cleanup pass

artifactVars == <<version, clock, disk, cache, deliver, sourceLock, wanted, sweep>>

NoSweep == [at |-> "off", now |-> 0, kept |-> {}, rest |-> <<>>, i |-> 1, failed |-> FALSE]
NoDelivery == [at |-> "idle", stat |-> 0, artifact |-> Nothing]

ArtifactInit ==
    /\ version = 1 /\ clock = 0
    /\ disk = [a \in {} |-> 0] /\ cache = <<>>
    /\ deliver = [d \in Deliverer |-> NoDelivery] /\ sourceLock = Nothing
    /\ wanted = [dirty |-> FALSE, running |-> FALSE, protected |-> {}]
    /\ sweep = NoSweep

Without(a) == [b \in DOMAIN disk \ {a} |-> disk[b]]

-----------------------------------------------------------------------------
(* deliver_file.                                                           *)

ChangeSource ==
    /\ version < Versions /\ version' = version + 1
    /\ UNCHANGED <<clock, disk, cache, deliver, sourceLock, wanted, sweep>>

Tick ==
    /\ clock < Clock /\ clock' = clock + 1
    /\ UNCHANGED <<version, disk, cache, deliver, sourceLock, wanted, sweep>>

OpenSource(d) ==
    /\ deliver[d].at = "idle" /\ sourceLock = Nothing /\ sourceLock' = d
    /\ deliver' = [deliver EXCEPT ![d] = [at |-> "look", stat |-> version, artifact |-> Nothing]]
    /\ UNCHANGED <<version, clock, disk, cache, wanted, sweep>>

Entry(v) == SelectSeq(cache, LAMBDA e : e.version = v)
Others(v) == SelectSeq(cache, LAMBDA e : e.version # v)

\* A cached snapshot that is still a file is touched, under its lock, before
\* it is handed out again; an entry whose file is gone is dropped.
CacheHit(d) ==
    LET v == deliver[d].stat IN
    /\ deliver[d].at = "look" /\ Entry(v) # <<>>
    /\ LET a == Entry(v)[1].artifact IN
       \/ /\ a \in DOMAIN disk
          /\ disk' = [disk EXCEPT ![a].mtime = clock]
          /\ cache' = Others(v) \o Entry(v)
          /\ deliver' = [deliver EXCEPT ![d] = [@ EXCEPT !.at = "return", !.artifact = a]]
       \/ \* gone, or the touch fails
          /\ cache' = Others(v) /\ deliver' = [deliver EXCEPT ![d].at = "copy"]
          /\ UNCHANGED disk
    /\ UNCHANGED <<version, clock, sourceLock, wanted, sweep>>

CacheMiss(d) ==
    /\ deliver[d].at = "look" /\ Entry(deliver[d].stat) = <<>>
    /\ deliver' = [deliver EXCEPT ![d].at = "copy"]
    /\ UNCHANGED <<version, clock, disk, cache, sourceLock, wanted, sweep>>

\* A name nobody knows yet (uuid4).
Fresh(a) ==
    /\ a \notin DOMAIN disk /\ \A i \in DOMAIN cache : cache[i].artifact # a
    /\ \A i \in DOMAIN sweep.rest : sweep.rest[i].name # a
    /\ a \notin wanted.protected /\ \A d \in Deliverer : deliver[d].artifact # a

\* The copy reads the source as it is by now and appears under its final
\* name at once (os.replace); it fails when the source became shorter.
CopySnapshot(d) ==
    /\ deliver[d].at = "copy"
    /\ \/ \E a \in {x \in Artifact : Fresh(x)} :
            /\ disk' = [b \in DOMAIN disk \cup {a} |->
                          IF b = a THEN [version |-> version, mtime |-> clock] ELSE disk[b]]
            /\ deliver' = [deliver EXCEPT ![d] = [@ EXCEPT !.at = "schedule", !.artifact = a]]
       \/ deliver' = [deliver EXCEPT ![d].at = "raise"] /\ UNCHANGED disk
    /\ UNCHANGED <<version, clock, cache, sourceLock, wanted, sweep>>

Schedule(protect) ==
    wanted' = [dirty |-> TRUE, running |-> TRUE, protected |-> wanted.protected \cup protect]

ScheduleRetention(d) ==
    /\ deliver[d].at = "schedule" /\ Schedule({deliver[d].artifact})
    /\ deliver' = [deliver EXCEPT ![d].at = "check"]
    /\ UNCHANGED <<version, clock, disk, cache, sourceLock, sweep>>

\* The source is the one that was looked at, or the snapshot is withdrawn.
UnchangedNever(d) == TRUE
UnchangedSource(d) == version = deliver[d].stat

CheckSource(d) ==
    LET a == deliver[d].artifact IN
    /\ deliver[d].at = "check"
    /\ IF UnchangedSource(d)
         THEN /\ LET longer == Append(Others(deliver[d].stat), [version |-> deliver[d].stat, artifact |-> a])
                 IN  cache' = IF Len(longer) > CacheItems THEN Tail(longer) ELSE longer
              /\ deliver' = [deliver EXCEPT ![d].at = "return"] /\ UNCHANGED disk
         ELSE /\ disk' = Without(a)
              /\ deliver' = [deliver EXCEPT ![d].at = "raise"] /\ UNCHANGED cache
    /\ UNCHANGED <<version, clock, sourceLock, wanted, sweep>>

Answer(d) ==
    /\ deliver[d].at \in {"return", "raise"} /\ sourceLock' = Nothing
    /\ deliver' = [deliver EXCEPT ![d] = NoDelivery]
    /\ UNCHANGED <<version, clock, disk, cache, wanted, sweep>>

-----------------------------------------------------------------------------
(* The retention thread.                                                   *)

\* Maintenance asks for a pass without an artifact to protect.
MaintainArtifacts ==
    /\ Schedule({})
    /\ UNCHANGED <<version, clock, disk, cache, deliver, sourceLock, sweep>>

RetentionTop ==
    /\ wanted.running /\ sweep.at = "off"
    /\ IF wanted.dirty
         THEN /\ sweep' = [NoSweep EXCEPT !.at = "scan", !.kept = wanted.protected]
              /\ wanted' = [wanted EXCEPT !.dirty = FALSE, !.protected = {}]
         ELSE wanted' = [wanted EXCEPT !.running = FALSE] /\ UNCHANGED sweep
    /\ UNCHANGED <<version, clock, disk, cache, deliver, sourceLock>>

Recent(m, now) == m >= now - Grace

Protected(order, now) ==
    {e.name : e \in {x \in ToSet(order) : Recent(x.mtime, now)}} \cup {order[Len(order)].name}

ScanArtifacts ==
    LET entries == {[name |-> a, mtime |-> disk[a].mtime, size |-> SizeOfVersion(disk[a].version)] :
                       a \in DOMAIN disk}
    IN  /\ sweep.at = "scan"
        /\ IF entries = {}
             THEN sweep' = NoSweep
             ELSE \E order \in SetToSeqs(entries) :
                     /\ \A i \in 1..(Len(order) - 1) : order[i].mtime <= order[i + 1].mtime
                     /\ sweep' = [sweep EXCEPT !.at = "age", !.now = clock, !.rest = order,
                                               !.kept = (@ \cap DOMAIN disk) \cup Protected(order, clock)]
        /\ UNCHANGED <<version, clock, disk, cache, deliver, sourceLock, wanted>>

Recheck(a) == Recent(disk[a].mtime, sweep.now)

\* remove: the artifact is looked at again under its lock.  A recent one
\* stays, a missing one counts as removed, and the unlink may fail.
RemoveArtifact(i) ==
    LET a == sweep.rest[i].name IN
    \/ /\ a \in DOMAIN disk => ~Recheck(a)
       /\ disk' = Without(a) /\ sweep' = [sweep EXCEPT !.rest = RemoveAt(@, i), !.i = i]
    \/ /\ a \in DOMAIN disk /\ UNCHANGED disk
       /\ sweep' = [sweep EXCEPT !.i = i + 1, !.failed = TRUE]

TotalSize(es) == FoldLeft(LAMBDA n, e : n + e.size, 0, es)

OverCount == Len(sweep.rest) > CountMax
OverBytes == TotalSize(sweep.rest) > BytesMax

\* The three passes over the entries, oldest first.
Excess(e) ==
    CASE sweep.at = "age" -> e.mtime < sweep.now - AgeMax
      [] sweep.at = "count" -> OverCount
      [] sweep.at = "bytes" -> OverBytes

Removable ==
    {i \in sweep.i..Len(sweep.rest) : Excess(sweep.rest[i]) /\ sweep.rest[i].name \notin sweep.kept}

SweepEntry ==
    /\ sweep.at \in {"age", "count", "bytes"} /\ Removable # {}
    /\ RemoveArtifact(Min(Removable))
    /\ UNCHANGED <<version, clock, cache, deliver, sourceLock, wanted>>

SweepNextPass ==
    /\ sweep.at \in {"age", "count", "bytes"} /\ Removable = {}
    /\ sweep' = [sweep EXCEPT !.i = 1, !.at = CASE @ = "age" -> "count" [] @ = "count" -> "bytes" [] OTHER -> "end"]
    /\ UNCHANGED <<version, clock, disk, cache, deliver, sourceLock, wanted>>

SweepEnds ==
    /\ sweep.at = "end" /\ sweep' = NoSweep
    /\ UNCHANGED <<version, clock, disk, cache, deliver, sourceLock, wanted>>

ArtifactNext ==
    \/ ChangeSource \/ Tick \/ MaintainArtifacts
    \/ \E d \in Deliverer : \/ OpenSource(d) \/ CacheHit(d) \/ CacheMiss(d) \/ CopySnapshot(d)
                            \/ ScheduleRetention(d) \/ CheckSource(d) \/ Answer(d)
    \/ RetentionTop \/ ScanArtifacts \/ SweepEntry \/ SweepNextPass \/ SweepEnds

-----------------------------------------------------------------------------
ArtifactTypeOK ==
    /\ DOMAIN disk \subseteq Artifact /\ \A a \in DOMAIN disk : disk[a].mtime \in 0..clock
    /\ Len(cache) <= CacheItems /\ sweep.i \in 1..(Cardinality(Artifact) + 1)
    /\ wanted.dirty => wanted.running
    /\ sweep.at # "off" => wanted.running

\* "preserving the newest artifact", "recent grace": an artifact made or
\* touched for a caller is not deleted before its grace has passed, even by
\* a pass that scanned the directory before it was touched.
HandedOutStays ==
    \A a \in DOMAIN disk \ DOMAIN disk' :
      \/ clock - disk[a].mtime > Grace
      \/ \E d \in Deliverer : deliver[d].at = "check" /\ deliver[d].artifact = a

\* An artifact that is returned as final holds the version of the source
\* that was looked at, whoever changed the source meanwhile and whether it
\* was copied now or taken from the cache.
ReturnedIsSource ==
    \A d \in Deliverer :
        (deliver[d].at = "return" /\ deliver[d].artifact \in DOMAIN disk)
        => disk[deliver[d].artifact].version = deliver[d].stat

\* "Apply age/count/byte limits while preserving the newest artifact": a
\* pass leaves the newest, and what it could not have removed apart it ends
\* within the limits.
SweepEnforces ==
    (sweep.at = "end" /\ ~sweep.failed) =>
        /\ sweep.rest # <<>>
        /\ OverCount \/ OverBytes => \A i \in 1..Len(sweep.rest) : sweep.rest[i].name \in sweep.kept

\* Delivery is sound: a capture and a cursor show the stream, an artifact the
\* version of its source, and a sweep keeps what it must (deliver_stream,
\* deliver_file, ArtifactRetentionManager).
DeliverySound ==
    /\ OutputTypeOK /\ CaptureIsTheStream /\ CursorBetweenCharacters /\ CursorAdvances
    /\ ArtifactTypeOK /\ ReturnedIsSource /\ SweepEnforces
=============================================================================
