---------------------------- MODULE FileReading -----------------------------
(***************************************************************************)
(* How callers read files: windows of text in pages, the pages of a stored *)
(* search result, and batches of bounded reads.                            *)
(***************************************************************************)
EXTENDS Integers, Sequences, FiniteSets, FiniteSetsExt

-----------------------------------------------------------------------------
(***************************************************************************)
(* _read_text_window of tools/filesystem/service.py: a range of lines is   *)
(* read in fragments of bounded length and returned in pages, and the      *)
(* caller asks for the next page with next_offset until there is none.     *)
(*                                                                         *)
(* A character is "a", a carriage return "r" or a line feed "n".           *)
(***************************************************************************)

CONSTANTS
    MaxText,        \* bound on the length of a text
    MaxLine,        \* bound on the line numbers wanted for
    Chunk,          \* chunk_size
    MaxChars        \* the values of max_chars

VARIABLES
    text,       \* the file
    wanted,      \* [start, end, limit]: start_line, end_line, max_chars
    offset,     \* of the page being read
    position,   \* characters the handle has returned
    skip,       \* remaining_offset
    pending,    \* the character read ahead, or none
    line,       \* current_line
    piece,      \* the characters captured for this page
    collected,  \* the pages returned, concatenated
    going       \* "reading", "page" (at the end of a page), "end"

windowVars == <<text, wanted, offset, position, skip, pending, line, piece, collected, going>>

Char == {"a", "r", "n"}

WindowInit ==
    /\ text \in UNION {[1 .. n -> Char] : n \in 0 .. MaxText}
    /\ wanted \in [start : 1 .. MaxLine, end : 1 .. MaxLine, limit : MaxChars]
    /\ wanted.start <= wanted.end
    /\ offset = 0 /\ position = 0 /\ skip = 0 /\ pending = <<>> /\ line = 1
    /\ piece = <<>> /\ collected = <<>> /\ going = "reading"

\* Universal newlines, untranslated.
EndsLine(i) == text[i] = "n" \/ (text[i] = "r" /\ (i < Len(text) => text[i + 1] # "n"))

\* handle.readline(size) from a position: up to a line end, at most size characters.
ReadlineEnd(from, size) ==
    LET stops == {i \in from + 1 .. Len(text) : EndsLine(i) \/ i = from + size \/ i = Len(text)}
    IN  IF stops = {} THEN from ELSE CHOOSE i \in stops : \A j \in stops : i <= j

\* A fragment: the character read ahead and the rest of its line.
Fragment == pending \o SubSeq(text, position + 1, ReadlineEnd(position, Chunk - Len(pending)))

EndsWith(s, set) == s # <<>> /\ s[Len(s)] \in set
Least(m, n) == IF m <= n THEN m ELSE n
Take(s, n) == SubSeq(s, 1, Least(n, Len(s)))


\* One character more than the limit shows that there is more.
Room == wanted.limit + 1 - Len(piece)

\* The loop is left before the end of the file.
BeyondRange == line > wanted.end

\* One fragment: a trailing carriage return takes a following line feed along.
ReadFragment ==
    /\ going = "reading" /\ ~BeyondRange /\ Fragment # <<>>
    /\ LET stop == ReadlineEnd(position, Chunk - Len(pending))
           next == SubSeq(text, stop + 1, Least(stop + 1, Len(text)))
           returns == EndsWith(Fragment, {"r"})
           fragment == IF returns /\ next = <<"n">> THEN Fragment \o next ELSE Fragment
           dropped == IF line >= wanted.start THEN Least(Len(fragment), skip) ELSE 0
           rest == IF line >= wanted.start THEN SubSeq(fragment, dropped + 1, Len(fragment)) ELSE <<>>
       IN  /\ position' = IF returns THEN stop + Len(next) ELSE stop
           /\ pending' = IF returns /\ next # <<"n">> THEN next ELSE <<>>
           /\ skip' = skip - dropped
           /\ piece' = piece \o Take(rest, Room)
           /\ going' = IF Len(piece') > wanted.limit THEN "page" ELSE "reading"
           /\ line' = IF EndsWith(fragment, {"r", "n"}) THEN line + 1 ELSE line
    /\ UNCHANGED <<text, wanted, offset, collected>>

\* The range or the file ends, or the page is full: it is returned.
ReturnPage ==
    /\ going = "page" \/ (going = "reading" /\ (BeyondRange \/ Fragment = <<>>))
    /\ collected' = collected \o Take(piece, wanted.limit)
    /\ IF Len(piece) > wanted.limit
       THEN \* The caller asks for the next page.
            /\ offset' = offset + wanted.limit /\ skip' = offset'
            /\ position' = 0 /\ pending' = <<>> /\ line' = 1 /\ piece' = <<>>
            /\ going' = "reading"
       ELSE going' = "end" /\ UNCHANGED <<offset, position, skip, pending, line, piece>>
    /\ UNCHANGED <<text, wanted>>

WindowNext == ReadFragment \/ ReturnPage

\* The line a character is in.
LineOf(i) == 1 + Cardinality({j \in 1 .. i - 1 : text[j] = "n" \/ (text[j] = "r" /\ text[j + 1] # "n")})

\* Two carriage returns in a row and no line feed: the second is counted with
\* the line that follows it.
DoubleReturn ==
    \E i \in 1 .. Len(text) - 1 :
        text[i] = "r" /\ text[i + 1] = "r" /\ (i + 2 <= Len(text) => text[i + 2] # "n")
-----------------------------------------------------------------------------
(***************************************************************************)
(* The pages, one after the other, are exactly the lines asked for: none   *)
(* of their characters is lost or repeated where a page or a fragment      *)
(* ends, also between a carriage return and its line feed.                 *)
(***************************************************************************)
PagesAreTheLines ==
    going = "end" /\ ~DoubleReturn =>
        LET inRange == {i \in 1 .. Len(text) : LineOf(i) \in wanted.start .. wanted.end}
        IN  /\ Len(collected) = Cardinality(inRange)
            /\ \A i \in inRange :
                  collected[Cardinality({j \in inRange : j <= i})] = text[i]

-----------------------------------------------------------------------------
(***************************************************************************)
(* SearchSnapshotStore (tools/filesystem/search_snapshots.py) and the      *)
(* search_files calls that page through it: each search stores its result  *)
(* list once, and its caller follows the cursors, with any page size, while*)
(* other searches create snapshots, the quota evicts, time passes and      *)
(* files are cut short.  Every method of the store runs under its lock; a  *)
(* search creates its snapshot and reads the first page in two calls.      *)
(*                                                                         *)
(* The rows of a result are numbers; a file has one byte per row and one   *)
(* for its header.                                                         *)
(***************************************************************************)

CONSTANTS
    Searcher,       \* callers; each searches with parameters of its own
    Rows,           \* searcher -> the number of rows it finds
    MaxFiles,       \* max_count
    MaxBytes,       \* max_bytes
    Ttl,            \* ttl_sec
    MaxNow,         \* bound on the clock
    PageSize        \* the values of max_results

VARIABLES
    created,    \* searcher -> created_at of its snapshot file, -1 when there is none
    readable,   \* searcher -> the rows that can be read, -1 when not even the header can
    now,        \* the clock
    cursor,     \* searcher -> the offset of the cursor it holds
    pages,      \* searcher -> the rows it has collected
    search      \* searcher -> "new", "created", "paging", "complete", "lost", "refused"

snapshotVars == <<created, readable, now, cursor, pages, search>>

Files == {s \in Searcher : created[s] >= 0}
Size(s) == Rows[s] + 1
Expired(s) == created[s] + Ttl <= now

SnapshotsInit ==
    /\ created = [s \in Searcher |-> -1]
    /\ readable = [s \in Searcher |-> Rows[s]]
    /\ now = 0
    /\ cursor = [s \in Searcher |-> 0]
    /\ pages = [s \in Searcher |-> <<>>]
    /\ search = [s \in Searcher |-> "new"]

Clock == now < MaxNow /\ now' = now + 1 /\ UNCHANGED <<created, readable, cursor, pages, search>>

\* A file is cut short by something else.
CutShort(s) ==
    /\ s \in Files
    /\ \E n \in -1 .. Rows[s] - 1 : n < readable[s] /\ readable' = [readable EXCEPT ![s] = n]
    /\ UNCHANGED <<created, now, cursor, pages, search>>

\* _cleanup_expired_locked, sparing s: expired and unreadable files go.
Current(s) == {x \in Files \cup {s} : x = s \/ (readable[x] >= 0 /\ ~Expired(x))}

Fits(some) == Cardinality(some) <= MaxFiles /\ MapThenSumSet(Size, some) <= MaxBytes

\* _enforce_quota_locked: the oldest go one by one, s never, until the rest fits.
Evicted(s, some, kept) ==
    /\ s \in kept /\ Fits(kept)
    /\ \A x \in kept \ {s}, y \in some \ kept : created[x] >= created[y]
    /\ kept # some => \E y \in some \ kept : /\ ~Fits(kept \cup {y})
                                             /\ \A z \in some \ kept : created[z] <= created[y]

Keep(kept) == [x \in Searcher |-> IF x \in kept THEN created[x] ELSE -1]

\* create: a search stores its rows, unless they are too many.
Create(s) ==
    /\ search[s] = "new"
    /\ IF Size(s) > MaxBytes
       THEN /\ created' = Keep({x \in Files : readable[x] >= 0 /\ ~Expired(x)})
            /\ search' = [search EXCEPT ![s] = "refused"]
       ELSE /\ \E kept \in SUBSET Current(s) :
                 /\ Evicted(s, Current(s), kept)
                 /\ created' = [Keep(kept) EXCEPT ![s] = now]
            /\ search' = [search EXCEPT ![s] = "created"]
    /\ UNCHANGED <<readable, now, cursor, pages>>

Row(s, i) == <<s, i>>

\* The rows of the file from the cursor on, at most limit of them.
PageOf(s, limit) ==
    [i \in 1 .. Min({limit, Max({0, readable[s] - cursor[s]})}) |-> Row(s, cursor[s] + i)]

\* The page has as many rows as the header declares.
Whole(s, limit) == Len(PageOf(s, limit)) = Min({limit, Rows[s] - cursor[s]})

\* read_page: the rows from the cursor on, and the cursor of the next page;
\* a file that is gone, expired or cut short ends the paging.
ReadPage(s, limit) ==
    /\ search[s] \in {"created", "paging"}
    /\ IF s \in Files /\ readable[s] >= 0 /\ ~Expired(s) /\ Whole(s, limit)
       THEN /\ pages' = [pages EXCEPT ![s] = @ \o PageOf(s, limit)]
            /\ cursor' = [cursor EXCEPT ![s] = @ + Len(PageOf(s, limit))]
            /\ search' = [search EXCEPT ![s] =
                           IF cursor'[s] < Rows[s] THEN "paging" ELSE "complete"]
            /\ created' = Keep(Current(s))
       ELSE /\ search' = [search EXCEPT ![s] = "lost"]
            /\ created' = [created EXCEPT ![s] = -1]
            /\ UNCHANGED <<pages, cursor>>
    /\ UNCHANGED <<readable, now>>

SnapshotsNext ==
    \/ Clock
    \/ \E s \in Searcher : CutShort(s) \/ Create(s) \/ \E limit \in PageSize : ReadPage(s, limit)
-----------------------------------------------------------------------------
(***************************************************************************)
(* Following the cursors yields the rows of the caller's own search, in    *)
(* their order, none twice and none left out, with any mix of page sizes   *)
(* and whatever happens to the store: "complete" is said only when all of  *)
(* them have come.                                                         *)
(***************************************************************************)
PagesConsistent ==
    \A s \in Searcher :
        /\ pages[s] = [i \in 1 .. Len(pages[s]) |-> Row(s, i)]
        /\ search[s] = "complete" => Len(pages[s]) = Rows[s]

(***************************************************************************)
(* After every call the stored snapshots fit the quotas on number and      *)
(* bytes.                                                                  *)
(***************************************************************************)
SnapshotQuota == Cardinality(Files) <= MaxFiles /\ MapThenSumSet(Size, Files) <= MaxBytes

(***************************************************************************)
(* A search whose snapshot was stored loses it only to age, damage, or to  *)
(* newer searches that need its room: never to its own creation, and a     *)
(* newer snapshot is not evicted before an older one.                      *)
(***************************************************************************)
EvictsOldest ==
    \A x \in Files : created'[x] = -1 /\ readable[x] = Rows[x] /\ ~Expired(x) =>
      \A y \in Files : created'[y] # -1 => created[y] >= created[x]

-----------------------------------------------------------------------------
(***************************************************************************)
(* BatchReader (tools/filesystem/batch.py) and the bounded read it makes   *)
(* (_open_contained and _bounded_window, service.py): batches, their       *)
(* worker threads, the claim store they share, the lifetimes that start    *)
(* begins and stop and close end, and a file that is rewritten in place or *)
(* replaced while it is read.                                              *)
(*                                                                         *)
(* A batch has one item here.  Cancellation, deadlines, refusals of the    *)
(* preflight and of the claims are a failure that may come at every step;  *)
(* _thread outlasts the cancellation of its caller, so a batch ends only   *)
(* after its thread.                                                       *)
(***************************************************************************)

CONSTANTS
    Batch,          \* calls of native_read_batch
    MaxBatches,     \* the limit on admitted batches
    ReadSlots,      \* _read_slots
    MaxLives,       \* bound on start
    MaxWrites       \* bound on changes of the file

VARIABLES
    open,       \* ~_closed
    lives,      \* _generation
    starting,   \* start is between its two sections and holds _claim_store_lock
    store,      \* _claim_store is there
    closeAsked,      \* the generation close was last called in
    closers,    \* the generations of the _close_store calls to come
    batch,      \* batch -> "new", "entered", "admitted", "done"
    life,       \* batch -> the generation it noted
    read,       \* batch -> where its read is
    source,     \* batch -> the object it opened and the identity it noted
    pieces,     \* batch -> the versions its pieces are of
    path,       \* the object the path names
    written     \* object -> its version

batchVars == <<open, lives, starting, store, closeAsked, closers, batch, life, read, source, pieces,
               path, written>>
lifeVars == <<open, lives, starting, closeAsked, closers>>
sourceVars == <<path, written>>

ActiveBatches == {b \in Batch : batch[b] = "admitted"}
Reading == {b \in Batch : read[b] \in {"run", "claimed", "opened", "part", "read"}}

BatchInit ==
    /\ open = TRUE /\ lives = 0 /\ starting = FALSE /\ store = FALSE /\ closeAsked = -1 /\ closers = {}
    /\ batch = [b \in Batch |-> "new"]
    /\ life = [b \in Batch |-> 0]
    /\ read = [b \in Batch |-> "none"]
    /\ source = [b \in Batch |-> <<0, 0>>]
    /\ pieces = [b \in Batch |-> <<>>]
    /\ path = 0
    /\ written = [o \in 0 .. MaxWrites |-> 0]

\* start: batches of the old lifetime refuse it; the old store is closed.
StartReader ==
    /\ lives < MaxLives /\ ~starting /\ ActiveBatches = {}
    /\ starting' = TRUE /\ open' = FALSE /\ store' = FALSE
    /\ UNCHANGED <<lives, closeAsked, closers, batch, life, read, source, pieces, sourceVars>>

\* Its second section.
StartedReader ==
    /\ starting
    /\ starting' = FALSE /\ open' = TRUE /\ lives' = lives + 1
    /\ UNCHANGED <<store, closeAsked, closers, batch, life, read, source, pieces, sourceVars>>

\* stop.
StopReader ==
    /\ open /\ open' = FALSE
    /\ UNCHANGED <<lives, starting, store, closeAsked, closers, batch, life, read, source, pieces, sourceVars>>

\* close, after its stop: the store is left to the last batch.
CloseReader ==
    /\ ~open /\ ~starting /\ closeAsked # lives
    /\ closeAsked' = lives
    /\ closers' = IF ActiveBatches = {} THEN closers \cup {lives} ELSE closers
    /\ UNCHANGED <<open, lives, starting, store, batch, life, read, source, pieces, sourceVars>>

\* The condition of _close_store, under both locks.
Closable(g) == g = lives /\ ~open /\ ActiveBatches = {}

\* _close_store.
CloseStore(g) ==
    /\ g \in closers /\ ~starting
    /\ closers' = closers \ {g}
    /\ store' = (store /\ ~Closable(g))
    /\ UNCHANGED <<open, lives, starting, closeAsked, batch, life, read, source, pieces, sourceVars>>
-----------------------------------------------------------------------------
\* execute notes the generation and awaits _eligible.
EnterBatch(b) ==
    /\ batch[b] = "new" /\ open
    /\ batch' = [batch EXCEPT ![b] = "entered"]
    /\ life' = [life EXCEPT ![b] = lives]
    /\ UNCHANGED <<lifeVars, store, read, source, pieces, sourceVars>>

Admissible(b) == open /\ life[b] = lives /\ Cardinality(ActiveBatches) < MaxBatches

\* Admission under the lock.
AdmitBatch(b) ==
    /\ batch[b] = "entered"
    /\ IF Admissible(b)
       THEN batch' = [batch EXCEPT ![b] = "admitted"] /\ read' = [read EXCEPT ![b] = "wait"]
       ELSE batch' = [batch EXCEPT ![b] = "done"] /\ UNCHANGED read
    /\ UNCHANGED <<lifeVars, store, life, source, pieces, sourceVars>>

ReadMoves(b, from, to) ==
    /\ read[b] = from /\ read' = [read EXCEPT ![b] = to]
    /\ UNCHANGED <<lifeVars, batch, life, sourceVars>>

\* consume: the read takes a slot and its thread starts.
TakeSlot(b) ==
    /\ Cardinality(Reading) < ReadSlots
    /\ ReadMoves(b, "wait", "run") /\ UNCHANGED <<store, source, pieces>>

\* _store, and the claims: the store is opened when there is none.
ClaimRead(b) ==
    /\ open /\ ~starting
    /\ ReadMoves(b, "run", "claimed") /\ store' = TRUE /\ UNCHANGED <<source, pieces>>

\* _open_contained, the reader still open.
OpenFile(b) ==
    /\ open
    /\ ReadMoves(b, "claimed", "opened")
    /\ source' = [source EXCEPT ![b] = <<path, 0>>]
    /\ UNCHANGED <<store, pieces>>

\* The identities of the path and of the open file agree; the first piece.
ReadPiece(b) ==
    /\ path = source[b][1]
    /\ ReadMoves(b, "opened", "part")
    /\ source' = [source EXCEPT ![b][2] = written[path]]
    /\ pieces' = [pieces EXCEPT ![b] = <<written[path]>>]
    /\ UNCHANGED store

\* The last piece.
ReadRest(b) ==
    /\ ReadMoves(b, "part", "read")
    /\ pieces' = [pieces EXCEPT ![b] = Append(@, written[source[b][1]])]
    /\ UNCHANGED <<store, source>>

\* Mutant: the identity of the open file is not taken again.
SameFilePath(b) == path = source[b][1]

\* The identities of the open file and of the path are what they were.
SameFile(b) == path = source[b][1] /\ written[path] = source[b][2]

\* The read leaves its slot, and what it has read is its own no more.
LeaveRead(b, from, to) ==
    /\ ReadMoves(b, from, to)
    /\ source' = [source EXCEPT ![b] = <<0, 0>>]
    /\ pieces' = [pieces EXCEPT ![b] = <<>>]
    /\ UNCHANGED store

\* The window is returned.
EndRead(b) == SameFile(b) /\ LeaveRead(b, "read", "good")

\* A failure, a refusal, a deadline or a cancellation.
FailRead(b) == read[b] \notin {"none", "good", "bad"} /\ LeaveRead(b, read[b], "bad")

Settled(b) == read[b] \in {"good", "bad"}

LastOut(b) == ~open /\ ActiveBatches = {b}

\* The end of execute: the last batch of a closed reader closes the store.
EndBatch(b) ==
    /\ batch[b] = "admitted" /\ Settled(b)
    /\ batch' = [batch EXCEPT ![b] = "done"]
    /\ closers' = IF LastOut(b) THEN closers \cup {life[b]} ELSE closers
    /\ UNCHANGED <<open, lives, starting, store, closeAsked, life, read, source, pieces, sourceVars>>

\* Another writer: in place, or a new file under the path.
WriteFile ==
    /\ \/ written[path] < MaxWrites /\ written' = [written EXCEPT ![path] = @ + 1] /\ UNCHANGED path
       \/ path < MaxWrites /\ path' = path + 1 /\ UNCHANGED written
    /\ UNCHANGED <<lifeVars, store, batch, life, read, source, pieces>>

BatchNext ==
    \/ StartReader \/ StartedReader \/ StopReader \/ CloseReader \/ WriteFile
    \/ \E g \in closers : CloseStore(g)
    \/ \E b \in Batch : \/ EnterBatch(b) \/ AdmitBatch(b) \/ TakeSlot(b) \/ ClaimRead(b)
                        \/ OpenFile(b) \/ ReadPiece(b) \/ ReadRest(b) \/ EndRead(b) \/ FailRead(b)
                        \/ EndBatch(b)
-----------------------------------------------------------------------------
(***************************************************************************)
(* The claim store is never closed under a thread that holds claims in it, *)
(* through stop, close and start during a read; and a batch works in the   *)
(* lifetime it was called in.                                              *)
(***************************************************************************)
StoreHeld ==
    /\ \A b \in Batch : read[b] \in {"claimed", "opened", "part", "read"} => store
    /\ \A b \in ActiveBatches : life[b] = lives

(***************************************************************************)
(* Whoever comes last, close or the last batch, closes the store: a closed *)
(* reader at rest holds none.                                              *)
(***************************************************************************)
StoreReleased ==
    ~open /\ ~starting /\ closeAsked = lives /\ ActiveBatches = {} /\ closers = {} => ~store

(***************************************************************************)
(* A successful read returns one version of the file, all of it, and it is *)
(* the file the path names at that moment.                                 *)
(***************************************************************************)
ReadsOneVersion ==
    \A b \in Batch : read[b] = "read" /\ read'[b] = "good" =>
      pieces[b] = <<written[path], written[path]>> /\ source[b][1] = path

=============================================================================
