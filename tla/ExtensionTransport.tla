------------------------- MODULE ExtensionTransport -------------------------
(***************************************************************************)
(* The stdio transport of an extension (core/extensions/transport.py): how *)
(* the bytes of the child are cut into frames, the scan of their nesting,  *)
(* the bounded tail of stderr, the coalescing of notifications, and the    *)
(* three workers of bounded_stdio_transport with their shutdown.           *)
(*                                                                         *)
(* A byte is one of those the code tells apart: a newline, a carriage      *)
(* return, the characters of JSON that carry its nesting, a byte that is   *)
(* not UTF-8, and "x" for all others.                                      *)
(***************************************************************************)
EXTENDS Integers, Sequences, SequencesExt, FiniteSetsExt

CONSTANTS
    MaxFrame,       \* max_frame_bytes
    MaxDepth,       \* max_json_depth
    WireLen,        \* bytes the child has for its stdout
    ProbeLen,       \* bound on the texts whose nesting is scanned
    DrainMax,       \* max_bytes of the stderr tail
    StderrLen,      \* bytes the child has for its stderr
    WritesMax,      \* bound on the messages of the session
    NoteMax,        \* max_notifications
    PushMax         \* bound on the notifications pushed

Byte == {"x", "open", "bad", "cr", "nl"}
Symbol == {"x", "open", "close", "quote", "esc"}
Notification == {"tools", "resources", "other"}

VARIABLES
    wire, pos,      \* what the child writes to stdout, and how much of it has been read
    buffer,         \* BoundedByteFrameReader._buffer
    outAt, lines,   \* the stdout worker, and the frames it still has to send
    taken,          \* what the session has received
    probe,          \* a text whose nesting is scanned
    errAt, stderrRead, drain,      \* the stderr worker, bytes of stderr it has read, its tail
    inAt, writes,   \* the stdin worker, messages it has been given
    failed,         \* a worker has raised, which cancels the task that uses the transport
    lifetime,       \* where the transport is in its life
    provider,          \* the provider's process tree
    notes, coalesced, pushed       \* the coalescer: its queue, _coalesced_methods, notifications pushed

framingVars == <<wire, pos, buffer, outAt, lines, taken>>
lifeVars == <<errAt, stderrRead, drain, inAt, writes, failed, lifetime, provider>>
floodVars == <<notes, coalesced, pushed>>
stdioVars == <<framingVars, lifeVars, floodVars, probe>>

Error == <<"error">>

StdioInit ==
    /\ wire \in [1..WireLen -> Byte] /\ pos = 0
    /\ buffer = << >> /\ outAt = "read" /\ lines = << >> /\ taken = << >>
    /\ errAt = "read" /\ stderrRead = 0 /\ drain = << >>
    /\ inAt = "wait" /\ writes = 0 /\ failed = FALSE /\ lifetime = "open" /\ provider = "runs"
    /\ notes = << >> /\ coalesced = {} /\ pushed = 0
    /\ probe = << >>

(***************************************************************************)
(* Framing.                                                                *)
(***************************************************************************)

\* One character of scan_json_depth.
ScanSymbol(s, c) ==
    IF s.literal
    THEN IF s.escape THEN [s EXCEPT !.escape = FALSE]
                     ELSE [s EXCEPT !.escape = c = "esc", !.literal = c # "quote"]
    ELSE CASE c = "quote" -> [s EXCEPT !.literal = TRUE]
           [] c = "open" -> [s EXCEPT !.depth = @ + 1, !.most = IF @ > s.depth THEN @ ELSE s.depth + 1]
           [] c = "close" /\ s.depth > 0 -> [s EXCEPT !.depth = @ - 1]
           [] OTHER -> s

\* scan_json_depth: the greatest depth of a text; the scan is refused when it is over max_depth.
ScanDepth(text) ==
    FoldLeft(ScanSymbol, [literal |-> FALSE, escape |-> FALSE, depth |-> 0, most |-> 0], text).most

\* find(b"\n"), 0 when there is none
Newline(bytes) == IF \E i \in DOMAIN bytes : bytes[i] = "nl" THEN Min({i \in DOMAIN bytes : bytes[i] = "nl"}) ELSE 0

\* A line without the carriage return of its end.
Trimmed(line) == IF line # << >> /\ line[Len(line)] = "cr" THEN Front(line) ELSE line

\* Nothing is left of the line once it is stripped.
Blank(line) == ToSet(line) \subseteq {"cr"}

\* What the loop refuses a line for.
Refused(line) == Len(line) > MaxFrame \/ "bad" \in ToSet(line) \/ ScanDepth(line) > MaxDepth

\* The loop of feed_chunk: lines are cut off and checked one by one, an error drops them all.
Cut[bytes \in Seq(Byte)] ==
    LET n == Newline(bytes)
        line == Trimmed(SubSeq(bytes, 1, n - 1))
        rest == Cut[SubSeq(bytes, n + 1, Len(bytes))]
    IN  IF n = 0 THEN [done |-> << >>, rest |-> bytes, raised |-> Len(bytes) > MaxFrame]
        ELSE IF Len(line) > MaxFrame THEN [done |-> << >>, rest |-> << >>, raised |-> TRUE]
        ELSE IF Blank(line) THEN rest
        ELSE IF Refused(line) THEN [done |-> << >>, rest |-> << >>, raised |-> TRUE]
        ELSE [rest EXCEPT !.done = <<line>> \o @]

\* BoundedByteFrameReader.feed_chunk: the bytes are bounded before they are appended.
FeedChunk(chunk) ==
    LET n == Newline(chunk)
    IN  IF n = 0 THEN [done |-> << >>, rest |-> buffer \o chunk, raised |-> Len(buffer) + Len(chunk) > MaxFrame]
        ELSE IF Len(buffer) + n - 1 > MaxFrame THEN [done |-> << >>, rest |-> << >>, raised |-> TRUE]
        ELSE Cut[buffer \o chunk]

\* A version of the worker that sends what the chunk held before the error, and reads on.
OutgoingMore(fed) == fed.done

\* What the stdout worker sends for a chunk: its frames, or the error.
Outgoing(fed) == IF fed.raised THEN <<Error>> ELSE fed.done

\* The stdout worker's loop goes on unless the transport shuts down.
Again == IF lifetime = "open" THEN "read" ELSE "done"

\* The stdout worker reads a chunk and cuts it.
ReadChunk ==
    /\ outAt = "read" /\ lifetime # "killed" /\ pos < Len(wire)
    /\ \E n \in 1..(Len(wire) - pos) :
          LET fed == FeedChunk(SubSeq(wire, pos + 1, pos + n))
          IN  /\ pos' = pos + n
              /\ lines' = Outgoing(fed)
              /\ buffer' = IF fed.raised THEN << >> ELSE fed.rest
              /\ outAt' = IF lines' = << >> THEN Again ELSE "send"
    /\ UNCHANGED <<wire, taken, lifeVars>>

\* The session takes the frame the worker waits to hand over; after an error the worker ends.
TakeFrame ==
    /\ outAt = "send" /\ lifetime = "open"
    /\ taken' = Append(taken, Head(lines)) /\ lines' = Tail(lines)
    /\ outAt' = IF Head(lines) = Error THEN "done" ELSE IF lines' = << >> THEN Again ELSE "send"
    /\ UNCHANGED <<wire, pos, buffer, lifeVars>>

FramingNext == (ReadChunk \/ TakeFrame) /\ UNCHANGED <<floodVars, probe>>

\* Texts to scan.
ProbeNext ==
    /\ Len(probe) < ProbeLen
    /\ \E c \in Symbol : probe' = Append(probe, c)
    /\ UNCHANGED <<framingVars, lifeVars, floodVars>>

(***************************************************************************)
(* The life of the transport.                                              *)
(***************************************************************************)

\* The stdout worker: end of file, or the session has closed its end of the stream.
StdoutEnds ==
    /\ \/ outAt = "read" /\ (provider = "gone" \/ lifetime = "killed")
       \/ outAt = "send" /\ lifetime # "open"
    /\ outAt' = "done" /\ lines' = << >>
    /\ UNCHANGED <<wire, pos, buffer, taken, lifeVars>>

\* BoundedStderrDrain.feed_chunk: only the last bytes are kept.
Drained(bytes) == SubSeq(bytes, IF Len(bytes) > DrainMax THEN Len(bytes) - DrainMax + 1 ELSE 1, Len(bytes))

\* The stderr worker drains a chunk.
DrainChunk ==
    /\ errAt = "read" /\ lifetime # "killed" /\ stderrRead < StderrLen
    /\ \E n \in 1..(StderrLen - stderrRead) :
          /\ stderrRead' = stderrRead + n
          /\ drain' = Drained(drain \o [i \in 1..n |-> stderrRead + i])
    /\ errAt' = Again
    /\ UNCHANGED <<framingVars, inAt, writes, failed, lifetime, provider>>

StderrEnds ==
    /\ errAt = "read" /\ (provider = "gone" \/ lifetime = "killed")
    /\ errAt' = "done"
    /\ UNCHANGED <<framingVars, stderrRead, drain, inAt, writes, failed, lifetime, provider>>

\* The session hands a message to the stdin worker, which writes it in a thread.
StartWrite ==
    /\ inAt = "wait" /\ lifetime = "open" /\ writes < WritesMax
    /\ inAt' = "write" /\ writes' = writes + 1
    /\ UNCHANGED <<framingVars, errAt, stderrRead, drain, failed, lifetime, provider>>

\* The child reads the message: the thread returns in time.
WriteDone ==
    /\ inAt = "write" /\ provider = "runs"
    /\ inAt' = "wait"
    /\ UNCHANGED <<framingVars, errAt, stderrRead, drain, writes, failed, lifetime, provider>>

\* write_timeout passes.  The thread is not interrupted: the deadline is noticed when it returns,
\* if it is noticed at all.
WriteOverdue ==
    /\ inAt = "write" /\ inAt' = "late"
    /\ UNCHANGED <<framingVars, errAt, stderrRead, drain, writes, failed, lifetime, provider>>

LateWriteDone ==
    /\ inAt = "late" /\ provider = "runs"
    /\ \/ inAt' = "wait" /\ UNCHANGED failed
       \/ inAt' = "done" /\ failed' = TRUE
    /\ UNCHANGED <<framingVars, errAt, stderrRead, drain, writes, lifetime, provider>>

\* The stdin worker ends: its stream is closed, or the pipe is broken.
StdinEnds ==
    /\ \/ inAt = "wait" /\ lifetime # "open"
       \/ inAt \in {"write", "late"} /\ provider = "gone"
    /\ inAt' = "done"
    /\ UNCHANGED <<framingVars, errAt, stderrRead, drain, writes, failed, lifetime, provider>>

\* The child exits by itself.
ProviderExits ==
    /\ provider = "runs" /\ provider' = "gone"
    /\ UNCHANGED <<framingVars, errAt, stderrRead, drain, inAt, writes, failed, lifetime>>

\* The session is over, or cancelled: shutdown closes the streams and waits for the writer.
BeginShutdown ==
    /\ lifetime = "open" /\ lifetime' = "closing"
    /\ UNCHANGED <<framingVars, errAt, stderrRead, drain, inAt, writes, failed, provider>>

\* The writer is done, or shutdown_timeout has passed: the tree is killed and the pipes are closed.
KillTree ==
    /\ lifetime = "closing"
    /\ provider' = "gone" /\ lifetime' = "killed"
    /\ UNCHANGED <<framingVars, errAt, stderrRead, drain, inAt, writes, failed>>

\* The task group ends with its last worker.
LeaveTransport ==
    /\ lifetime = "killed" /\ outAt = "done" /\ errAt = "done" /\ inAt = "done"
    /\ lifetime' = "closed"
    /\ UNCHANGED <<framingVars, errAt, stderrRead, drain, inAt, writes, failed, provider>>

LifeNext ==
    /\ \/ ReadChunk \/ TakeFrame \/ StdoutEnds \/ DrainChunk \/ StderrEnds
       \/ StartWrite \/ WriteDone \/ WriteOverdue \/ LateWriteDone \/ StdinEnds
       \/ ProviderExits \/ BeginShutdown \/ KillTree \/ LeaveTransport
    /\ UNCHANGED <<floodVars, probe>>

\* The steps that neither the child nor the session has to take: the workers end, a failed worker
\* cancels the session, the timer of shutdown expires, the task group ends.  Each is taken at most once.
ShutdownStep ==
    /\ \/ StdoutEnds \/ StderrEnds \/ StdinEnds
       \/ failed /\ BeginShutdown
       \/ KillTree \/ LeaveTransport
    /\ UNCHANGED <<floodVars, probe>>

(***************************************************************************)
(* NotificationFloodCoalescer.                                             *)
(***************************************************************************)

\* deque(maxlen=...).append: the oldest one makes room.
Queued(queue, note) == IF Len(queue) < NoteMax THEN Append(queue, note) ELSE Append(Tail(queue), note)

\* push_message
PushMessage ==
    /\ pushed < PushMax /\ pushed' = pushed + 1
    /\ \E note \in Notification :
          IF note = "other" THEN notes' = Queued(notes, note) /\ UNCHANGED coalesced
          ELSE IF note \in coalesced THEN UNCHANGED <<notes, coalesced>>
          ELSE notes' = Queued(notes, note) /\ coalesced' = coalesced \cup {note}
    /\ UNCHANGED <<framingVars, lifeVars, probe>>

\* pop_notification: the marker goes with the last notification of its method.
PopNotification ==
    /\ notes # << >> /\ notes' = Tail(notes)
    /\ coalesced' = IF Head(notes) \in ToSet(notes') THEN coalesced ELSE coalesced \ {Head(notes)}
    /\ UNCHANGED <<framingVars, lifeVars, pushed, probe>>

FloodNext == PushMessage \/ PopNotification

(***************************************************************************)
(* Properties.                                                             *)
(***************************************************************************)

\* The types of the transport, with the bounds of its buffers: between two chunks the frame buffer
\* holds at most one permitted frame and no newline, and the stderr tail is the last of what was read.
StdioTypeOK ==
    /\ wire \in [1..WireLen -> Byte] /\ pos \in 0..WireLen
    /\ outAt \in {"read", "send", "done"} /\ errAt \in {"read", "done"}
    /\ inAt \in {"wait", "write", "late", "done"} /\ writes \in 0..WritesMax
    /\ lifetime \in {"open", "closing", "killed", "closed"} /\ provider \in {"runs", "gone"} /\ failed \in BOOLEAN
    /\ Len(buffer) <= MaxFrame /\ "nl" \notin ToSet(buffer)
    /\ drain = [i \in 1..Min({stderrRead, DrainMax}) |-> stderrRead - Min({stderrRead, DrainMax}) + i]
    /\ notes \in Seq(Notification) /\ Len(notes) <= NoteMax /\ coalesced \subseteq Notification \ {"other"}

\* The lines of the bytes read so far: the last one is not finished.
RawLines ==
    LET ends == {0} \cup {i \in 1..pos : wire[i] = "nl"}
        start(i) == Max({e \in ends : e < i})
    IN  [i \in (ends \ {0}) \cup {pos + 1} |-> SubSeq(wire, start(i) + 1, i - 1)]

\* The frames a reader without buffers and chunks would find.
LineFrames ==
    LET whole == {i \in DOMAIN RawLines : i <= pos /\ ~Blank(RawLines[i])}
    IN  [k \in 1..Cardinality(whole) |->
            Trimmed(RawLines[CHOOSE i \in whole : Cardinality({j \in whole : j <= i}) = k])]

\* Something of what has been read may be refused: a line too long for its bytes, not text, or too deep.
Offended ==
    \E i \in DOMAIN RawLines :
        Len(RawLines[i]) > MaxFrame \/ (i <= pos /\ ("bad" \in ToSet(RawLines[i]) \/ ScanDepth(RawLines[i]) > MaxDepth))

\* However the provider's bytes are cut into chunks, the session receives its lines, in order, none twice
\* and none torn; all of them as long as no error is reported; and an error, after which nothing comes,
\* is reported only when a line really breaks a limit (feed_chunk and stdout_worker).
FramesAreLines ==
    LET all == taken \o lines
        frames == SelectSeq(all, LAMBDA f : f # Error)
    IN  /\ IsPrefix(frames, LineFrames)
        /\ \A f \in ToSet(frames) : ~Refused(f)
        /\ \A i \in DOMAIN all : all[i] = Error => i = Len(all) /\ Offended
        /\ outAt = "read" => taken = LineFrames

\* The literals of a text: a quote outside every earlier literal begins one, and it ends at the first
\* quote after an even number of escapes.
LiteralEnd(text, i) ==
    LET escapes(j) == j - 1 - Max({k \in i..(j - 1) : k = i \/ text[k] # "esc"})
        ends == {j \in (i + 1)..Len(text) : text[j] = "quote" /\ escapes(j) % 2 = 0}
    IN  IF ends = {} THEN Len(text) + 1 ELSE Min(ends)

InLiteral(text) ==
    LET begins[i \in 1..Len(text)] ==
            text[i] = "quote" /\ \A j \in 1..(i - 1) : begins[j] => LiteralEnd(text, j) < i
    IN  {p \in 1..Len(text) : \E i \in 1..p : begins[i] /\ p <= LiteralEnd(text, i)}

\* The depth after the first n symbols is the excess of opening over closing brackets outside literals
\* since the last place where nothing was open.
Nesting(text, n) ==
    LET outside(b, from) == Cardinality({p \in from..n : text[p] = b /\ p \notin InLiteral(text)})
    IN  Max({outside("open", from) - outside("close", from) : from \in 1..(n + 1)})

\* The scan that guards the parser finds the true nesting of a text: brackets in literals, with their
\* escaped quotes, do not count, and brackets too many that close do not make room (scan_json_depth).
DepthIsNesting == ScanDepth(probe) = Max({Nesting(probe, n) : n \in 0..Len(probe)})

\* A catalog change is queued at most once, and while it is queued its marker is set, so that a flood of
\* changes neither fills the queue nor queues behind itself (push_message and pop_notification).
CoalescedOnce ==
    \A note \in Notification \ {"other"} :
        /\ Cardinality({i \in DOMAIN notes : notes[i] = note}) <= 1
        /\ note \in ToSet(notes) => note \in coalesced

\* A transport that is left, or whose writer failed, is closed in the end, even when the child never
\* reads its stdin nor closes a pipe: until it is closed one of the finitely many steps that need nobody
\* else can be taken, and then its tree and its workers are gone (bounded_stdio_transport, shutdown).
ShutdownProceeds ==
    /\ failed \/ lifetime \in {"closing", "killed"} => lifetime = "closed" \/ ENABLED ShutdownStep
    /\ lifetime = "closed" => provider = "gone" /\ {outAt, errAt, inAt} = {"done"}

\* The stdio transport is sound: frames are the lines of the wire, depth is
\* nesting, a flood of changes is coalesced, and a shutdown never waits for the
\* provider (transport.py).
StdioSound == StdioTypeOK /\ FramesAreLines /\ DepthIsNesting /\ CoalescedOnce /\ ShutdownProceeds
=============================================================================
