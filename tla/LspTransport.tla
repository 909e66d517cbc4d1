----------------------------- MODULE LspTransport ----------------------------
(***************************************************************************)
(* The connection to one language server (tools/language/transport.py,     *)
(* LspTransport): the owner thread sends requests and waits for their      *)
(* answers, a reader thread queues what the server writes, and the first   *)
(* failure of either is final.  A message of the server is the id of the   *)
(* request it answers, or Notice.  A server may answer a request twice,    *)
(* late, or not at all, and may exit at any moment.                        *)
(***************************************************************************)
EXTENDS Integers, Sequences, FiniteSets

CONSTANTS
    IdMax,          \* bound on the requests
    BoxMax,         \* messages queued (64)
    NoiseMax,       \* notices, and stale answers, one request may meet (256)
    WireMax         \* bound on the messages in the pipe

Notice == 0

VARIABLES
    lastId,         \* _last_id
    pending,        \* _pending, 0 when None
    heard,          \* requests the server has received
    wire,           \* the server's messages in the pipe
    box,            \* _messages
    notices, stale, \* _notifications, _stale
    failure,        \* _failure
    reading,        \* the reader thread runs
    eof,            \* _eof
    closing,        \* _closing
    alive,          \* the server runs
    receiving,      \* the owner is in receive()
    answers         \* history: <<request, answer taken for it, was the failure set>>

transportVars == <<lastId, pending, heard, wire, box, notices, stale, failure, reading, eof, closing, alive, receiving, answers>>

TransportInit ==
    /\ lastId = 0 /\ pending = 0 /\ heard = {} /\ wire = << >> /\ box = << >>
    /\ notices = 0 /\ stale = 0 /\ failure = "none" /\ reading = TRUE /\ eof = FALSE /\ closing = FALSE
    /\ alive = TRUE /\ receiving = FALSE /\ answers = {}

\* _fail: the first error stays, and the process tree is killed.
Fail(error) ==
    /\ failure' = IF failure = "none" THEN error ELSE failure
    /\ alive' = FALSE

\* _check_owner
Connected == failure = "none" /\ ~closing

\* begin_request and send: one request at a time, with increasing ids.
SendRequest ==
    /\ Connected /\ ~receiving /\ lastId < IdMax
    /\ pending = 0
    /\ lastId' = lastId + 1 /\ pending' = lastId'
    /\ notices' = 0 /\ stale' = 0
    /\ heard' = IF alive THEN heard \cup {lastId'} ELSE heard
    /\ receiving' = TRUE
    /\ UNCHANGED <<wire, box, failure, reading, eof, closing, alive, answers>>

\* The frame is too large or the pipe is broken.
SendFails ==
    /\ Connected /\ ~receiving /\ lastId < IdMax /\ pending = 0
    /\ lastId' = lastId + 1 /\ pending' = lastId'
    /\ notices' = 0 /\ stale' = 0
    /\ Fail("send")
    /\ UNCHANGED <<heard, wire, box, reading, eof, closing, receiving, answers>>

\* The server writes an answer, again or not, or a notice.
ServerWrites(m) ==
    /\ alive /\ Len(wire) < WireMax
    /\ m \in heard \cup {Notice}
    /\ wire' = Append(wire, m)
    /\ UNCHANGED <<lastId, pending, heard, box, notices, stale, failure, reading, eof, closing, alive, receiving, answers>>

ServerExits ==
    /\ alive /\ alive' = FALSE
    /\ UNCHANGED <<lastId, pending, heard, wire, box, notices, stale, failure, reading, eof, closing, receiving, answers>>

BoxFull == Len(box) >= BoxMax

\* _read: queue a message, or fail when the queue is full.
ReaderReads ==
    /\ ~closing /\ reading /\ wire # << >>
    /\ wire' = Tail(wire)
    /\ IF BoxFull \/ Head(wire) > lastId
       THEN Fail("queue") /\ box' = box /\ reading' = FALSE
       ELSE box' = Append(box, Head(wire)) /\ UNCHANGED <<failure, alive, reading>>
    /\ UNCHANGED <<lastId, pending, heard, notices, stale, eof, closing, receiving, answers>>

ReaderEnds ==
    /\ ~closing /\ reading /\ wire = << >> /\ ~alive
    /\ eof' = TRUE /\ reading' = FALSE
    /\ UNCHANGED <<lastId, pending, heard, wire, box, notices, stale, failure, closing, alive, receiving, answers>>

\* receive() takes the answer of the request that is pending.
TakeAnswer ==
    /\ receiving /\ failure = "none" /\ box # << >> /\ Head(box) = pending
    /\ box' = Tail(box) /\ pending' = 0 /\ receiving' = FALSE
    /\ answers' = answers \cup {<<pending, Head(box), failure>>}
    /\ UNCHANGED <<lastId, heard, wire, notices, stale, failure, reading, eof, closing, alive>>

\* receive() passes over an answer to an older request.
PassStale ==
    /\ receiving /\ failure = "none" /\ box # << >> /\ Head(box) \in 1 .. pending - 1
    /\ box' = Tail(box) /\ stale' = stale + 1
    /\ IF stale' > NoiseMax THEN Fail("noise") /\ receiving' = FALSE ELSE UNCHANGED <<failure, alive, receiving>>
    /\ UNCHANGED <<lastId, pending, heard, wire, notices, reading, eof, closing, answers>>

\* _notification, while the owner waits.
TakeNotice ==
    /\ receiving /\ failure = "none" /\ box # << >> /\ Head(box) = Notice
    /\ box' = Tail(box) /\ notices' = notices + 1
    /\ IF notices' > NoiseMax THEN Fail("noise") /\ receiving' = FALSE ELSE UNCHANGED <<failure, alive, receiving>>
    /\ UNCHANGED <<lastId, pending, heard, wire, stale, reading, eof, closing, answers>>

\* receive() raises: cancelled, out of time, failed, or nothing left to read.
GiveUp ==
    /\ receiving
    /\ receiving' = FALSE
    /\ UNCHANGED <<lastId, pending, heard, wire, box, notices, stale, failure, reading, eof, closing, alive, answers>>

\* close(): the process dies, and the reader is joined.
CloseTransport ==
    /\ ~closing /\ ~receiving
    /\ closing' = TRUE /\ alive' = FALSE
    /\ UNCHANGED <<lastId, pending, heard, wire, box, notices, stale, failure, reading, eof, receiving, answers>>

TransportNext ==
    \/ SendRequest \/ SendFails \/ ServerExits \/ ReaderReads \/ ReaderEnds \/ TakeAnswer \/ PassStale
    \/ TakeNotice \/ GiveUp \/ CloseTransport
    \/ \E m \in 0 .. IdMax : ServerWrites(m)

TransportSpec == TransportInit /\ [][TransportNext]_transportVars
-----------------------------------------------------------------------------
\* The type of the connection, with its bounded queue.
TransportTypeOK ==
    /\ lastId \in 0 .. IdMax /\ pending \in 0 .. lastId /\ heard \subseteq 1 .. lastId
    /\ wire \in Seq(0 .. IdMax) /\ box \in Seq(0 .. IdMax) /\ Len(box) <= BoxMax
    /\ notices \in 0 .. NoiseMax + 1 /\ stale \in 0 .. NoiseMax + 1
    /\ failure \in {"none", "send", "queue", "noise"}
    /\ {reading, eof, closing, alive, receiving} \subseteq BOOLEAN

\* An answer is taken for the request it answers, and for no other, though
\* the server may answer twice or after the owner gave up (receive).
AnswersMatch == \A a \in answers : a[1] = a[2]

\* A request the owner gave up stays pending: nothing is sent after it,
\* whose answer could be taken for the next one's (send).
OneOutstanding == Cardinality(heard \ {a[1] : a \in answers}) <= 1

\* The connection to a server pairs answers with their requests, one at a time
\* (send, receive).
TransportSound == TransportTypeOK /\ AnswersMatch /\ OneOutstanding
=============================================================================
