-------------------------- MODULE LanguageDocuments --------------------------
(***************************************************************************)
(* The documents a language session keeps open in its server               *)
(* (tools/language/sessions.py), with the published diagnostics the        *)
(* transport retains for them (tools/language/transport.py).  The owner    *)
(* thread serves one request at a time: it reads the file the request      *)
(* names and sends what changed, refreshes every other open document,      *)
(* dispatches, and verifies every document against the disk before it      *)
(* answers.  Other programs write the files at any moment.                 *)
(*                                                                         *)
(* The server reads its input in order and nothing else is sent while the  *)
(* owner waits, so what it has open changes with the message sent.  What   *)
(* it publishes travels through the pipe, then through the reader thread's *)
(* queue.                                                                  *)
(***************************************************************************)
EXTENDS Integers, FiniteSets, Sequences, SequencesExt, Functions

CONSTANTS
    Uri,            \* files of the workspace
    Content,        \* what a file may contain
    Missing,        \* content of a file that is not there
    DocSize,        \* content -> its bytes
    DocMax,         \* documents a session keeps open (16)
    DocBytesMax,    \* bytes of all of them (_MAX_DOCUMENT_TOTAL_BYTES)
    WriteMax,       \* bound on the writes of other programs
    AskMax,         \* bound on the requests
    PipeMax         \* bound on the publications in the pipe and in the queue

VARIABLES
    disk,           \* uri -> content
    docs,           \* session.documents: uri -> [sha, version]
    docBytes,       \* session.document_bytes
    lru,            \* the open uris by last_used, oldest first
    view,           \* what the server has open: uri -> [sha, version]
    pipe,           \* publications the reader has not read
    inbox,          \* _messages: publications read and not consumed
    diag,           \* _diagnostics: uri -> the publication kept
    docStep,        \* where the owner is
    subject,        \* the document the owner is preparing
    asked,          \* the document the request names
    text,           \* what the owner read from the disk
    todo,           \* documents still to refresh or to verify
    evidence,       \* documents of the reply
    since,          \* history: uri -> contents on disk since the dispatch
    outcome,        \* how the last request ended
    writes, asks    \* bounded counts

docData == <<docs, docBytes, lru, view, inbox, diag>>
documentsVars == <<disk, docData, pipe, docStep, subject, asked, text, todo, evidence, since,
                   outcome, writes, asks>>

Open == DOMAIN docs

DocumentsInit ==
    /\ disk \in [Uri -> Content]
    /\ docs = << >> /\ docBytes = 0 /\ lru = << >> /\ view = << >>
    /\ pipe = << >> /\ inbox = << >> /\ diag = << >>
    /\ docStep = "idle" /\ subject = (CHOOSE u \in Uri : TRUE) /\ asked = subject /\ text = Missing
    /\ todo = {} /\ evidence = << >>
    /\ since = [u \in Uri |-> {}]
    /\ outcome = "none" /\ writes = 0 /\ asks = 0

Without(f, u) == Restrict(f, DOMAIN f \ {u})
With(f, u, v) == [x \in DOMAIN f \cup {u} |-> IF x = u THEN v ELSE f[x]]

DroppedFrom(box, u) == SelectSeq(box, LAMBDA p : p.uri # u)

\* track_document: what was published of u before is dropped, from the
\* retained diagnostics and from the queue.
TrackDocument(u) ==
    /\ diag' = Without(diag, u)
    /\ inbox' = DroppedFrom(inbox, u)

\* _remove_document: didClose, and the document is forgotten.
RemoveDocument(u) ==
    /\ docs' = Without(docs, u)
    /\ docBytes' = docBytes - DocSize[docs[u].sha]
    /\ lru' = SelectSeq(lru, LAMBDA x : x # u)
    /\ view' = Without(view, u)
    /\ TrackDocument(u)

\* The next request: _prepare_documents begins with the document it names.
Ask(u) ==
    /\ docStep = "idle" /\ asks < AskMax
    /\ asks' = asks + 1
    /\ docStep' = "read" /\ subject' = u /\ asked' = u /\ todo' = {} /\ outcome' = "none"
    /\ UNCHANGED <<disk, docData, pipe, text, evidence, since, writes>>

\* The request ends with a document error; the session goes on.
Refuse ==
    /\ docStep' = "idle" /\ outcome' = "error" /\ todo' = {}
    /\ UNCHANGED <<disk, pipe, subject, asked, text, evidence, since, writes, asks>>

\* After a document: the next one that is open, or the dispatch.
Onward(rest) ==
    IF rest = {} THEN docStep' = "dispatch" /\ subject' = subject /\ todo' = {}
    ELSE \E u \in rest : docStep' = "read" /\ subject' = u /\ todo' = rest \ {u}
Rest(open) == IF subject = asked THEN open \ {asked} ELSE todo

MovedToEnd(u) == SelectSeq(lru, LAMBDA x : x # u) \o <<u>>

\* _disk_document and what does not send: a missing file is closed and
\* refused, a file with the digest it had is only marked as used.
ReadDocument ==
    /\ docStep = "read"
    /\ \/ /\ disk[subject] = Missing
          /\ IF subject \in Open THEN RemoveDocument(subject) ELSE UNCHANGED docData
          /\ Refuse
       \/ /\ disk[subject] # Missing
          /\ subject \in Open /\ docs[subject].sha = disk[subject]
          /\ lru' = IF subject = asked THEN MovedToEnd(subject) ELSE lru
          /\ Onward(Rest(Open))
          /\ UNCHANGED <<disk, docs, docBytes, view, inbox, diag, pipe, asked, text, evidence, since,
                         outcome, writes, asks>>
       \/ /\ disk[subject] # Missing
          /\ ~(subject \in Open /\ docs[subject].sha = disk[subject])
          /\ docStep' = "fit" /\ text' = disk[subject]
          /\ UNCHANGED <<disk, docData, pipe, subject, asked, todo, evidence, since, outcome, writes, asks>>

\* The file changed under three reads, is too large, is not UTF-8, or the
\* position of the request is not in it.
ReadFails ==
    /\ docStep = "read"
    /\ UNCHANGED docData
    /\ Refuse

OldSize(u) == IF u \in Open THEN DocSize[docs[u].sha] ELSE 0
Crowded ==
    \/ Cardinality(Open \cup {subject}) > DocMax
    \/ docBytes - OldSize(subject) + DocSize[text] > DocBytesMax

\* What a refresh may not close: the documents open when it began.  The
\* primary document protects none.
Candidates == IF subject = asked THEN {i \in DOMAIN lru : lru[i] # subject} ELSE {}

Evict ==
    /\ docStep = "fit" /\ Crowded
    /\ \/ /\ Candidates = {}
          /\ UNCHANGED docData
          /\ Refuse
       \/ /\ Candidates # {}
          /\ RemoveDocument(lru[CHOOSE i \in Candidates : \A j \in Candidates : i <= j])
          /\ UNCHANGED <<disk, pipe, docStep, subject, asked, text, todo, evidence, since, outcome, writes, asks>>

\* didOpen, didChange, or didClose and didOpen for a server without changes.
Send ==
    /\ docStep = "fit" /\ ~Crowded
    /\ LET doc == [sha |-> text, version |-> IF subject \in Open THEN docs[subject].version + 1 ELSE 1]
       IN  /\ docs' = With(docs, subject, doc)
           /\ view' = With(view, subject, doc)
    /\ docBytes' = docBytes - OldSize(subject) + DocSize[text]
    /\ lru' = IF subject = asked \/ subject \notin Open THEN MovedToEnd(subject) ELSE lru
    /\ TrackDocument(subject)
    /\ Onward(Rest(Open \cup {subject}))
    /\ UNCHANGED <<disk, pipe, asked, text, evidence, since, outcome, writes, asks>>

\* The request goes out with the documents that are open, or the caller
\* cancelled, or its deadline passed, while they were prepared.
Dispatch ==
    /\ docStep = "dispatch"
    /\ \/ /\ docStep' = "waiting" /\ evidence' = docs
          /\ since' = [u \in Uri |-> {disk[u]}]
          /\ UNCHANGED <<disk, docData, pipe, subject, asked, text, todo, outcome, writes, asks>>
       \/ /\ UNCHANGED docData
          /\ Refuse


\* The answer arrives: an error is passed on, a result is verified.
Receive ==
    /\ docStep = "waiting"
    /\ \/ /\ docStep' = "verify" /\ todo' = DOMAIN evidence
          /\ UNCHANGED <<disk, docData, pipe, subject, asked, text, evidence, since, outcome, writes, asks>>
       \/ /\ UNCHANGED docData
          /\ Refuse

\* _verify_documents, one file after another.
Verify ==
    /\ docStep = "verify"
    /\ \/ /\ todo = {}
          /\ docStep' = "idle" /\ outcome' = "result"
          /\ UNCHANGED <<disk, docData, pipe, subject, asked, text, todo, evidence, since, writes, asks>>
       \/ \E u \in todo :
            /\ disk[u] = evidence[u].sha
            /\ todo' = todo \ {u}
            /\ UNCHANGED <<disk, docData, pipe, docStep, subject, asked, text, evidence, since, outcome, writes, asks>>
       \/ \E u \in todo :
            /\ disk[u] # evidence[u].sha
            /\ IF disk[u] = Missing THEN RemoveDocument(u) ELSE UNCHANGED docData
            /\ Refuse

\* Another program writes or deletes a file.
WriteDisk(u, c) ==
    /\ writes < WriteMax /\ c # disk[u]
    /\ writes' = writes + 1
    /\ disk' = [disk EXCEPT ![u] = c]
    /\ since' = [since EXCEPT ![u] = @ \cup {c}]
    /\ UNCHANGED <<docData, pipe, docStep, subject, asked, text, todo, evidence, outcome, asks>>

\* _close_pending_documents, between two requests, for a file a caller
\* found missing.
ForgetMissing(u) ==
    /\ docStep = "idle" /\ u \in Open /\ disk[u] = Missing
    /\ RemoveDocument(u)
    /\ UNCHANGED <<disk, pipe, docStep, subject, asked, text, todo, evidence, since, outcome, writes, asks>>

\* The server publishes diagnostics of a document it has open.
PublishDiagnostics(u) ==
    /\ u \in DOMAIN view /\ Len(pipe) + Len(inbox) < PipeMax
    /\ pipe' = Append(pipe, [uri |-> u, version |-> view[u].version, sha |-> view[u].sha])
    /\ UNCHANGED <<disk, docData, docStep, subject, asked, text, todo, evidence, since, outcome, writes, asks>>

\* The reader thread queues what the pipe holds.
ReadPipe ==
    /\ pipe # << >>
    /\ inbox' = Append(inbox, Head(pipe)) /\ pipe' = Tail(pipe)
    /\ UNCHANGED <<disk, docs, docBytes, lru, view, diag, docStep, subject, asked, text, todo, evidence, since,
                   outcome, writes, asks>>

Current(p) == p.uri \in Open /\ p.version = docs[p.uri].version

\* _notification, while the owner waits for an answer.
TakeNotification ==
    /\ docStep = "waiting" /\ inbox # << >>
    /\ inbox' = Tail(inbox)
    /\ diag' = IF Current(Head(inbox)) THEN With(diag, Head(inbox).uri, Head(inbox)) ELSE diag
    /\ UNCHANGED <<disk, docs, docBytes, lru, view, pipe, docStep, subject, asked, text, todo, evidence, since,
                   outcome, writes, asks>>

DocumentsNext ==
    \/ \E u \in Uri : Ask(u) \/ ForgetMissing(u) \/ PublishDiagnostics(u)
    \/ \E u \in Uri, c \in Content \cup {Missing} : WriteDisk(u, c)
    \/ ReadDocument \/ ReadFails \/ Evict \/ Send \/ Dispatch \/ Receive \/ Verify
    \/ ReadPipe \/ TakeNotification

DocumentsSpec == DocumentsInit /\ [][DocumentsNext]_documentsVars
-----------------------------------------------------------------------------
Doc == [sha : Content, version : 1 .. WriteMax + 1]
Publication == [uri : Uri, version : 1 .. WriteMax + 1, sha : Content]

\* The type of the owner's state, with one version more than the writes; what
\* the server has open is what the session believes (_remove_document).
DocumentsTypeOK ==
    /\ disk \in [Uri -> Content \cup {Missing}]
    /\ Open \subseteq Uri /\ docs \in [Open -> Doc] /\ view = docs
    /\ docBytes \in Nat
    /\ ToSet(lru) = Open /\ Len(lru) = Cardinality(Open)
    /\ \A i \in DOMAIN pipe : pipe[i] \in Publication
    /\ \A i \in DOMAIN inbox : inbox[i] \in Publication
    /\ DOMAIN diag \subseteq Uri /\ diag \in [DOMAIN diag -> Publication]
    /\ docStep \in {"idle", "read", "fit", "dispatch", "waiting", "verify"}
    /\ outcome \in {"none", "error", "result"}

\* However documents are opened, changed, evicted and closed, the session
\* keeps within its two limits, and document_bytes is what is open
\* (_prepare_document, _remove_document).
DocumentLimits ==
    /\ Cardinality(Open) <= DocMax
    /\ docBytes <= DocBytesMax
    /\ docBytes = FoldFunctionOnSet(+, 0, [u \in Open |-> DocSize[docs[u].sha]], Open)

\* A result that is answered rests on documents that were on the disk, as
\* the server saw them, after the request was dispatched: a file another
\* program wrote between its preparation and the answer makes the result
\* stale (_prepare_documents, _verify_documents).
RepliesFresh ==
    outcome = "result" => /\ asked \in DOMAIN evidence
                          /\ \A u \in DOMAIN evidence : evidence[u].sha \in since[u]

\* The diagnostics that are retained are of the version the session has of
\* a document it has open, whatever was under way in the pipe or queued
\* when the document changed (track_document, _notification).
DiagnosticsCurrent == \A u \in DOMAIN diag : u \in Open /\ diag[u].version = docs[u].version

\* The documents of a session stay in their limits, and answers and diagnostics
\* are of the text the session has (_prepare_documents, _notification).
DocumentsSound == DocumentsTypeOK /\ DocumentLimits /\ RepliesFresh /\ DiagnosticsCurrent
=============================================================================
