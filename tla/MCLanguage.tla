----------------------------- MODULE MCLanguage -----------------------------
(***************************************************************************)
(* The four models of the language services, each on its own instance: one *)
(* of them runs, the others stay where they begin.                         *)
(***************************************************************************)
EXTENDS LanguageSessions, LanguageDocuments, LanguageContext, LspTransport, TLC

CONSTANTS k1, k2, t1, t2, small, large

VARIABLE running

Sizes == small :> 1 @@ large :> 2

Interchangeable == Permutations(Key) \cup Permutations(Ticket)

Init ==
    /\ running \in {"sessions", "documents", "context", "transport"}
    /\ SessionsInit /\ DocumentsInit /\ ContextInit /\ TransportInit
    /\ running # "documents" => disk = [u \in Uri |-> small]

Next ==
    /\ UNCHANGED running
    /\ \/ running = "sessions" /\ SessionsNext /\ UNCHANGED <<documentsVars, contextVars, transportVars>>
       \/ running = "documents" /\ DocumentsNext /\ UNCHANGED <<sessionsVars, contextVars, transportVars>>
       \/ running = "context" /\ ContextNext /\ UNCHANGED <<sessionsVars, documentsVars, transportVars>>
       \/ running = "transport" /\ TransportNext /\ UNCHANGED <<sessionsVars, documentsVars, contextVars>>

Spec == Init /\ [][Next]_<<running, sessionsVars, documentsVars, contextVars, transportVars>>

=============================================================================
