---------------------------- MODULE ResourceFence ----------------------------
(***************************************************************************)
(* What durable resource admission promises its callers: a set of requests *)
(* that fence their claims.  A request joins the set when it conflicts     *)
(* with no member, alone and with all its claims at once, and stays until  *)
(* it is released.                                                         *)
(***************************************************************************)

CONSTANTS
    Request,        \* request ids
    Conflict(_, _)  \* do the claims of two requests conflict?

VARIABLE held       \* the requests whose claims are fenced

Init == held = {}

Acquire(r) ==
    /\ r \notin held
    /\ \A s \in held : ~ Conflict(r, s)
    /\ held' = held \cup {r}

\* One transaction may end several fences (recovery of a dead owner).
Release(gone) == held' = held \ gone

Next ==
    \/ \E r \in Request : Acquire(r)
    \/ \E gone \in SUBSET Request : Release(gone)

Spec == Init /\ [][Next]_held
=============================================================================
