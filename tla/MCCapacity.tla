----------------------------- MODULE MCCapacity -----------------------------
(***************************************************************************)
(* The two components that hand out a limited resource: the runtime's      *)
(* admission of requests and permits, and the browser sessions and pools.  *)
(* One of them runs, the other stays where it begins.                      *)
(*                                                                         *)
(* The requests claim parts of a small tree: r1 writes a subtree and       *)
(* conflicts with r2 and r3, which read in it and are compatible with each *)
(* other.  Permits, session ids and the browser's callers are told apart   *)
(* by their state only.                                                    *)
(***************************************************************************)
EXTENDS ResourceAdmission, BrowserSessions, TLC

CONSTANTS r1, r2, r3

VARIABLE running

MCKind == {"fs", "coordination"}
MCPart == {"a", "b", "c", "host"}

Fs(key, mode, scope) == [kind |-> "fs", key |-> key, mode |-> mode, scope |-> scope]
Host(mode) ==
    [kind |-> "coordination", key |-> <<"host">>, mode |-> mode, scope |-> "exact"]

AllClaims ==
    (r1 :> {Host("read"), Fs(<<"a">>, "write", "subtree")})
    @@ (r2 :> {Host("read"), Fs(<<"a", "b">>, "read", "exact")})
    @@ (r3 :> {Host("read"), Fs(<<"a">>, "read", "exact"), Fs(<<"c">>, "write", "exact")})

MCClaims == [r \in Request |-> AllClaims[r]]

Interchangeable == Permutations(Permit) \cup Permutations(Sid) \cup Permutations(Caller)

CapacityInit == running \in {"admission", "browser"} /\ Init /\ BrowserInit

CapacityNext ==
    /\ \/ running = "admission" /\ Next /\ UNCHANGED browserVars
       \/ running = "browser" /\ BrowserNext /\ UNCHANGED vars
    /\ UNCHANGED running

CapacitySpec == CapacityInit /\ [][CapacityNext]_<<running, vars, browserVars>>
=============================================================================
