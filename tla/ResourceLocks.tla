---------------------------- MODULE ResourceLocks ----------------------------
(***************************************************************************)
(* RESOURCE_LOCKS of core/resource_locks.py: locks for paths, made on      *)
(* demand.  A thread registers as a user of every path of its call under   *)
(* one guard, which looks up or creates the lock object of each path, then *)
(* acquires the objects in the order of the paths, and on the way out      *)
(* releases them and deletes the entries it was the last user of.          *)
(*                                                                         *)
(* A path is known by its rank in sorted().  Lock objects are Python       *)
(* objects: one that nothing refers to any more may come back as a new     *)
(* one.  No thread nests two calls on one path, so that the locks are      *)
(* reentrant makes no difference.                                          *)
(***************************************************************************)
EXTENDS Integers, FiniteSets

CONSTANTS
    Thread,     \* threads of the process
    Key,        \* canonical paths, by rank
    Object,     \* lock objects
    NoThread,   \* nobody holds the object
    NoLock      \* no lock object

ASSUME KeyAssumption == Key \subseteq Nat
ASSUME ThreadAssumption == IsFiniteSet(Thread) /\ NoThread \notin Thread
ASSUME ObjectAssumption == NoLock \notin Object

VARIABLES
    entries,    \* path -> its lock object, NoLock when there is no entry
    users,      \* path -> the user count of its entry
    holder,     \* object -> the thread that has acquired it
    asked,      \* thread -> the paths of its call, {} outside
    got,        \* thread -> path -> the object it found or made
    stage       \* thread -> "out", "acquire", "in", "leave"

lockVars == <<entries, users, holder, asked, got, stage>>

LocksInit ==
    /\ entries = [k \in Key |-> NoLock]
    /\ users = [k \in Key |-> 0]
    /\ holder = [o \in Object |-> NoThread]
    /\ asked = [t \in Thread |-> {}]
    /\ got = [t \in Thread |-> [k \in Key |-> NoLock]]
    /\ stage = [t \in Thread |-> "out"]

\* An object that a new RLock() may be: nothing refers to it.
Unused(o) ==
    /\ \A k \in Key : entries[k] # o
    /\ \A t \in Thread, k \in Key : got[t][k] # o


\* Under the guard: one entry per path, found or made, and one more user.
Register(t, ks) ==
    /\ stage[t] = "out"
    /\ \E f \in [ks -> Object] :
         /\ \A k \in ks : IF entries[k] = NoLock THEN Unused(f[k]) ELSE f[k] = entries[k]
         /\ \A k, l \in ks : k # l => f[k] # f[l]
         /\ entries' = [k \in Key |-> IF k \in ks THEN f[k] ELSE entries[k]]
         /\ got' = [got EXCEPT ![t] = [k \in Key |-> IF k \in ks THEN f[k] ELSE NoLock]]
    /\ users' = [k \in Key |-> IF k \in ks THEN users[k] + 1 ELSE users[k]]
    /\ asked' = [asked EXCEPT ![t] = ks]
    /\ stage' = [stage EXCEPT ![t] = "acquire"]
    /\ UNCHANGED holder

Holds(t, k) == k \in asked[t] /\ holder[got[t][k]] = t

\* The sorted order of the keys.
NextKey(t, k) ==
    /\ k \in asked[t] /\ ~Holds(t, k)
    /\ \A l \in asked[t] : l < k => Holds(t, l)

Acquire(t, k) ==
    /\ stage[t] = "acquire"
    /\ NextKey(t, k)
    /\ holder[got[t][k]] = NoThread
    /\ holder' = [holder EXCEPT ![got[t][k]] = t]
    /\ UNCHANGED <<entries, users, asked, got, stage>>

\* Every lock acquired: the body of the with statement.
Enter(t) ==
    /\ stage[t] = "acquire"
    /\ \A k \in asked[t] : Holds(t, k)
    /\ stage' = [stage EXCEPT ![t] = "in"]
    /\ UNCHANGED <<entries, users, holder, asked, got>>

\* The body returned or raised: the locks are released.
Release(t) ==
    /\ stage[t] = "in"
    /\ holder' = [o \in Object |-> IF holder[o] = t THEN NoThread ELSE holder[o]]
    /\ stage' = [stage EXCEPT ![t] = "leave"]
    /\ UNCHANGED <<entries, users, asked, got>>

\* Under the guard again: the last user of a path deletes its entry.
Unregister(t) ==
    /\ stage[t] = "leave"
    /\ users' = [k \in Key |-> IF k \in asked[t] THEN users[k] - 1 ELSE users[k]]
    /\ entries' = [k \in Key |-> IF k \in asked[t] /\ users[k] = 1 THEN NoLock
                                 ELSE entries[k]]
    /\ asked' = [asked EXCEPT ![t] = {}]
    /\ got' = [got EXCEPT ![t] = [k \in Key |-> NoLock]]
    /\ stage' = [stage EXCEPT ![t] = "out"]
    /\ UNCHANGED holder

LocksNext ==
    \E t \in Thread :
        \/ \E ks \in SUBSET Key : Register(t, ks)
        \/ \E k \in Key : Acquire(t, k)
        \/ Enter(t) \/ Release(t) \/ Unregister(t)

LocksSpec == LocksInit /\ [][LocksNext]_lockVars

(***************************************************************************)
(* The types; the user count of an entry never falls below zero.           *)
(***************************************************************************)
LocksTypeOK ==
    /\ entries \in [Key -> Object \cup {NoLock}]
    /\ users \in [Key -> Nat]
    /\ holder \in [Object -> Thread \cup {NoThread}]
    /\ asked \in [Thread -> SUBSET Key]
    /\ got \in [Thread -> [Key -> Object \cup {NoLock}]]
    /\ stage \in [Thread -> {"out", "acquire", "in", "leave"}]

(***************************************************************************)
(* Two calls on one path are never in their bodies together, although the  *)
(* lock of a path is deleted and made anew as its users come and go.       *)
(***************************************************************************)
LocksExclusive ==
    \A s, t \in Thread : s # t /\ stage[s] = "in" /\ stage[t] = "in" => asked[s] \cap asked[t] = {}

Waiting(t) == stage[t] = "acquire" /\ \E k \in asked[t] : ~Holds(t, k)

(***************************************************************************)
(* Threads that lock the same paths, whatever order their calls name them  *)
(* in, never all wait for each other: some lock that is waited for is free *)
(* or has a holder that waits for nothing.                                 *)
(***************************************************************************)
SomeoneProceeds ==
    (\E t \in Thread : Waiting(t)) =>
        \/ \E t \in Thread : stage[t] = "in" \/ (stage[t] = "acquire" /\ ~Waiting(t))
        \/ \E t \in Thread, k \in Key : Waiting(t) /\ NextKey(t, k) /\ holder[got[t][k]] = NoThread
=============================================================================
