---------------------------- MODULE TunnelRuntime ----------------------------
(***************************************************************************)
(* The managed tunnel runtime: ensure_runtime checks for a release under a *)
(* lock that processes share, verifies and stages it, publishes it in two  *)
(* steps (the directory, then current.json) and falls back to what is      *)
(* installed; current_runtime resolves it without the lock.  A process may *)
(* die between any two steps.  scripts/tunnel_runtime.py.                  *)
(***************************************************************************)
EXTENDS Integers, FiniteSets

CONSTANTS Starter,        \* processes that start the tunnel
          Release,        \* releases upstream, numbers
          NoRelease,
          CheckInterval,  \* MCP_TUNNEL_UPDATE_INTERVAL_HOURS
          Hours           \* bound on time

VARIABLES latest,    \* upstream: the latest release and what is wrong with it
          hour,
          installed, \* <version>/<platform>/<flavor>: release -> what its binary reports
          current,   \* current.json: version, path and checked_at
          failedAt,  \* last-check-failure.json: checked_at
          lockedBy,  \* .update.lock
          start,     \* per process: where it is, its fallback, its release
          policy,    \* the environment: auto update, pin, strict
          lastCheck  \* when a check last came to a recorded outcome

tunnelVars == <<latest, hour, installed, current, failedAt, lockedBy, start, policy, lastCheck>>

NoCurrent == [version |-> NoRelease, path |-> NoRelease, checked |-> -1]
Resting == [at |-> "idle", fallback |-> NoRelease, tag |-> NoRelease, odd |-> FALSE]

\* What _release and _install_release can meet: no answer, a draft or a
\* checksum that does not match, a binary of another version, or none of it.
Faults == {"none", "unreachable", "unverified", "misversioned"}

TunnelInit ==
    /\ latest = [tag |-> 1, fault |-> "none"] /\ hour = 0
    /\ installed = [r \in {} |-> 0] /\ current = NoCurrent /\ failedAt = -1
    /\ lockedBy = NoRelease
    /\ start = [s \in Starter |-> Resting]
    /\ policy \in [auto : BOOLEAN, strict : BOOLEAN, pin : {NoRelease, 1}]
    /\ lastCheck = -CheckInterval

Upstream ==
    /\ \E r \in Release, f \in Faults : latest' = [tag |-> r, fault |-> f]
    /\ latest' # latest /\ latest'.tag >= latest.tag
    /\ UNCHANGED <<hour, installed, current, failedAt, lockedBy, start, policy, lastCheck>>

\* A directory that current.json does not name loses its binary.
Damage(r) ==
    /\ r \in DOMAIN installed /\ r # current.path /\ installed' = [installed EXCEPT ![r] = 0]
    /\ \A s \in Starter : start[s].at # "record"
    /\ UNCHANGED <<latest, hour, current, failedAt, lockedBy, start, policy, lastCheck>>

HourPasses ==
    /\ hour < Hours /\ hour' = hour + 1
    /\ UNCHANGED <<latest, installed, current, failedAt, lockedBy, start, policy, lastCheck>>

\* binary_version of the binary under a release's directory.
Reports(r) == r \in DOMAIN installed /\ installed[r] = r

\* _managed_from_metadata: current.json names a binary that reports the
\* recorded version.
Selectable == current.version # NoRelease /\ Reports(current.path) /\ current.path = current.version
Selected == IF Selectable THEN current.version ELSE NoRelease

Goes(s, where) == start' = [start EXCEPT ![s].at = where]

-----------------------------------------------------------------------------
(* ensure_runtime.                                                         *)

TakeUpdateLock(s) ==
    /\ start[s].at = "idle" /\ lockedBy = NoRelease /\ lockedBy' = s
    /\ start' = [start EXCEPT ![s] = [at |-> "decide", fallback |-> Selected, tag |-> NoRelease, odd |-> FALSE]]
    /\ UNCHANGED <<latest, hour, installed, current, failedAt, policy, lastCheck>>

Due ==
    LET seen == {t \in {current.checked} \cup (IF policy.strict THEN {} ELSE {failedAt}) : t >= 0}
    IN  \A t \in seen : hour - t >= CheckInterval

\* What the installed runtime is good for before anyone asks upstream.
Decide(s) ==
    LET fallback == start[s].fallback IN
    /\ start[s].at = "decide"
    /\ \/ ~policy.auto /\ Goes(s, IF fallback = NoRelease THEN "raise" ELSE "return")
          /\ UNCHANGED <<current, failedAt, lastCheck>>
       \/ /\ policy.auto /\ policy.pin = NoRelease /\ fallback # NoRelease /\ ~Due
          /\ Goes(s, "return") /\ UNCHANGED <<current, failedAt, lastCheck>>
       \/ /\ policy.auto /\ policy.pin # NoRelease /\ fallback = policy.pin
          /\ current' = [current EXCEPT !.checked = hour] /\ failedAt' = -1 /\ lastCheck' = hour
          /\ Goes(s, "return")
       \/ /\ policy.auto
          /\ IF policy.pin = NoRelease THEN fallback = NoRelease \/ Due ELSE fallback # policy.pin
          /\ Goes(s, "request") /\ UNCHANGED <<current, failedAt, lastCheck>>
    /\ UNCHANGED <<latest, hour, installed, lockedBy, policy>>

CheckFails(s) ==
    /\ failedAt' = hour /\ lastCheck' = hour
    /\ Goes(s, IF policy.strict \/ start[s].fallback = NoRelease THEN "raise" ELSE "return")

\* _release and the downloads of _install_release, up to their verification.
RequestRelease(s) ==
    LET tag == IF policy.pin = NoRelease THEN latest.tag ELSE policy.pin IN
    /\ start[s].at = "request"
    /\ \/ latest.fault = "unreachable" /\ CheckFails(s) /\ UNCHANGED current
       \/ /\ latest.fault # "unreachable" /\ start[s].fallback = tag
          /\ current' = [current EXCEPT !.checked = hour] /\ failedAt' = -1 /\ lastCheck' = hour
          /\ Goes(s, "return")
       \/ latest.fault = "unverified" /\ start[s].fallback # tag /\ CheckFails(s) /\ UNCHANGED current
       \/ /\ latest.fault \in {"none", "misversioned"} /\ start[s].fallback # tag
          /\ start' = [start EXCEPT ![s] = [@ EXCEPT !.at = "existing", !.tag = tag,
                                                        !.odd = (latest.fault = "misversioned")]]
          /\ UNCHANGED <<current, failedAt, lastCheck>>
    /\ UNCHANGED <<latest, hour, installed, lockedBy, policy>>

\* A directory of that release that works is taken as it is; one that does
\* not is removed.
LookAtExisting(s) ==
    LET tag == start[s].tag IN
    /\ start[s].at = "existing"
    /\ IF tag \in DOMAIN installed
         THEN \/ Reports(tag) /\ Goes(s, "record") /\ UNCHANGED installed
              \/ /\ ~Reports(tag) /\ Goes(s, "stage")
                 /\ \/ installed' = [r \in DOMAIN installed \ {tag} |-> installed[r]]
                    \/ UNCHANGED installed \* it answers with another version: replaced below
         ELSE Goes(s, "stage") /\ UNCHANGED installed
    /\ UNCHANGED <<latest, hour, current, failedAt, lockedBy, policy, lastCheck>>

StageChecks(s) == ~start[s].odd

StageRelease(s) ==
    /\ start[s].at = "stage"
    /\ IF StageChecks(s)
         THEN Goes(s, "publish") /\ UNCHANGED <<failedAt, lastCheck>>
         ELSE CheckFails(s)
    /\ UNCHANGED <<latest, hour, installed, current, lockedBy, policy>>

\* os.replace(staging, final_dir): all of it or nothing.
PublishDirectory(s) ==
    LET tag == start[s].tag IN
    /\ start[s].at = "publish" /\ Goes(s, "record")
    /\ installed' = [r \in DOMAIN installed \cup {tag} |->
                       IF r = tag THEN (IF start[s].odd THEN 0 ELSE tag) ELSE installed[r]]
    /\ UNCHANGED <<latest, hour, current, failedAt, lockedBy, policy, lastCheck>>

Recordable(s) == start[s].at = "record"

RecordCurrent(s) ==
    /\ Recordable(s)
    /\ current' = [version |-> start[s].tag, path |-> start[s].tag, checked |-> hour]
    /\ failedAt' = -1 /\ lastCheck' = hour
    /\ start' = [start EXCEPT ![s] = [@ EXCEPT !.at = "return", !.fallback = start[s].tag]]
    /\ UNCHANGED <<latest, hour, installed, lockedBy, policy>>

\* The lock goes with the call, and with the process.
LeaveUpdateLock(s) ==
    /\ start[s].at # "idle" /\ lockedBy' = NoRelease /\ start' = [start EXCEPT ![s] = Resting]
    /\ UNCHANGED <<latest, hour, installed, current, failedAt, policy, lastCheck>>

TunnelNext ==
    \/ Upstream \/ HourPasses
    \/ \E r \in Release : Damage(r)
    \/ \E s \in Starter : \/ TakeUpdateLock(s) \/ Decide(s) \/ RequestRelease(s) \/ LookAtExisting(s)
                          \/ StageRelease(s) \/ PublishDirectory(s) \/ RecordCurrent(s)
                          \/ LeaveUpdateLock(s)

-----------------------------------------------------------------------------
TunnelTypeOK ==
    /\ DOMAIN installed \subseteq Release /\ hour \in 0..Hours
    /\ current.version \in Release \cup {NoRelease} /\ current.checked \in -1..hour
    /\ failedAt \in -1..hour /\ lockedBy \in Starter \cup {NoRelease}
    /\ \A s \in Starter : start[s].at # "idle" <=> lockedBy = s

\* A runtime that works is never lost to an update: whatever fails and
\* wherever a process dies, current.json goes on naming a binary that
\* reports the version recorded for it.
WorkingRuntimeKept == Selectable => Selectable'

\* What ensure_runtime returns is there, is the recorded runtime and reports
\* the version it is returned under.
ReturnsWorking ==
    \A s \in Starter : start[s].at = "return" => Reports(start[s].fallback) /\ Selected = start[s].fallback

\* Without a pin, upstream is asked again only after the interval, counted
\* from the last check of any process, a failed one included unless updates
\* are required.
ChecksPaced ==
    \A s \in Starter :
      (start[s].at = "decide" /\ start'[s].at = "request" /\ policy.pin = NoRelease
         /\ start[s].fallback # NoRelease /\ ~policy.strict)
      => hour - lastCheck >= CheckInterval

=============================================================================
