--------------------------- MODULE ServicesProofs ---------------------------
(***************************************************************************)
(* The services side by side: what is proved of each of them holds of all  *)
(* of them together, since a step of one leaves the others alone.          *)
(***************************************************************************)
EXTENDS MCExtensions, ExtensionsProofs, RuntimeProofs, SequentialProofs, JobQueueProofs

allVars == <<serving, ownerVars, callVars, registryVars, supervisedVars, sequentialVars, vars>>

\* A step of the services is a step of one of them and none of the others.
LEMMA OneServes ==
    [ServicesNext]_allVars =>
        /\ [OwnerNext]_ownerVars /\ [CallsNext]_callVars /\ [RegistryNext]_registryVars
        /\ [SupervisedNext]_supervisedVars /\ [SequentialNext]_sequentialVars /\ [Next]_vars
BY ZenonT(30) DEF ServicesNext, TheRest, allVars

LEMMA EachServes ==
    ServicesSpec => OwnerSpec /\ CallsSpec /\ RegistrySpec /\ SupervisedSpec /\ SequentialSpec /\ Spec
<1>1. ServicesInit => OwnerInit /\ CallsInit /\ RegistryInit /\ SupervisedInit /\ SequentialInit /\ Init
  BY ZenonT(30) DEF ServicesInit
<1>. QED BY <1>1, OneServes, PTL
     DEF ServicesSpec, OwnerSpec, CallsSpec, RegistrySpec, SupervisedSpec, SequentialSpec, Spec, allVars

\* With the other services running beside them: a caller is routed to what is
\* served and has the schema its lease names, guarded calls report what they
\* did, and a supervised runtime is drained before it ends (manager.py,
\* registry.py, execution.py, supervisor.py, lifecycle.py).
THEOREM ServicesAreSound == ServicesSpec => [](ExtensionsSound /\ CallsSound /\ RuntimeSound)
<1>1. OwnerSound /\ RegistrySound => ExtensionsSound
  BY DEF ExtensionsSound
<1>. QED BY <1>1, EachServes, OwnerIsSound, RegistryIsSound, CallsAreSound, RuntimeIsSound, PTL
-----------------------------------------------------------------------------
\* A step that leaves a service alone breaks none of its promises.
LEMMA RestingPromises ==
    /\ UNCHANGED ownerVars => StopsForGood
    /\ UNCHANGED callVars => SentByLease
    /\ UNCHANGED registryVars => LeaseSpent
    /\ UNCHANGED supervisedVars => WatchdogPatience
    /\ UNCHANGED sequentialVars => KnownStays
    /\ UNCHANGED vars => TerminalStays
<1>1. UNCHANGED ownerVars => StopsForGood
  BY DEF ownerVars, StopsForGood
<1>2. UNCHANGED callVars => SentByLease
  BY DEF callVars, SentByLease
<1>3. UNCHANGED registryVars => LeaseSpent
  BY DEF registryVars, LeaseSpent, IsLeaseValid
<1>4. UNCHANGED supervisedVars => WatchdogPatience
  BY DEF supervisedVars, WatchdogPatience
<1>5. UNCHANGED sequentialVars => KnownStays
  BY DEF sequentialVars, KnownStays
<1>6. UNCHANGED vars => TerminalStays
  BY DEF vars, rowVars, TerminalStays
<1>. QED BY <1>1, <1>2, <1>3, <1>4, <1>5, <1>6

LEMMA StepPromises ==
    /\ [StopsForGood]_ownerVars /\ [SentByLease]_callVars /\ [LeaseSpent]_registryVars
    /\ [WatchdogPatience]_supervisedVars /\ [KnownStays]_sequentialVars /\ [TerminalStays]_vars
    => /\ StopsForGood /\ SentByLease /\ LeaseSpent /\ WatchdogPatience /\ KnownStays /\ TerminalStays
BY RestingPromises, ZenonT(30)

\* No step of any service starts an extension after its stop, sends a call
\* without a valid lease, revives a lease, ends a runtime that answers, or
\* changes the outcome of an operation or a job that is known.
THEOREM NothingForbidden == ServicesSpec => NoForbiddenStep
<1>1. ServicesSpec =>
        /\ [][StopsForGood]_ownerVars /\ [][SentByLease]_callVars /\ [][LeaseSpent]_registryVars
        /\ [][WatchdogPatience]_supervisedVars /\ [][KnownStays]_sequentialVars /\ [][TerminalStays]_vars
  BY EachServes, StoppedForGood, SentUnderItsLease, LeasesStaySpent, WatchdogIsPatient, KnownOutcomesStay, StatusesStay
<1>. QED BY <1>1, StepPromises, PTL DEF NoForbiddenStep
=============================================================================
