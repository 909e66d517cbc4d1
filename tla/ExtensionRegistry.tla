-------------------------- MODULE ExtensionRegistry --------------------------
(***************************************************************************)
(* The catalog of external tools (core/extensions/registry.py) and its     *)
(* announcement to the clients (core/extensions/bridge.py).  The owner of  *)
(* an extension discovers tools under a generation it was given, publishes *)
(* them in one step and retires them when its session ends.  The first     *)
(* schema a name was published with stays its schema for the runtime.      *)
(***************************************************************************)
EXTENDS Integers, FiniteSets

CONSTANTS
    Extension,      \* extensions
    Tool,           \* remote names; the public name is <<extension, tool>>
    Schema,         \* schema fingerprints
    BadSchema,      \* one that validate_schema_subset refuses
    TotalMax,       \* LIMITS.total_tools
    RegistryGens    \* bound on the generations of an extension

ASSUME RegistryAssumption == IsFiniteSet(Extension) /\ IsFiniteSet(Tool) /\ TotalMax \in Nat /\ RegistryGens \in Nat

VARIABLES
    tools,          \* active snapshot: public name -> [gen, schema], of the names published
    withheldTools,  \* its withheld names
    extGen,         \* its extension_generations, 0 for an extension without one
    mgen,           \* its manager_generation
    fingerprints,   \* _runtime_fingerprints: public name -> schema
    maxPublished,   \* _max_published_generations
    discovering,    \* generation an owner discovers under, 0 when it does not
    leases,         \* leases ever given
    announced       \* generation notify_catalog_changes saw last

registryVars == <<tools, withheldTools, extGen, mgen, fingerprints, maxPublished, discovering, leases, announced>>

Name == Extension \X Tool

RegistryInit ==
    /\ tools = << >> /\ withheldTools = {} /\ fingerprints = << >>
    /\ extGen = [e \in Extension |-> 0] /\ maxPublished = [e \in Extension |-> 0]
    /\ mgen = 0 /\ discovering = [e \in Extension |-> 0]
    /\ leases = {} /\ announced = 0

NextCatalogGeneration(e) == maxPublished[e] + 1

Discover(e) ==
    /\ discovering[e] = 0 /\ NextCatalogGeneration(e) <= RegistryGens
    /\ discovering' = [discovering EXCEPT ![e] = NextCatalogGeneration(e)]
    /\ UNCHANGED <<tools, withheldTools, extGen, mgen, fingerprints, maxPublished, leases, announced>>

\* A version of the test below that compares with the published schema.
DriftsFromActive(n, s) == n \in DOMAIN tools /\ tools[n].schema # s

\* The schema of a name is not the one the runtime recorded for it.
Drifts(n, s) == n \in DOMAIN fingerprints /\ fingerprints[n] # s

\* The names of a candidate batch that are accepted.
Accepted(e, batch) == {n \in {e} \X DOMAIN batch : batch[n[2]] # BadSchema /\ ~Drifts(n, batch[n[2]])}

\* The tombstone quota: names stay counted when they are retired.
OverQuota(new) == Cardinality(DOMAIN fingerprints \cup new) > TotalMax

Others(e) == {n \in DOMAIN tools : n[1] # e}

\* publish_extension_catalog, which changes nothing when it is refused.
PublishCatalog(e, batch) ==
    LET new == Accepted(e, batch) IN
    /\ discovering[e] > maxPublished[e] /\ ~OverQuota(new)
    /\ tools' = [n \in Others(e) \cup new |->
                    IF n \in new THEN [gen |-> discovering[e], schema |-> batch[n[2]]] ELSE tools[n]]
    /\ withheldTools' = {n \in withheldTools : n[1] # e} \cup (({e} \X DOMAIN batch) \ new)
    /\ fingerprints' = [n \in DOMAIN fingerprints \cup new |->
                           IF n \in DOMAIN fingerprints THEN fingerprints[n] ELSE batch[n[2]]]
    /\ extGen' = [extGen EXCEPT ![e] = discovering[e]]
    /\ maxPublished' = [maxPublished EXCEPT ![e] = discovering[e]]
    /\ mgen' = mgen + 1
    /\ discovering' = [discovering EXCEPT ![e] = 0]
    /\ UNCHANGED <<leases, announced>>

\* The discovery fails or its batch is refused.
DiscoveryFails(e) ==
    /\ discovering[e] # 0
    /\ discovering' = [discovering EXCEPT ![e] = 0]
    /\ UNCHANGED <<tools, withheldTools, extGen, mgen, fingerprints, maxPublished, leases, announced>>

\* retire_extension_catalog; an extension without a catalog is left alone.
RetireCatalog(e) ==
    /\ extGen[e] # 0
    /\ tools' = [n \in Others(e) |-> tools[n]]
    /\ withheldTools' = {n \in withheldTools : n[1] # e}
    /\ extGen' = [extGen EXCEPT ![e] = 0]
    /\ mgen' = mgen + 1
    /\ UNCHANGED <<fingerprints, maxPublished, discovering, leases, announced>>

\* create_lease and is_lease_valid.
CreateLease(n) ==
    /\ n \in DOMAIN tools
    /\ leases' = leases \cup {[name |-> n, gen |-> tools[n].gen, schema |-> tools[n].schema]}
    /\ UNCHANGED <<tools, withheldTools, extGen, mgen, fingerprints, maxPublished, discovering, announced>>
IsLeaseValid(l) == l.name \in DOMAIN tools /\ tools[l.name] = [gen |-> l.gen, schema |-> l.schema]

\* One round of notify_catalog_changes.
CatalogChanged == mgen # announced
NotifyCatalogChanges ==
    /\ CatalogChanged
    /\ announced' = mgen
    /\ UNCHANGED <<tools, withheldTools, extGen, mgen, fingerprints, maxPublished, discovering, leases>>

RegistryNext ==
    \/ NotifyCatalogChanges
    \/ \E e \in Extension :
           \/ Discover(e) \/ DiscoveryFails(e) \/ RetireCatalog(e)
           \/ \E D \in SUBSET Tool : \E batch \in [D -> Schema] : PublishCatalog(e, batch)
    \/ \E n \in Name : CreateLease(n)

RegistrySpec == RegistryInit /\ [][RegistryNext]_registryVars
\* notify_catalog_changes polls for ever.
RegistryFairness == WF_registryVars(NotifyCatalogChanges)
RegistryFairSpec == RegistrySpec /\ RegistryFairness
-----------------------------------------------------------------------------
\* The type of the registry's state.
RegistryTypeOK ==
    /\ DOMAIN tools \subseteq DOMAIN fingerprints /\ DOMAIN fingerprints \subseteq Name
    /\ \A n \in DOMAIN tools : tools[n] \in [gen : 1 .. RegistryGens, schema : Schema \ {BadSchema}]
    /\ withheldTools \subseteq Name /\ withheldTools \cap DOMAIN tools = {}
    /\ \A e \in Extension : extGen[e] \in {0, maxPublished[e]} /\ discovering[e] \in 0 .. RegistryGens
    /\ \A n \in DOMAIN tools : tools[n].gen = extGen[n[1]]
    /\ announced \in 0 .. mgen

\* A name keeps the schema a lease of it was ever given for, through retired
\* catalogs, withheld candidates and restarts of the provider.
SchemaKept == \A l \in leases : l.name \in DOMAIN tools => tools[l.name].schema = l.schema

\* A lease that has become invalid is never valid again, though the provider
\* comes back with the same tools (next_catalog_generation).
LeaseSpent == \A l \in leases : IsLeaseValid(l)' => IsLeaseValid(l)

\* The names a runtime remembers stay within the limit (tombstone quota).
NamesBounded == Cardinality(DOMAIN fingerprints) <= TotalMax

\* The clients are told of every change of the catalog, also of one that a
\* later change follows at once (notify_catalog_changes).
ChangesAnnounced == (announced # mgen) ~> (announced = mgen)

\* The catalog keeps the schema of every name it has leased, within its quota
\* (publish, retire).
RegistrySound == RegistryTypeOK /\ SchemaKept /\ NamesBounded

(***************************************************************************)
(* Why they hold: the published schemas and the leased ones are those the  *)
(* runtime recorded first, and no lease is of a generation that is yet to  *)
(* be published.                                                           *)
(***************************************************************************)
RegistryInv ==
    /\ RegistryTypeOK /\ NamesBounded
    /\ extGen \in [Extension -> 0 .. RegistryGens] /\ maxPublished \in [Extension -> 0 .. RegistryGens]
    /\ discovering \in [Extension -> 0 .. RegistryGens] /\ mgen \in Nat
    /\ \A n \in DOMAIN tools : tools[n].schema = fingerprints[n]
    /\ \A l \in leases : /\ l.name \in DOMAIN fingerprints /\ fingerprints[l.name] = l.schema
                         /\ l.gen \in 0 .. maxPublished[l.name[1]]
=============================================================================
