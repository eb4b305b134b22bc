------------------------------- MODULE MCHost --------------------------------
(***************************************************************************)
(* What is on an operator's disk: the store that init creates and repairs, *)
(* the secrets written, migrated and synchronised in it, the endpoints it  *)
(* records, the schema catalog, the host installation it may join, and the *)
(* check for updates.  The components share no variable, so that a product *)
(* of them would only interleave unrelated steps: a behaviour runs one of  *)
(* them, chosen at the start, and the others rest.                         *)
(***************************************************************************)
EXTENDS OperatorStore, SecretStore, SchemaCatalog, EndpointLifecycle,
        SharedHost, UpdateCheck

VARIABLE part

mcHostVars ==
    <<homeVars, storeVars, catalogVars, endpointVars, sharedHostVars, updateVars, part>>

MCModeOf == [o1 |-> "encrypted", o2 |-> "encrypted", s1 |-> "plaintext"]
MCCasts == {{"o1", "o2", "w1"}, {"o1", "s1", "w1"}, {"d1", "d2"}}

MCLegacy == [s \in {"s1", "s2"} |-> "k"]
MCItems == <<"s1", "s2">>
MCEnvironment == [s \in {"s1"} |-> "d"]
MCBatches == [backup |-> [s1 |-> "empty"]]
MCCopyPairs == {<<"s1", "s2">>}
MCEligibleFirst == [a |-> {}, b |-> {"a"}]
MCMaxWrites == [a |-> 3, b |-> 0]

Described(version, fields) == [version |-> version, fields |-> fields]
MCBundled == [s1 |-> Described(1, [f |-> "optional"])]
MCSeedFiles == {[s1 |-> Described(1, [f |-> "required"])]}

MCUserOrder == <<"u1", "u2">>

\* Bound: one thing goes wrong, and another one only while it is repaired.
HostBound == hostEvents' <= 1 \/ \E p \in Admin : admin[p].pc = "restore"

Version(n, stage) == [number |-> n, stage |-> stage]
MCFirstVersion == Version(1, "rc")
MCPublications == [r1 |-> <<Version(2, "rc"), Version(3, "final")>>, r2 |-> <<>>]

\* A component that rests has one initial state.
MCHostInit ==
    /\ part \in {"home", "store", "catalog", "endpoints", "host", "update"}
    /\ HomeInit /\ StoreInit /\ CatalogInit /\ EndpointInit /\ HostInit
    /\ UpdateInit
    /\ part # "home" => defaults = "absent" /\ proc["d1"].pc = "idle"
    /\ part # "catalog" => file.kind = "missing"
    /\ part # "update" => receiptRepo = "r1"

MCHostNext ==
    /\ UNCHANGED part
    /\ \/ /\ part = "home" /\ HomeNext
          /\ UNCHANGED <<storeVars, catalogVars, endpointVars, sharedHostVars, updateVars>>
       \/ /\ part = "store" /\ StoreNext
          /\ UNCHANGED <<homeVars, catalogVars, endpointVars, sharedHostVars, updateVars>>
       \/ /\ part = "catalog" /\ CatalogNext
          /\ UNCHANGED <<homeVars, storeVars, endpointVars, sharedHostVars, updateVars>>
       \/ /\ part = "endpoints" /\ EndpointNext
          /\ UNCHANGED <<homeVars, storeVars, catalogVars, sharedHostVars, updateVars>>
       \/ /\ part = "host" /\ HostNext /\ HostBound
          /\ UNCHANGED <<homeVars, storeVars, catalogVars, endpointVars, updateVars>>
       \/ /\ part = "update" /\ UpdateNext
          /\ UNCHANGED <<homeVars, storeVars, catalogVars, endpointVars, sharedHostVars>>

MCHostSpec == MCHostInit /\ [][MCHostNext]_mcHostVars

\* Every component keeps its types.
HostTypesOK ==
    /\ HomeTypeOK /\ StoreTypeOK /\ CatalogTypeOK
    /\ EndpointTypeOK /\ HostTypeOK /\ UpdateTypeOK

=============================================================================
