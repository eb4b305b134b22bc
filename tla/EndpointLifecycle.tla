-------------------------- MODULE EndpointLifecycle --------------------------
(***************************************************************************)
(* The endpoint a daemon advertises: registered by a runtime subprocess    *)
(* when a daemon starts, kept in peer_endpoints by canonical lifecycle     *)
(* transactions, propagated to an admitted peer, and read back by daemons  *)
(* as runtime routes.  Two stores hold the records of one node: its own    *)
(* ("home") and the peer's ("away").  Registration reads the previous      *)
(* endpoint on one connection and submits on another, and the              *)
(* registrations of overlapping daemons interleave.  Envelopes arrive in   *)
(* any order, more than once, or never.                                    *)
(***************************************************************************)
EXTENDS Naturals, Sequences, FiniteSets, Functions

CONSTANTS
    Endpoint,        \* endpoint descriptors the daemons advertise
    Wildcard,        \* the descriptors that are bind addresses
    Registration,    \* registration subprocesses
    Refresh,         \* concurrent route refreshes of the peer's daemon
    MaxEndpointTx    \* lifecycle transactions of the node

NoEndpoint == "none"

VARIABLES
    endpoints,      \* endpoints[s][e]: state of the record at store s
    service_address,\* service_address[s]: the nodes row's column
    endpointLog,    \* endpointLog[s]: lifecycle transactions stored at s
    registering,    \* registering[r]: progress of one registration
    epAdmitted,     \* the peer admits the node
    refreshing,     \* refreshing[w]: snapshot a refresh has read
    runtimeRoute    \* the node's route in the peer daemon's cache

endpointVars == <<endpoints, service_address, endpointLog, registering,
                  epAdmitted, refreshing, runtimeRoute>>

EndpointStore == {"home", "away"}

ActiveAt(table) == {e \in DOMAIN table : table[e] = "active"}

(* list_active_peer_endpoints: the newest active record of the node.        *)
CurrentOf(table) == IF ActiveAt(table) = {} THEN NoEndpoint ELSE CHOOSE e \in ActiveAt(table) : TRUE

EndpointTx(type, e, previous, k) ==
    [type |-> type, endpoint |-> e, previous |-> previous, id |-> k]

(***************************************************************************)
(* apply_peer_endpoint_transaction: what it refuses and the records after. *)
(***************************************************************************)
\* A bug: registration does not look for another active endpoint.
EndpointAppliesAnyway(table, tx) ==
    CASE tx.type = "register" -> TRUE
      [] tx.type = "update" -> table[tx.previous] = "active"
      [] tx.type = "replace" -> tx.previous # tx.endpoint /\ table[tx.previous] = "active"
      [] tx.type = "expire" -> table[tx.endpoint] = "active"
      [] tx.type = "remove" -> table[tx.endpoint] \in {"active", "expired"}

EndpointApplies(table, tx) ==
    CASE tx.type = "register" -> ActiveAt(table) \in {{}, {tx.endpoint}}
      [] tx.type = "update" -> table[tx.previous] = "active"
      [] tx.type = "replace" -> tx.previous # tx.endpoint /\ table[tx.previous] = "active"
      [] tx.type = "expire" -> table[tx.endpoint] = "active"
      [] tx.type = "remove" -> table[tx.endpoint] \in {"active", "expired"}

EndpointApplied(table, tx) ==
    CASE tx.type = "register" -> [table EXCEPT ![tx.endpoint] = "active"]
      [] tx.type \in {"update", "replace"} ->
             [e \in DOMAIN table |-> IF e = tx.endpoint THEN "active"
                                     ELSE IF e = tx.previous THEN "removed" ELSE table[e]]
      [] tx.type = "expire" -> [table EXCEPT ![tx.endpoint] = "expired"]
      [] tx.type = "remove" -> [table EXCEPT ![tx.endpoint] = "removed"]

(* verify_peer_endpoint_transaction: own records, or an admitted peer's.    *)
EndpointVerifies(s) == s = "home" \/ epAdmitted

(* One SQLite transaction: the record, the log and nodes.service_address.   *)

EndpointStored(s, tx) ==
    LET table == EndpointApplied(endpoints[s], tx)
    IN  /\ endpoints' = [endpoints EXCEPT ![s] = table]
        /\ service_address' = [service_address EXCEPT ![s] = CurrentOf(table)]
        /\ endpointLog' = [endpointLog EXCEPT ![s] = Append(@, tx)]

EndpointSubmits(s, tx) ==
    /\ EndpointVerifies(s)
    /\ tx \notin Range(endpointLog[s])
    /\ EndpointApplies(endpoints[s], tx)
    /\ EndpointStored(s, tx)

NextEndpointTx == Len(endpointLog["home"])

(***************************************************************************)
(* reregister_local_endpoint, run by each starting daemon: register, or    *)
(* update the endpoint it read as active.                                  *)
(***************************************************************************)
NoRegistration == [pc |-> "idle", endpoint |-> NoEndpoint, previous |-> NoEndpoint]

RegistrationReads(r, e) ==
    /\ registering[r].pc = "idle"
    /\ registering' = [registering EXCEPT ![r] =
           [pc |-> "submit", endpoint |-> e, previous |-> CurrentOf(endpoints["home"])]]
    /\ UNCHANGED <<endpoints, service_address, endpointLog, epAdmitted, refreshing, runtimeRoute>>

RegistrationTx(r) ==
    LET job == registering[r]
    IN  IF job.previous \in {NoEndpoint, job.endpoint}
        THEN EndpointTx("register", job.endpoint, NoEndpoint, NextEndpointTx)
        ELSE EndpointTx("update", job.endpoint, job.previous, NextEndpointTx)

(* A refused transaction only makes the daemon log a warning.               *)
RegistrationSubmits(r) ==
    /\ registering[r].pc = "submit"
    /\ LET tx == RegistrationTx(r)
       IN  \/ /\ NextEndpointTx < MaxEndpointTx
              /\ EndpointSubmits("home", tx)
           \/ /\ ~EndpointApplies(endpoints["home"], tx)
              /\ UNCHANGED <<endpoints, service_address, endpointLog>>
    /\ registering' = [registering EXCEPT ![r] = NoRegistration]
    /\ UNCHANGED <<epAdmitted, refreshing, runtimeRoute>>

(* The subprocess times out and is killed; its daemon may start another.    *)
RegistrationKilled(r) ==
    /\ registering[r].pc = "submit"
    /\ registering' = [registering EXCEPT ![r] = NoRegistration]
    /\ UNCHANGED <<endpoints, service_address, endpointLog, epAdmitted, refreshing, runtimeRoute>>

(* replace_, expire_ and remove_local_endpoint.                             *)
LocalEndpoint(type, e) ==
    LET tx == EndpointTx(type, e, IF type = "replace" THEN CurrentOf(endpoints["home"]) ELSE NoEndpoint,
                         NextEndpointTx)
    IN  /\ NextEndpointTx < MaxEndpointTx
        /\ type = "replace" => tx.previous # NoEndpoint
        /\ EndpointSubmits("home", tx)
        /\ UNCHANGED <<registering, epAdmitted, refreshing, runtimeRoute>>

(***************************************************************************)
(* The peer: inbound endpoint transactions, revocation, route refresh.     *)
(***************************************************************************)
(* Delivery is in any order or never: any transaction of the node may come. *)
EndpointArrives(tx) ==
    /\ EndpointSubmits("away", tx)
    /\ UNCHANGED <<registering, epAdmitted, refreshing, runtimeRoute>>

EndpointPeerRevoked ==
    /\ epAdmitted /\ epAdmitted' = FALSE
    /\ UNCHANGED <<endpoints, service_address, endpointLog, registering, refreshing, runtimeRoute>>

(* _refresh_runtime_routes: a subprocess reads, the daemon replaces later.  *)
RefreshReads(w) ==
    /\ refreshing[w] = <<>>
    /\ refreshing' = [refreshing EXCEPT ![w] = <<CurrentOf(endpoints["away"])>>]
    /\ UNCHANGED <<endpoints, service_address, endpointLog, registering, epAdmitted, runtimeRoute>>

ReplaceFromRuntime(w) ==
    /\ refreshing[w] # <<>>
    /\ runtimeRoute' = IF refreshing[w][1] \in Wildcard THEN NoEndpoint ELSE refreshing[w][1]
    /\ refreshing' = [refreshing EXCEPT ![w] = <<>>]
    /\ UNCHANGED <<endpoints, service_address, endpointLog, registering, epAdmitted>>

-----------------------------------------------------------------------------
EndpointInit ==
    /\ endpoints = [s \in EndpointStore |-> [e \in Endpoint |-> "absent"]]
    /\ service_address = [s \in EndpointStore |-> NoEndpoint]
    /\ endpointLog = [s \in EndpointStore |-> <<>>]
    /\ registering = [r \in Registration |-> NoRegistration]
    /\ epAdmitted = TRUE
    /\ refreshing = [w \in Refresh |-> <<>>]
    /\ runtimeRoute = NoEndpoint

EndpointNext ==
    \/ \E r \in Registration :
           \/ \E e \in Endpoint : RegistrationReads(r, e)
           \/ RegistrationSubmits(r) \/ RegistrationKilled(r)
    \/ \E type \in {"replace", "expire", "remove"}, e \in Endpoint : LocalEndpoint(type, e)
    \/ \E tx \in Range(endpointLog["home"]) : EndpointArrives(tx)
    \/ EndpointPeerRevoked
    \/ \E w \in Refresh : RefreshReads(w) \/ ReplaceFromRuntime(w)

EndpointSpec == EndpointInit /\ [][EndpointNext]_endpointVars

-----------------------------------------------------------------------------
(* Records, jobs and routes have the shapes of their tables and messages.   *)
EndpointTypeOK ==
    /\ endpoints \in [EndpointStore -> [Endpoint -> {"absent", "active", "expired", "removed"}]]
    /\ service_address \in [EndpointStore -> Endpoint \cup {NoEndpoint}]
    /\ \A r \in Registration : registering[r].pc \in {"idle", "submit"}
    /\ runtimeRoute \in (Endpoint \ Wildcard) \cup {NoEndpoint}

(* Whatever registrations overlap and in whatever order envelopes arrive, a *)
(* store has at most one active endpoint for a node and its nodes row names *)
(* exactly that one.                                                        *)
(* (apply_peer_endpoint_transaction with reregister_local_endpoint's stale  *)
(* read of the previous endpoint)                                           *)
OneActiveEndpoint ==
    \A s \in EndpointStore :
        /\ Cardinality(ActiveAt(endpoints[s])) <= 1
        /\ service_address[s] = CurrentOf(endpoints[s])

(* A peer's record follows the node's own history: an endpoint is active at *)
(* the peer only if the node itself once made it active, and a revoked      *)
(* peer's records no longer change.                                         *)
(* (verify_peer_endpoint_transaction before every projection)               *)
AwayFollowsHome ==
    [][/\ endpoints'["away"] # endpoints["away"] => epAdmitted
       /\ endpointLog'["away"] # endpointLog["away"] =>
              endpointLog'["away"][Len(endpointLog'["away"])] \in Range(endpointLog["home"])]_endpointVars
=============================================================================
