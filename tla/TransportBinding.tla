-------------------------- MODULE TransportBinding --------------------------
(***************************************************************************)
(* How the libp2p transport of the daemon finds and keeps a route to one   *)
(* remote transport peer: candidate discovery (mDNS announcements, local   *)
(* direct hints, circuits offered by RSS relays, bootstrap addresses),     *)
(* identity binding in both directions, the discovered route of the        *)
(* routing table, and the delivery attempts that use it.                   *)
(* (daemon/transport.py, daemon/routing.py)                                *)
(*                                                                         *)
(* The trio thread runs one segment between two awaits at a time; the      *)
(* mDNS thread, the daemon's request threads and the senders interleave    *)
(* with it at every lock.  A candidate is an object: two announcements of  *)
(* one address are different candidates with the same endpoint.            *)
(***************************************************************************)
EXTENDS Naturals, FiniteSets, Sequences, Functions

CONSTANTS
    Announcements,  \* PeerInfo objects that mDNS delivers, all for one LAN address
    Hints,          \* PeerInfo objects submitted as direct candidates
    Relays,         \* circuits to the peer, in the order of the configured relays
    Bootstrapped,   \* whether the peer is a configured bootstrap address
    Inbounds,       \* inbound binding streams that may be open at once
    MaxEvents,      \* bound on the number of outside events
    MaxGenerations  \* bound on the number of listener generations

Circuits == Range(Relays)
Rank(c) == CHOOSE i \in DOMAIN Relays : Relays[i] = c

Lan == "lan"
None == "none"
Candidates == Announcements \cup Hints \cup Circuits \cup {"boot", "peerstore"}
Endpoints == Circuits \cup {Lan}

\* A circuit address is never the LAN address of the peer, nor the absence of one.
ASSUME BindingAssumption ==
    /\ {Lan, None} \cap Circuits = {}
    /\ MaxGenerations \in Nat

\* _peer_endpoint: every candidate that is not a circuit carries the LAN address.
EndpointOf(c) == IF c \in Circuits THEN c ELSE Lan

VARIABLES
    host_up, generation,    \* _host_object, _host_generation
    connections,            \* kinds of the live connections to the peer
    discovered,             \* the route in RoutingTable._discovered_routes
    candidate_infos,        \* _candidate_infos: RSS circuit or bootstrap address
    mdns_candidate_infos,   \* _mdns_candidate_infos
    direct_hint_nodes,      \* _direct_hint_nodes
    direct_bound_peers,     \* whether the peer is in _direct_bound_peers
    candidate_rank,         \* _relay_candidate_ranks
    relay_failed,           \* circuits whose relay is in a "failed:" state
    notified,               \* _notified_candidate_endpoints
    binding_inflight,       \* whether the peer is in _binding_inflight
    binding_state,          \* _binding_states, with the attempt that owns the tuple
    circuit_dial,           \* _circuit_dial_endpoints
    scheduled,              \* callbacks handed to run_sync_soon
    spawned,                \* _connect_and_bind tasks that have not started
    attempt,                \* the outbound attempt in progress
    inbound,                \* the inbound binding streams
    sending,                \* the delivery in progress
    events                  \* outside events so far

candidateVars == <<candidate_infos, mdns_candidate_infos, direct_hint_nodes, candidate_rank>>
hostVars == <<host_up, generation>>
bindingVars ==
    <<hostVars, connections, discovered, candidateVars, direct_bound_peers, relay_failed,
      notified, binding_inflight, binding_state, circuit_dial, scheduled, spawned,
      attempt, inbound, sending, events>>

NoRoute == [endpoint |-> None, available |-> FALSE]
NoState == [endpoint |-> None, state |-> None, owner |-> None]
Idle == [phase |-> "idle"]
Outbound == "outbound"

Owns(x) == binding_state.state = "inflight" /\ binding_state.owner = x
Settled(e, s) == [endpoint |-> e, state |-> s, owner |-> None]
Event == events < MaxEvents /\ events' = events + 1

\* The trio thread is between two awaits of one task.  The locks it takes and releases
\* there let the other threads in, but no other trio task.
TrioFree ==
    /\ attempt.phase \notin {"install", "settle"}
    /\ \A i \in Inbounds : inbound[i].phase # "install"

BindingInit ==
    /\ host_up = FALSE /\ generation = 0
    /\ connections = {}
    /\ discovered = NoRoute
    /\ candidate_infos = None /\ mdns_candidate_infos = None
    /\ direct_hint_nodes = None /\ direct_bound_peers = FALSE
    /\ candidate_rank = 0 /\ relay_failed = {}
    /\ notified = None
    /\ binding_inflight = FALSE /\ binding_state = NoState
    /\ circuit_dial = None
    /\ scheduled = {} /\ spawned = {}
    /\ attempt = Idle /\ inbound = [i \in Inbounds |-> Idle] /\ sending = Idle
    /\ events = 0

-----------------------------------------------------------------------------
(* The routing table.                                                      *)

\* install_discovered keeps an available direct route over a circuit.
InstallDiscovered(e) ==
    IF discovered.available /\ discovered.endpoint \notin Circuits /\ e \in Circuits
    THEN discovered
    ELSE [endpoint |-> e, available |-> TRUE]

\* mark_contact and mark_unavailable act on the route only if it still is the one used.
MarkContact(e) ==
    IF discovered.endpoint = e THEN [discovered EXCEPT !.available = TRUE] ELSE discovered

\* Mutant of MarkUnavailable: no comparison with the endpoint that failed.
MarkAnyUnavailable(e) == [discovered EXCEPT !.available = FALSE]

MarkUnavailable(e) ==
    IF discovered.endpoint = e THEN [discovered EXCEPT !.available = FALSE] ELSE discovered

MarkTransportUnavailable == [discovered EXCEPT !.available = FALSE]

\* resolve, else resolve_retained: the authenticated locator, available or not.
ResolveRetained == discovered.endpoint

-----------------------------------------------------------------------------
(* Listener generations.                                                   *)

\* _spawn_scope_task starts work only inside the current generation.
Spawn(tasks) == IF host_up THEN spawned \cup (tasks \ {None}) ELSE spawned

\* _run_host_scope publishes a listener; _queue_bootstrap_candidates.  The previous
\* generation's tasks have ended, because its nursery has been left.
HostUp ==
    /\ ~host_up /\ generation < MaxGenerations /\ TrioFree
    /\ attempt = Idle /\ \A i \in Inbounds : inbound[i] = Idle
    /\ host_up' = TRUE /\ generation' = generation + 1
    /\ candidate_infos' = IF Bootstrapped THEN "boot" ELSE candidate_infos
    /\ spawned' = IF Bootstrapped THEN {"boot"} ELSE {}
    /\ UNCHANGED <<connections, discovered, mdns_candidate_infos, direct_hint_nodes,
                   direct_bound_peers, candidate_rank, relay_failed, notified,
                   binding_inflight, binding_state, circuit_dial, scheduled,
                   attempt, inbound, sending, events>>

\* _retire_host_scope and _clear_host_state, at a stop or a change of LAN address.  The
\* routes stay; the attempts and streams of the generation still have to be unwound.
HostRetire ==
    /\ host_up /\ Event /\ TrioFree
    /\ host_up' = FALSE
    /\ candidate_infos' = None /\ mdns_candidate_infos' = None
    /\ direct_hint_nodes' = None /\ direct_bound_peers' = FALSE
    /\ candidate_rank' = 0
    /\ notified' = None
    /\ binding_inflight' = FALSE /\ binding_state' = NoState
    /\ circuit_dial' = None
    /\ relay_failed' = {}
    /\ spawned' = {}
    /\ UNCHANGED <<generation, connections, discovered, scheduled, attempt, inbound, sending>>

\* The retired host closes its connections: the last one marks the route.
HostClosed ==
    /\ ~host_up /\ connections # {} /\ TrioFree
    /\ connections' = {}
    /\ discovered' = MarkTransportUnavailable
    /\ UNCHANGED <<hostVars, candidateVars, direct_bound_peers, relay_failed, notified,
                   binding_inflight, binding_state, circuit_dial, scheduled, spawned,
                   attempt, inbound, sending, events>>

-----------------------------------------------------------------------------
(* Discovery.                                                              *)

Skips(s, e) ==
    s.endpoint = e /\ s.state \in {"healthy", "inflight", "rejected"}

\* discovered(), on the mDNS thread: the candidate is replaced in any case; a notified
\* or settled endpoint is not scheduled again.
Announce(a) ==
    /\ host_up /\ Event
    /\ mdns_candidate_infos' = a
    /\ IF notified = Lan \/ Skips(binding_state, Lan)
       THEN UNCHANGED <<notified, scheduled>>
       ELSE /\ notified' = Lan
            /\ scheduled' = scheduled \cup {[kind |-> "mdns", candidate |-> a, gen |-> generation]}
    /\ UNCHANGED <<hostVars, connections, discovered, candidate_infos, direct_hint_nodes,
                   candidate_rank, direct_bound_peers, relay_failed, binding_inflight,
                   binding_state, circuit_dial, spawned, attempt, inbound, sending>>

\* removed(), on the mDNS thread.
Withdraw ==
    /\ host_up /\ mdns_candidate_infos # None /\ Event
    /\ mdns_candidate_infos' = None
    /\ UNCHANGED <<hostVars, connections, discovered, candidate_infos, direct_hint_nodes,
                   candidate_rank, direct_bound_peers, relay_failed, notified,
                   binding_inflight, binding_state, circuit_dial, scheduled, spawned,
                   attempt, inbound, sending>>

\* submit_direct_candidate, on a request thread: only schedules.
SubmitDirectCandidate(h) ==
    /\ host_up /\ Event
    /\ scheduled' = scheduled \cup {[kind |-> "hint", candidate |-> h, gen |-> generation]}
    /\ UNCHANGED <<hostVars, connections, discovered, candidateVars, direct_bound_peers,
                   relay_failed, notified, binding_inflight, binding_state, circuit_dial,
                   spawned, attempt, inbound, sending>>

\* admission_changed, on a request thread: a rejected candidate that is still known is
\* queued once.  The RSS slot is consulted before the mDNS slot.
RetryCandidate ==
    IF candidate_infos # None THEN candidate_infos ELSE mdns_candidate_infos

AdmissionChanged ==
    /\ host_up /\ Event
    /\ IF /\ binding_state.state = "rejected" /\ RetryCandidate # None
          /\ EndpointOf(RetryCandidate) = binding_state.endpoint
       THEN /\ binding_state' = Settled(binding_state.endpoint, "retry_queued")
            /\ scheduled' = scheduled \cup
                  {[kind |-> "retry", candidate |-> RetryCandidate, gen |-> generation]}
       ELSE UNCHANGED <<binding_state, scheduled>>
    /\ UNCHANGED <<hostVars, connections, discovered, candidateVars, direct_bound_peers,
                   relay_failed, notified, binding_inflight, circuit_dial, spawned, attempt,
                   inbound, sending>>

\* The schedule() callbacks, on the trio thread.
RunMdns(s) ==
    /\ spawned' = IF mdns_candidate_infos = s.candidate THEN Spawn({s.candidate}) ELSE spawned
    /\ UNCHANGED <<candidateVars, binding_state>>

\* Mutant of RunHint: the hint takes the slot of the relay candidate.
HintTakesRelaySlot(s) ==
    /\ direct_hint_nodes' = s.candidate
    /\ candidate_infos' = s.candidate
    /\ spawned' = Spawn({s.candidate})
    /\ UNCHANGED <<mdns_candidate_infos, candidate_rank, binding_state>>

\* The first object of an unchanged hint is kept, so a hint object stands for its address
\* and node.
RunHint(s) ==
    /\ direct_hint_nodes' = s.candidate
    /\ mdns_candidate_infos' = s.candidate
    /\ binding_state' =
          IF binding_state.endpoint = Lan /\ binding_state.state = "rejected"
          THEN Settled(Lan, "retry_queued") ELSE binding_state
    /\ spawned' = Spawn({s.candidate})
    /\ UNCHANGED <<candidate_infos, candidate_rank>>

RunRetry(s) ==
    /\ spawned' = IF binding_state = Settled(EndpointOf(s.candidate), "retry_queued")
                  THEN Spawn({s.candidate}) ELSE spawned
    /\ UNCHANGED <<candidateVars, binding_state>>

\* A callback of an earlier generation does nothing, but a retry gives the rejection back.
RunExpired(s) ==
    /\ binding_state' =
          IF s.kind = "retry" /\ binding_state = Settled(EndpointOf(s.candidate), "retry_queued")
          THEN Settled(EndpointOf(s.candidate), "rejected") ELSE binding_state
    /\ UNCHANGED <<candidateVars, spawned>>

RunScheduled(s) ==
    /\ s \in scheduled /\ TrioFree
    /\ scheduled' = scheduled \ {s}
    /\ IF host_up /\ s.gen = generation
       THEN CASE s.kind = "mdns" -> RunMdns(s)
              [] s.kind = "hint" -> RunHint(s)
              [] OTHER -> RunRetry(s)
       ELSE RunExpired(s)
    /\ UNCHANGED <<hostVars, connections, discovered, direct_bound_peers, relay_failed,
                   notified, binding_inflight, circuit_dial, attempt, inbound, sending, events>>

\* _queue_rss_route_candidates: an authenticated relay offers its circuit to the peer.
\* A preferred relay that has not failed keeps its candidate.
SelectedEndpoint == IF candidate_infos # None THEN EndpointOf(candidate_infos) ELSE notified

OfferCircuit(c) ==
    /\ host_up /\ Event /\ TrioFree
    /\ relay_failed' = relay_failed \ {c}
    /\ IF \/ /\ candidate_rank # 0 /\ SelectedEndpoint # None
             /\ candidate_rank < Rank(c) /\ SelectedEndpoint \notin relay_failed
          \/ notified = c
       THEN UNCHANGED <<candidate_rank, candidate_infos, notified, spawned>>
       ELSE /\ candidate_rank' = Rank(c)
            /\ candidate_infos' = c
            /\ IF direct_bound_peers
               THEN UNCHANGED <<notified, spawned>>
               ELSE notified' = c /\ spawned' = Spawn({c})
    /\ UNCHANGED <<hostVars, connections, discovered, mdns_candidate_infos, direct_hint_nodes,
                   direct_bound_peers, binding_inflight, binding_state, circuit_dial,
                   scheduled, attempt, inbound, sending>>

RelayFails(c) ==
    /\ host_up /\ c \notin relay_failed /\ Event /\ TrioFree
    /\ relay_failed' = relay_failed \cup {c}
    /\ UNCHANGED <<hostVars, connections, discovered, candidateVars, direct_bound_peers,
                   notified, binding_inflight, binding_state, circuit_dial, scheduled,
                   spawned, attempt, inbound, sending>>

-----------------------------------------------------------------------------
(* Connections.                                                            *)

\* _transport_connected binds the LAN candidate, else the RSS one, else what the peerstore
\* knows of a peer that dialled in.
ConnectedCandidate ==
    IF mdns_candidate_infos # None THEN mdns_candidate_infos
    ELSE IF candidate_infos # None THEN candidate_infos ELSE "peerstore"

PeerConnects(kind) ==
    /\ host_up /\ kind \notin connections /\ Event /\ TrioFree
    /\ connections' = connections \cup {kind}
    /\ spawned' = Spawn({ConnectedCandidate})
    /\ UNCHANGED <<hostVars, discovered, candidateVars, direct_bound_peers, relay_failed,
                   notified, binding_inflight, binding_state, circuit_dial, scheduled,
                   attempt, inbound, sending>>

\* _transport_disconnected: a bind in progress keeps its state, else the peer starts
\* again from its RSS candidate.
DisconnectedState ==
    IF binding_inflight
    THEN UNCHANGED <<binding_state, notified, direct_bound_peers, spawned>>
    ELSE /\ binding_state' = NoState /\ notified' = None /\ direct_bound_peers' = FALSE
         /\ spawned' = Spawn({candidate_infos})

\* _LibP2PNotifee.disconnected: only the last connection changes anything.
ConnectionCloses(kind) ==
    /\ host_up /\ kind \in connections /\ Event /\ TrioFree
    /\ connections' = connections \ {kind}
    /\ IF connections = {kind}
       THEN discovered' = MarkTransportUnavailable /\ DisconnectedState
       ELSE UNCHANGED <<discovered, binding_state, notified, direct_bound_peers, spawned>>
    /\ UNCHANGED <<hostVars, candidateVars, relay_failed, binding_inflight, circuit_dial,
                   scheduled, attempt, inbound, sending>>

-----------------------------------------------------------------------------
(* Outbound binding: _connect_and_bind and _bind_candidate.                *)

\* The early returns of _bind_candidate.
Refused(c) ==
    LET mine == mdns_candidate_infos = c
    IN  \/ /\ candidate_rank # 0 /\ candidate_infos # None
           /\ EndpointOf(candidate_infos) # EndpointOf(c) /\ ~mine
        \/ direct_bound_peers /\ ~mine
        \/ binding_inflight
        \/ Skips(binding_state, EndpointOf(c))

\* A circuit other than the one dialled before, or a LAN dial after any circuit, first
\* closes the peer's connections so that the new address is really dialled.
NeedsClose(c) ==
    IF c \in Circuits THEN circuit_dial \notin {None, c}
    ELSE mdns_candidate_infos = c /\ circuit_dial # None

AttemptStart(c) ==
    /\ c \in spawned /\ host_up /\ TrioFree
    /\ spawned' = spawned \ {c}
    /\ IF Refused(c)
       THEN UNCHANGED <<binding_inflight, binding_state, attempt>>
       ELSE /\ binding_inflight' = TRUE
            /\ binding_state' = [endpoint |-> EndpointOf(c), state |-> "inflight", owner |-> Outbound]
            /\ attempt' = [phase |-> IF NeedsClose(c) THEN "close" ELSE "dial",
                           endpoint |-> EndpointOf(c), mdns |-> mdns_candidate_infos = c,
                           hint |-> direct_hint_nodes, current |-> NoRoute, healthy |-> FALSE]
    /\ UNCHANGED <<hostVars, connections, discovered, candidateVars, direct_bound_peers,
                   relay_failed, notified, circuit_dial, scheduled, inbound, sending, events>>

\* close_peer: the disconnect is observed while this bind owns the state.
AttemptClose ==
    /\ attempt.phase = "close" /\ host_up /\ TrioFree
    /\ connections' = {}
    /\ discovered' = IF connections # {} THEN MarkTransportUnavailable ELSE discovered
    /\ attempt' = [attempt EXCEPT !.phase = "dial"]
    /\ UNCHANGED <<hostVars, candidateVars, direct_bound_peers, relay_failed, notified,
                   binding_inflight, binding_state, circuit_dial, scheduled, spawned,
                   inbound, sending, events>>

\* host.connect reuses a live connection; a circuit is dialled by new_stream.  A circuit is
\* recorded as the selected one first.
AttemptDial ==
    /\ attempt.phase = "dial" /\ host_up /\ TrioFree
    /\ attempt' = [attempt EXCEPT !.phase = "stream"]
    /\ IF attempt.endpoint \in Circuits
       THEN circuit_dial' = attempt.endpoint /\ UNCHANGED <<connections, spawned>>
       ELSE /\ connections' = IF connections = {} THEN {"direct"} ELSE connections
            /\ spawned' = IF connections = {} THEN Spawn({ConnectedCandidate}) ELSE spawned
            /\ UNCHANGED circuit_dial
    /\ UNCHANGED <<hostVars, discovered, candidateVars, direct_bound_peers, relay_failed,
                   notified, binding_inflight, binding_state, scheduled, inbound, sending, events>>

\* The finally block, given what is notified when it runs: a failed LAN bind notifies the
\* RSS candidate; a preferred endpoint notified while the peer was busy is bound next.
Finish(known) ==
    LET fellBack == attempt.mdns /\ ~attempt.healthy
        next == IF fellBack \/ mdns_candidate_infos = None THEN candidate_infos
                ELSE mdns_candidate_infos
    IN  /\ binding_inflight' = FALSE
        /\ notified' = IF fellBack /\ candidate_infos # None THEN EndpointOf(candidate_infos)
                       ELSE known
        /\ spawned' = IF next # None /\ EndpointOf(next) # attempt.endpoint
                         /\ notified' = EndpointOf(next)
                      THEN Spawn({next}) ELSE spawned
        /\ attempt' = Idle

\* An open stream is closed, under a deadline of its own, before the finally block ends.
CloseStream(known) ==
    /\ notified' = known
    /\ attempt' = [attempt EXCEPT !.phase = "finish"]
    /\ UNCHANGED <<binding_inflight, spawned>>

AttemptFinish ==
    /\ attempt.phase = "finish" /\ TrioFree
    /\ Finish(notified)
    /\ UNCHANGED <<hostVars, connections, discovered, candidateVars, direct_bound_peers,
                   relay_failed, binding_state, circuit_dial, scheduled, inbound, sending, events>>

\* The exception handler: only the attempt that still owns the tuple rejects it.
RejectOwned ==
    binding_state' = IF Owns(Outbound) THEN Settled(attempt.endpoint, "rejected")
                     ELSE binding_state

AttemptFails ==
    /\ attempt.phase \in {"close", "dial", "stream", "claims"} /\ TrioFree
    /\ RejectOwned
    /\ IF attempt.phase = "claims" THEN CloseStream(notified) ELSE Finish(notified)
    /\ UNCHANGED <<hostVars, connections, discovered, candidateVars, direct_bound_peers,
                   relay_failed, circuit_dial, scheduled, inbound, sending, events>>

\* The deadline of the bind, or the cancellation of its generation: the attempt takes back
\* its tuple and the notification of its endpoint.
AttemptInterrupted ==
    LET known == IF Owns(Outbound) /\ notified = attempt.endpoint THEN None ELSE notified
    IN  /\ attempt.phase \in {"close", "dial", "stream", "claims"} /\ TrioFree
        /\ binding_state' = IF Owns(Outbound) THEN NoState ELSE binding_state
        /\ IF attempt.phase = "claims" THEN CloseStream(known) ELSE Finish(known)
        /\ UNCHANGED <<hostVars, connections, discovered, candidateVars, direct_bound_peers,
                       relay_failed, circuit_dial, scheduled, inbound, sending, events>>

\* new_stream rides on any live connection; a LAN candidate must have got a direct one.
AttemptStream(path) ==
    LET kind == IF attempt.endpoint \in Circuits THEN "circuit" ELSE "direct"
    IN  /\ attempt.phase = "stream" /\ host_up /\ TrioFree
        /\ path \in IF connections = {} THEN {kind} ELSE connections
        /\ connections' = connections \cup {path}
        /\ spawned' = IF connections = {} THEN Spawn({ConnectedCandidate}) ELSE spawned
        /\ IF attempt.mdns /\ path # "direct"
           THEN RejectOwned /\ attempt' = [attempt EXCEPT !.phase = "finish"]
           ELSE attempt' = [attempt EXCEPT !.phase = "claims"] /\ UNCHANGED binding_state
        /\ UNCHANGED <<hostVars, discovered, candidateVars, direct_bound_peers, relay_failed,
                       notified, binding_inflight, circuit_dial, scheduled, inbound, sending, events>>

\* Both claims verified and accepted, the stream closed: the host and the hint must still
\* be current.
AttemptCheck ==
    /\ attempt.phase = "claims" /\ TrioFree
    /\ IF ~host_up \/ (attempt.hint # None /\ direct_hint_nodes # attempt.hint)
       THEN RejectOwned /\ Finish(notified)
       ELSE /\ attempt' = [attempt EXCEPT !.phase = "install", !.current = discovered]
            /\ UNCHANGED <<binding_state, binding_inflight, notified, spawned>>
    /\ UNCHANGED <<hostVars, connections, discovered, candidateVars, direct_bound_peers,
                   relay_failed, circuit_dial, scheduled, inbound, sending, events>>

\* A circuit bind that ends after the direct route was authenticated yields to it.
DirectWon ==
    /\ ~attempt.mdns /\ mdns_candidate_infos # None
    /\ attempt.current.available /\ attempt.current.endpoint = EndpointOf(mdns_candidate_infos)

AttemptInstall ==
    /\ attempt.phase = "install"
    /\ IF DirectWon
       THEN /\ direct_bound_peers' = TRUE
            /\ binding_state' = IF Owns(Outbound) THEN Settled(attempt.current.endpoint, "healthy")
                                ELSE binding_state
            /\ Finish(notified)
            /\ UNCHANGED discovered
       ELSE /\ discovered' = InstallDiscovered(attempt.endpoint)
            /\ attempt' = [attempt EXCEPT !.phase = "settle", !.healthy = TRUE]
            /\ UNCHANGED <<direct_bound_peers, binding_state, binding_inflight, notified, spawned>>
    /\ UNCHANGED <<hostVars, connections, candidateVars, relay_failed, circuit_dial, scheduled,
                   inbound, sending, events>>

AttemptSettle ==
    /\ attempt.phase = "settle"
    /\ IF Owns(Outbound)
       THEN /\ binding_state' = Settled(attempt.endpoint, "healthy")
            /\ direct_bound_peers' = attempt.mdns
       ELSE UNCHANGED <<binding_state, direct_bound_peers>>
    /\ Finish(notified)
    /\ UNCHANGED <<hostVars, connections, discovered, candidateVars, relay_failed, circuit_dial,
                   scheduled, inbound, sending, events>>

-----------------------------------------------------------------------------
(* Inbound binding: _handle_binding_stream.                                *)

\* The stream always takes the tuple.  The peerstore may know nothing, a listen address,
\* or the selected circuit.
InboundStart(i, path, e) ==
    /\ host_up /\ inbound[i] = Idle /\ path \in connections /\ Event /\ TrioFree
    /\ e \in {None, Lan, circuit_dial}
    /\ inbound' = [inbound EXCEPT ![i] =
                     [phase |-> "claims", path |-> path, endpoint |-> e, current |-> NoRoute]]
    /\ binding_state' = [endpoint |-> e, state |-> "inflight", owner |-> i]
    /\ UNCHANGED <<hostVars, connections, discovered, candidateVars, direct_bound_peers,
                   relay_failed, notified, binding_inflight, circuit_dial, scheduled, spawned,
                   attempt, sending>>

\* The remote claim is verified on a thread, which also ends when the host is retired.
InboundVerified(i) ==
    /\ inbound[i].phase = "claims" /\ TrioFree
    /\ inbound' = [inbound EXCEPT ![i].phase = "install", ![i].current = discovered]
    /\ UNCHANGED <<hostVars, connections, discovered, candidateVars, direct_bound_peers,
                   relay_failed, notified, binding_inflight, binding_state, circuit_dial,
                   scheduled, spawned, attempt, sending, events>>

\* Which endpoint an authenticated inbound stream stands for.
InboundEndpoint(b) ==
    LET direct == mdns_candidate_infos # None /\ b.path = "direct"
        e == IF direct THEN EndpointOf(mdns_candidate_infos) ELSE b.endpoint
    IN  CASE b.current.available /\ direct_bound_peers /\ e \in Circuits -> b.current.endpoint
          [] b.current.endpoint \in Circuits /\ e \notin Circuits /\ ~direct -> b.current.endpoint
          [] e \notin Circuits /\ b.path = "circuit" -> circuit_dial
          [] OTHER -> e

InboundInstall(i) ==
    LET b == inbound[i]
        direct == mdns_candidate_infos # None /\ b.path = "direct"
        e == InboundEndpoint(b)
        kept == e \in Circuits /\ InstallDiscovered(e).endpoint \notin Circuits
    IN  /\ b.phase = "install"
        /\ discovered' = IF e = None THEN discovered ELSE InstallDiscovered(e)
        /\ IF Owns(i)
           THEN /\ binding_state' = Settled(IF e = None THEN None ELSE discovered'.endpoint, "healthy")
                /\ direct_bound_peers' = (direct_bound_peers \/ direct \/ (e # None /\ kept))
           ELSE UNCHANGED <<binding_state, direct_bound_peers>>
        /\ inbound' = [inbound EXCEPT ![i] = Idle]
        /\ UNCHANGED <<hostVars, connections, candidateVars, relay_failed, notified,
                       binding_inflight, circuit_dial, scheduled, spawned, attempt, sending, events>>

\* An error, the deadline or a cancellation: release_owned_inflight.
InboundFails(i) ==
    /\ inbound[i].phase = "claims" /\ TrioFree
    /\ binding_state' = IF Owns(i) THEN Settled(inbound[i].endpoint, "rejected") ELSE binding_state
    /\ inbound' = [inbound EXCEPT ![i] = Idle]
    /\ UNCHANGED <<hostVars, connections, discovered, candidateVars, direct_bound_peers,
                   relay_failed, notified, binding_inflight, circuit_dial, scheduled, spawned,
                   attempt, sending, events>>

-----------------------------------------------------------------------------
(* Delivery over the route: send, _send_async, _queue_failed_direct_fallback. *)

SendStart ==
    /\ host_up /\ sending = Idle /\ ResolveRetained # None /\ Event
    /\ sending' = [phase |-> "io", endpoint |-> ResolveRetained, gen |-> generation]
    /\ UNCHANGED <<hostVars, connections, discovered, candidateVars, direct_bound_peers,
                   relay_failed, notified, binding_inflight, binding_state, circuit_dial,
                   scheduled, spawned, attempt, inbound>>

\* The peer answered, with a receipt or with a rejection of its runtime.
SendAnswered ==
    LET kind == IF sending.endpoint \in Circuits THEN "circuit" ELSE "direct"
    IN  /\ sending.phase = "io" /\ host_up /\ sending.gen = generation /\ TrioFree
        /\ connections' = IF connections = {} THEN {kind} ELSE connections
        /\ spawned' = IF connections = {} THEN Spawn({ConnectedCandidate}) ELSE spawned
        /\ sending' = [sending EXCEPT !.phase = "answered"]
        /\ UNCHANGED <<hostVars, discovered, candidateVars, direct_bound_peers, relay_failed,
                       notified, binding_inflight, binding_state, circuit_dial, scheduled,
                       attempt, inbound, events>>

\* Back on the sender's thread.
SendContact ==
    /\ sending.phase = "answered"
    /\ discovered' = MarkContact(sending.endpoint)
    /\ sending' = Idle
    /\ UNCHANGED <<hostVars, connections, candidateVars, direct_bound_peers, relay_failed,
                   notified, binding_inflight, binding_state, circuit_dial, scheduled,
                   spawned, attempt, inbound, events>>

SendFails ==
    /\ sending.phase = "io"
    /\ discovered' = MarkUnavailable(sending.endpoint)
    /\ sending' = [sending EXCEPT !.phase = "failed"]
    /\ UNCHANGED <<hostVars, connections, candidateVars, direct_bound_peers, relay_failed,
                   notified, binding_inflight, binding_state, circuit_dial, scheduled,
                   spawned, attempt, inbound, events>>

SendFallback ==
    /\ sending.phase = "failed"
    /\ IF /\ sending.endpoint \notin Circuits /\ direct_bound_peers
          /\ candidate_infos \in Circuits
       THEN /\ direct_bound_peers' = FALSE
            /\ binding_state' = NoState
            /\ notified' = EndpointOf(candidate_infos)
            /\ spawned' = Spawn({candidate_infos})
       ELSE UNCHANGED <<direct_bound_peers, binding_state, notified, spawned>>
    /\ sending' = Idle
    /\ UNCHANGED <<hostVars, connections, discovered, candidateVars, relay_failed,
                   binding_inflight, circuit_dial, scheduled, attempt, inbound, events>>

-----------------------------------------------------------------------------
AttemptStep ==
    \/ AttemptClose \/ AttemptDial \/ AttemptFails
    \/ \E path \in {"direct", "circuit"} : AttemptStream(path)
    \/ AttemptCheck \/ AttemptInstall \/ AttemptSettle \/ AttemptInterrupted \/ AttemptFinish

BindingEnvironment ==
    \/ \E a \in Announcements : Announce(a)
    \/ Withdraw
    \/ \E h \in Hints : SubmitDirectCandidate(h)
    \/ AdmissionChanged
    \/ \E c \in Circuits : OfferCircuit(c) \/ RelayFails(c)
    \/ \E kind \in {"direct", "circuit"} : PeerConnects(kind) \/ ConnectionCloses(kind)
    \/ \E i \in Inbounds, path \in {"direct", "circuit"}, e \in Endpoints \cup {None} :
          InboundStart(i, path, e)
    \/ SendStart
    \/ HostRetire

BindingWork ==
    \/ HostUp \/ HostClosed
    \/ \E s \in scheduled : RunScheduled(s)
    \/ \E c \in spawned : AttemptStart(c)
    \/ AttemptStep
    \/ \E i \in Inbounds : InboundVerified(i) \/ InboundInstall(i) \/ InboundFails(i)
    \/ SendAnswered \/ SendContact \/ SendFails \/ SendFallback

BindingNext == BindingEnvironment \/ BindingWork

BindingFairness == WF_bindingVars(BindingWork)
BindingSpec == BindingInit /\ [][BindingNext]_bindingVars

-----------------------------------------------------------------------------
(* Properties.                                                             *)

\* Every variable of the binding model has its type.
BindingTypeOK ==
    /\ host_up \in BOOLEAN /\ generation \in 0..MaxGenerations
    /\ connections \subseteq {"direct", "circuit"}
    /\ discovered \in [endpoint : Endpoints \cup {None}, available : BOOLEAN]
    /\ candidate_infos \in Circuits \cup {"boot", None}
    /\ mdns_candidate_infos \in Announcements \cup Hints \cup {None}
    /\ direct_hint_nodes \in Hints \cup {None}
    /\ notified \in Endpoints \cup {None}
    /\ binding_state \in [endpoint : Endpoints \cup {None},
                          state : {"inflight", "healthy", "rejected", "retry_queued", None},
                          owner : Inbounds \cup {Outbound, None}]
    /\ circuit_dial \in Circuits \cup {None}
    /\ scheduled \subseteq [kind : {"mdns", "hint", "retry"}, candidate : Candidates,
                            gen : 1..MaxGenerations]
    /\ spawned \subseteq Candidates

\* A peer's route gets worse only for a cause.  An available direct route is never replaced
\* by a circuit, whether the circuit is bound by this node or by the peer
\* (install_discovered, direct_won); a failure that comes late never turns a healthy binding
\* into a rejected one, since an attempt rejects only the tuple it still owns; and a route
\* stops being available only because a delivery over that very endpoint failed or the
\* peer's last connection closed, so that the failure of a delivery over a route that was
\* replaced in the meantime leaves the replacement alone (mark_unavailable).
RouteLostForCause ==
    [][/\ discovered.available /\ discovered.endpoint = Lan => discovered'.endpoint = Lan
       /\ binding_state.state = "healthy" => binding_state'.state # "rejected"
       /\ discovered.available /\ ~discovered'.available =>
            \/ connections # {} /\ connections' = {}
            \/ sending.phase = "io" /\ sending'.phase = "failed"
               /\ sending.endpoint = discovered.endpoint]_bindingVars

\* Every outbound bind ends and gives the peer free for the next candidate.
BindsEnd == binding_inflight ~> ~binding_inflight

=============================================================================
