--------------------------- MODULE MdnsDiscovery ---------------------------
(***************************************************************************)
(* DaemonMDNS and the transport callbacks it drives: LAN discovery of one  *)
(* host scope.  Four threads meet here.  The transport starts the service  *)
(* and later retires it; a refresh thread follows the LAN address and      *)
(* replaces the zeroconf membership; each membership's browser thread      *)
(* brings announcements in, looking each one up before it takes the        *)
(* callback lock; and a cleanup thread outlives stop() when closing the    *)
(* network resources is slow.  zeroconf itself is external: it queues an   *)
(* event per change, and a lookup may find nothing in time.                *)
(***************************************************************************)
EXTENDS Integers, Sequences, FiniteSets

CONSTANTS
    ServiceName,    \* names other hosts may announce under
    PeerInfos,      \* [peer, addr] an announcement may carry; addr 0 is no address
    SelfPeer,       \* the daemon's own peer id
    NoPeer,         \* no announcement, no candidate
    MaxLanEvents,   \* bound on announcements, LAN changes and failures
    MaxMemberships

ASSUME MdnsAssumption ==
    /\ NoPeer \notin PeerInfos /\ "none" \notin ServiceName
    /\ MaxLanEvents \in Nat /\ MaxMemberships \in Nat

VARIABLES
    announced,      \* announced[name]: what is on the network
    lanUp,          \* advertised_listener_addresses would be non-empty
    mdnsActive,     \* _active
    zeroconf,       \* _zeroconf: the number of the current membership, or 0
    memberships,    \* the memberships not yet closed
    opening,        \* how many were ever opened
    services,       \* _services
    browser,        \* browser[m]: queued events and the lookup under way
    callbacks,      \* the callbacks the holder of _callback_lock still has to make
    refresher,      \* [pc, seen, old]; between "detach" and "wait" it owns _network_lock
    scope,          \* the transport's part: which step of start or retire
    cleanup,        \* the cleanup thread of stop()
    held,           \* the transport's _mdns_candidate_infos
    lanEvents, missed

mdnsVars == <<announced, lanUp, mdnsActive, zeroconf, memberships, opening, services,
              browser, callbacks, refresher, scope, cleanup, held, lanEvents, missed>>

LanPeers == {info.peer : info \in PeerInfos} \ {SelfPeer}
Membership == 1..MaxMemberships
NoLookup == [name |-> "none", info |-> NoPeer]
NothingAnnounced == [name \in ServiceName |-> NoPeer]
NothingHeld == [peer \in LanPeers |-> NoPeer]

\* The elements of a set in some order.
Orderings(S) ==
    {s \in UNION {[1..n -> S] : n \in 0..Cardinality(S)} : {s[i] : i \in DOMAIN s} = S}

LanEvent == lanEvents < MaxLanEvents /\ lanEvents' = lanEvents + 1
Quietly == UNCHANGED lanEvents
CallbackLockFree == callbacks = <<>>
NetworkLockFree == scope # "opening" /\ refresher.pc \in {"off", "wait", "read", "gone"}

\* _discovery_service is set: the transport's callbacks are not ignored.
Attached == scope \in {"opening", "serving"}

\* _active, which stop() clears, and its _stop_refresh event.
Listening(m) == mdnsActive /\ zeroconf = m

\* _peer_info: an own, malformed or wildcard announcement is no candidate.
PeerInfoOf(record) ==
    IF record # NoPeer => record.peer = SelfPeer \/ record.addr = 0 THEN NoPeer ELSE record

---------------------------------------------------------------------------
\* The network.

\* Another host announces, changes or withdraws a name; every open browser
\* queues the event.
NetworkChanges(name, info) ==
    /\ LanEvent /\ announced[name] # info
    /\ announced' = [announced EXCEPT ![name] = info]
    /\ browser' = [m \in Membership |->
           IF m \in memberships
           THEN [browser[m] EXCEPT !.queue = Append(@,
                    [name |-> name, gone |-> info = NoPeer])]
           ELSE browser[m]]
    /\ UNCHANGED <<lanUp, mdnsActive, zeroconf, memberships, opening, services,
                   callbacks, refresher, scope, cleanup, held, missed>>

LanChanges ==
    /\ LanEvent /\ lanUp' = ~lanUp
    /\ UNCHANGED <<announced, mdnsActive, zeroconf, memberships, opening, services,
                   browser, callbacks, refresher, scope, cleanup, held, missed>>

---------------------------------------------------------------------------
\* Memberships.

\* _open_membership: a new zeroconf, whose browser reports what is there.
OpensMembership ==
    /\ opening < MaxMemberships
    /\ opening' = opening + 1
    /\ zeroconf' = opening + 1
    /\ memberships' = memberships \cup {opening + 1}
    /\ \E reports \in Orderings({[name |-> name, gone |-> FALSE] :
                                    name \in {n \in ServiceName : announced[n] # NoPeer}}) :
           browser' = [browser EXCEPT ![opening + 1].queue = reports]

\* Registration or the browser fails; the half-open membership is closed.
OpenFails ==
    /\ zeroconf' = 0
    /\ UNCHANGED <<opening, memberships, browser>>

\* start(), called by _start_mdns_discovery.
StartMdns ==
    /\ scope = "new"
    /\ mdnsActive' = TRUE
    /\ IF lanUp THEN scope' = "opening" /\ UNCHANGED refresher
                ELSE scope' = "serving" /\ refresher' = [refresher EXCEPT !.pc = "wait"]
    /\ Quietly
    /\ UNCHANGED <<announced, lanUp, zeroconf, memberships, opening, services, browser,
                   callbacks, cleanup, held, missed>>

\* A start that fails is stopped again, like a scope that is retired.
StartOpens ==
    /\ scope = "opening"
    /\ \/ /\ OpensMembership /\ Quietly
          /\ scope' = "serving" /\ refresher' = [refresher EXCEPT !.pc = "wait"]
       \/ /\ OpenFails /\ LanEvent
          /\ scope' = "detached" /\ UNCHANGED refresher
    /\ UNCHANGED <<announced, lanUp, mdnsActive, services, callbacks, cleanup, held, missed>>

---------------------------------------------------------------------------
\* The browser threads: remove_service and _update_service.

\* What publishing the loss of one candidate of a peer calls: another name
\* of the same peer takes over, or the peer is removed.
RemovedOrRemaining(left, info) ==
    LET others == {name \in ServiceName : left[name] # NoPeer /\ left[name].peer = info.peer}
    IN IF others = {} THEN {<<[peer |-> info.peer, info |-> NoPeer]>>}
       ELSE {<<[peer |-> info.peer, info |-> left[name]]>> : name \in others}

\* The callbacks due when a name's candidate is dropped or replaced.
Replaced(name, info) ==
    LET before == services[name]
        left == [services EXCEPT ![name] = NoPeer]
    IN IF before = NoPeer \/ (info # NoPeer /\ info.peer = before.peer) THEN {<<>>}
       ELSE RemovedOrRemaining(left, before)

\* remove_service.
BrowserRemoves(m) ==
    /\ browser[m].lookup = NoLookup /\ browser[m].queue # <<>> /\ Head(browser[m].queue).gone
    /\ CallbackLockFree
    /\ LET name == Head(browser[m].queue).name
       IN IF Listening(m)
          THEN /\ services' = [services EXCEPT ![name] = NoPeer]
               /\ callbacks' \in Replaced(name, NoPeer)
          ELSE UNCHANGED <<services, callbacks>>
    /\ browser' = [browser EXCEPT ![m].queue = Tail(@)]
    /\ Quietly
    /\ UNCHANGED <<announced, lanUp, mdnsActive, zeroconf, memberships, opening,
                   refresher, scope, cleanup, held, missed>>

\* get_service_info, without the lock: the record as it is now, or nothing.
BrowserLooksUp(m) ==
    /\ browser[m].lookup = NoLookup /\ browser[m].queue # <<>> /\ ~Head(browser[m].queue).gone
    /\ LET name == Head(browser[m].queue).name
           next(lookup) == [browser EXCEPT ![m] = [queue |-> Tail(@.queue), lookup |-> lookup]]
       IN \/ /\ ~Listening(m) /\ browser' = next(NoLookup)
             /\ Quietly /\ UNCHANGED missed
          \/ /\ Listening(m) /\ browser' = next([name |-> name, info |-> PeerInfoOf(announced[name])])
             /\ Quietly /\ UNCHANGED missed
          \/ /\ Listening(m) /\ browser' = next([name |-> name, info |-> NoPeer])
             /\ PeerInfoOf(announced[name]) # NoPeer /\ LanEvent /\ missed' = TRUE
    /\ UNCHANGED <<announced, lanUp, mdnsActive, zeroconf, memberships, opening, services,
                   callbacks, refresher, scope, cleanup, held>>

\* The second look at _active and _zeroconf, under the lock.
StillListening(m) == Listening(m)

\* The rest of _update_service: the table first, then the callbacks.
BrowserApplies(m) ==
    /\ browser[m].lookup # NoLookup /\ CallbackLockFree
    /\ LET name == browser[m].lookup.name
           info == browser[m].lookup.info
       IN IF StillListening(m)
          THEN /\ services' = [services EXCEPT ![name] = info]
               /\ \E calls \in Replaced(name, info) :
                      callbacks' = IF info = NoPeer THEN calls
                                   ELSE Append(calls, [peer |-> info.peer, info |-> info])
          ELSE UNCHANGED <<services, callbacks>>
    /\ browser' = [browser EXCEPT ![m].lookup = NoLookup]
    /\ Quietly
    /\ UNCHANGED <<announced, lanUp, mdnsActive, zeroconf, memberships, opening,
                   refresher, scope, cleanup, held, missed>>

\* discovered or removed: it has seen the scope attached, or ignores the call.
Callback ==
    /\ callbacks # <<>>
    /\ callbacks' = Tail(callbacks)
    /\ \/ held' = [held EXCEPT ![Head(callbacks).peer] = Head(callbacks).info]
       \/ ~Attached /\ UNCHANGED held
    /\ Quietly
    /\ UNCHANGED <<announced, lanUp, mdnsActive, zeroconf, memberships, opening, services,
                   browser, refresher, scope, cleanup, missed>>

---------------------------------------------------------------------------
\* _refresh_addresses, one round after each interval.

RefreshOff == ~mdnsActive

RefreshReads ==
    /\ refresher.pc = "wait"
    /\ refresher' = IF RefreshOff THEN [refresher EXCEPT !.pc = "gone"]
                    ELSE [[refresher EXCEPT !.pc = "read"] EXCEPT !.seen = lanUp]
    /\ Quietly
    /\ UNCHANGED <<announced, lanUp, mdnsActive, zeroconf, memberships, opening, services,
                   browser, callbacks, scope, cleanup, held, missed>>

\* The check under _network_lock.
RefreshStops == RefreshOff

\* Under _network_lock: nothing to do, or the current membership is detached.
RefreshDetaches ==
    /\ refresher.pc = "read" /\ NetworkLockFree
    /\ IF RefreshStops
       THEN refresher' = [refresher EXCEPT !.pc = "gone"] /\ UNCHANGED zeroconf
       ELSE IF refresher.seen = (zeroconf # 0)
       THEN refresher' = [refresher EXCEPT !.pc = "wait"] /\ UNCHANGED zeroconf
       ELSE /\ refresher' = [[refresher EXCEPT !.pc = "remove"] EXCEPT !.old = zeroconf]
            /\ zeroconf' = 0
    /\ Quietly
    /\ UNCHANGED <<announced, lanUp, mdnsActive, memberships, opening, services, browser,
                   callbacks, scope, cleanup, held, missed>>

\* _remove_all_candidates.
RefreshRemovesAll ==
    /\ refresher.pc = "remove" /\ CallbackLockFree
    /\ services' = NothingAnnounced
    /\ IF mdnsActive
       THEN callbacks' \in Orderings({[peer |-> services[name].peer, info |-> NoPeer] :
                                         name \in {n \in ServiceName : services[n] # NoPeer}})
       ELSE callbacks' = <<>>
    /\ refresher' = [refresher EXCEPT !.pc = "close"]
    /\ Quietly
    /\ UNCHANGED <<announced, lanUp, mdnsActive, zeroconf, memberships, opening, browser,
                   scope, cleanup, held, missed>>

RefreshCloses ==
    /\ refresher.pc = "close" /\ CallbackLockFree
    /\ memberships' = memberships \ {refresher.old}
    /\ refresher' = [[refresher EXCEPT !.pc = IF refresher.seen THEN "open" ELSE "wait"] EXCEPT !.old = 0]
    /\ Quietly
    /\ UNCHANGED <<announced, lanUp, mdnsActive, zeroconf, opening, services, browser,
                   callbacks, scope, cleanup, held, missed>>

\* A failure is logged and the next round tries again.
RefreshOpens ==
    /\ refresher.pc = "open"
    /\ \/ OpensMembership /\ Quietly
       \/ OpenFails /\ LanEvent
    /\ refresher' = [refresher EXCEPT !.pc = "wait"]
    /\ UNCHANGED <<announced, lanUp, mdnsActive, services, callbacks, scope, cleanup, held,
                   missed>>

---------------------------------------------------------------------------
\* _retire_host_scope and stop().

RetireScope ==
    /\ scope = "serving" /\ scope' = "detached"
    /\ Quietly
    /\ UNCHANGED <<announced, lanUp, mdnsActive, zeroconf, memberships, opening, services,
                   browser, callbacks, refresher, cleanup, held, missed>>

\* Mutant of StopListening: _active is cleared without the callback lock.
StopsUnlocked ==
    /\ scope = "detached" /\ scope' = "stopped"
    /\ mdnsActive' = FALSE /\ services' = NothingAnnounced
    /\ cleanup' = "waiting"
    /\ Quietly
    /\ UNCHANGED <<announced, lanUp, zeroconf, memberships, opening, browser, callbacks,
                   refresher, held, missed>>

\* stop(): callbacks end under the lock, then the cleanup thread starts; the
\* caller waits for it no longer than a timeout.
StopListening ==
    /\ scope = "detached" /\ CallbackLockFree
    /\ scope' = "stopped"
    /\ mdnsActive' = FALSE /\ services' = NothingAnnounced
    /\ cleanup' = "waiting"
    /\ Quietly
    /\ UNCHANGED <<announced, lanUp, zeroconf, memberships, opening, browser, callbacks,
                   refresher, held, missed>>

\* The cleanup thread, once nobody else works on the network resources.
CleanupCloses ==
    /\ cleanup = "waiting" /\ NetworkLockFree
    /\ cleanup' = "done"
    /\ zeroconf' = 0 /\ memberships' = memberships \ {zeroconf}
    /\ Quietly
    /\ UNCHANGED <<announced, lanUp, mdnsActive, opening, services, browser, callbacks,
                   refresher, scope, held, missed>>

\* The scope forgets its candidates.
RetireClears ==
    /\ scope = "stopped" /\ scope' = "cleared"
    /\ held' = NothingHeld
    /\ Quietly
    /\ UNCHANGED <<announced, lanUp, mdnsActive, zeroconf, memberships, opening, services,
                   browser, callbacks, refresher, cleanup, missed>>

---------------------------------------------------------------------------
MdnsInit ==
    /\ announced = NothingAnnounced /\ lanUp \in BOOLEAN
    /\ mdnsActive = FALSE /\ zeroconf = 0 /\ memberships = {} /\ opening = 0
    /\ services = NothingAnnounced
    /\ browser = [m \in Membership |-> [queue |-> <<>>, lookup |-> NoLookup]]
    /\ callbacks = <<>>
    /\ refresher = [pc |-> "off", seen |-> FALSE, old |-> 0]
    /\ scope = "new" /\ cleanup = "none"
    /\ held = NothingHeld
    /\ lanEvents = 0 /\ missed = FALSE

BrowserThread(m) == BrowserRemoves(m) \/ BrowserLooksUp(m) \/ BrowserApplies(m)
RefreshThread ==
    RefreshReads \/ RefreshDetaches \/ RefreshRemovesAll \/ RefreshCloses \/ RefreshOpens
ScopeThread == StartMdns \/ StartOpens \/ StopListening \/ RetireClears

MdnsNext ==
    \/ \E name \in ServiceName, info \in PeerInfos \cup {NoPeer} : NetworkChanges(name, info)
    \/ LanChanges
    \/ \E m \in Membership : BrowserThread(m)
    \/ Callback \/ RefreshThread \/ ScopeThread \/ RetireScope \/ CleanupCloses

MdnsSpec == MdnsInit /\ [][MdnsNext]_mdnsVars

\* Threads keep running; the scope may serve for ever.
MdnsFairness ==
    /\ \A m \in Membership : WF_mdnsVars(BrowserThread(m))
    /\ WF_mdnsVars(Callback) /\ WF_mdnsVars(RefreshThread)
    /\ WF_mdnsVars(ScopeThread) /\ WF_mdnsVars(CleanupCloses)

FairMdnsSpec == MdnsSpec /\ MdnsFairness

---------------------------------------------------------------------------
\* The service's variables keep their types, and the current membership is
\* one of those still open.
MdnsTypeOK ==
    /\ services \in [ServiceName -> PeerInfos \cup {NoPeer}]
    /\ held \in [LanPeers -> PeerInfos \cup {NoPeer}]
    /\ zeroconf \in memberships \cup {0} /\ memberships \subseteq Membership
    /\ scope \in {"new", "opening", "serving", "detached", "stopped", "cleared"}
    /\ refresher.pc \in {"off", "wait", "read", "remove", "close", "open", "gone"}
    /\ cleanup \in {"none", "waiting", "done"}

\* What discovery holds is what the network announces.  While the scope is
\* attached and no callback is under way, the transport holds a candidate for
\* exactly the peers some service name announces, at one of their addresses:
\* names that share a peer, change hands or go away one by one never leave a
\* withdrawn address behind (_publish_removed_or_remaining).  Between
\* memberships the service knows nothing, also after a lookup begun on the
\* membership that was replaced (_remove_all_candidates); a retired scope never
\* sees a candidate again, whatever was under way when it was retired
\* (_retire_host_scope); and once the browser has worked off its queue with
\* every lookup answered, the table is what is on the network (_update_service).
HeldIsCurrent ==
    /\ Attached /\ CallbackLockFree =>
        \A peer \in LanPeers :
            IF held[peer] = NoPeer
            THEN \A name \in ServiceName : services[name] = NoPeer \/ services[name].peer # peer
            ELSE \E name \in ServiceName : services[name] = held[peer] /\ held[peer].peer = peer
    /\ zeroconf = 0 /\ refresher.pc # "remove" => services = NothingAnnounced
    /\ scope = "cleared" => held = NothingHeld
    /\ zeroconf # 0 /\ mdnsActive /\ CallbackLockFree /\ ~missed
       /\ browser[zeroconf] = [queue |-> <<>>, lookup |-> NoLookup] =>
        services = [name \in ServiceName |-> PeerInfoOf(announced[name])]

\* stop() lets go of every membership in the end and for good, also of one a
\* refresh was opening when it was called.  (stop, _refresh_addresses)
StopReleases == (scope = "stopped") ~> [](memberships = {})

=============================================================================
