-------------------------- MODULE OutboundDelivery --------------------------
(***************************************************************************)
(* The durable outbound queue of one node: the envelopes table, the        *)
(* delivery workers that drain it (runtime/outbound_delivery.py), the      *)
(* per-peer delivery lock, the local daemon that forwards a route request  *)
(* to the peer, and the operator commands that add to or close the queue.  *)
(*                                                                         *)
(* Every SQLite transaction is one step.  A worker is a subprocess that    *)
(* runs one pass; several may overlap (a daemon that was killed leaves its *)
(* worker running, and `internal deliver-pending` can be run by hand).     *)
(* Wall-clock time appears only through what the code compares: a retry    *)
(* deadline is in the past or not, a claim is older than the lease or not. *)
(***************************************************************************)
EXTENDS Integers, Sequences, FiniteSets

CONSTANTS
  Peers,                  \* node ids in the peer registry
  Workers,                \* delivery worker processes
  LastTransaction,        \* bound: local transactions are 1 .. LastTransaction
  Kind,                   \* transaction -> "secret", "register" or "update"
  Grant,                  \* peer -> transactions inside its authorized scope
  MAX_DELIVERY_ATTEMPTS,
  MaxCrashes,             \* bound: workers killed in the middle of a pass
  MaxResumes              \* bound: passes started with recovered peers

Transactions == 1..LastTransaction

Envelopes == Transactions \X Peers

ASSUME QueueAssumption ==
  /\ IsFiniteSet(Peers)
  /\ LastTransaction \in Nat
  /\ MAX_DELIVERY_ATTEMPTS \in Nat \ {0}
  /\ MaxCrashes \in Nat
  /\ MaxResumes \in Nat
  /\ Kind \in [Transactions -> {"secret", "register", "update"}]
  /\ Grant \in [Peers -> SUBSET Transactions]
  /\ {"free", "operator"} \cap Workers = {}

\* A node registers its endpoint once and then only updates it.
ASSUME EndpointAssumption ==
  /\ \A t \in Transactions :
       Kind[t] = "update" => \E r \in 1..(t - 1) : Kind[r] = "register"
  /\ \A r, s \in Transactions :
       Kind[r] = "register" /\ Kind[s] = "register" => r = s

VARIABLES
  registry,  \* peer -> admission state (nodes.state)
  created,   \* number of local transactions committed so far
  state,     \* envelope -> envelopes.state, "absent" before its row exists
  next,      \* envelope -> next_attempt_at: "null", "later" or "due"
  attempts,  \* envelope -> attempt_count
  expired,   \* rows in flight whose claimed_at is CLAIM_LEASE_SECONDS old
  pc,        \* worker -> where it is in its pass
  todo,      \* worker -> rows of its listing it has not reached
  failed,    \* worker -> failed_peers of this pass
  cur,       \* worker -> the row it claimed
  seen,      \* worker -> attempt_count read with that row
  route,     \* worker -> its request to the daemon
  late,      \* requests the daemon still forwards for nobody
  lock,      \* peer -> holder of the peer delivery lock
  received,  \* envelopes the peer has accepted
  spent,     \* peer -> failed handoffs since its last success or resume (history)
  crashes, resumes

rows   == <<state, next, attempts, expired>>
worker == <<pc, todo, failed, cur, seen, route>>
bounds == <<spent, crashes, resumes>>
vars   == <<registry, created, rows, worker, late, lock, received, bounds>>

-----------------------------------------------------------------------------
(* What the rows mean to the code                                          *)

Live     == {"pending", "retry_pending", "claimed", "sending"}
InFlight == {"claimed", "sending"}
Queued   == {"pending", "retry_pending"}
RowState == Live \cup {"absent", "sent", "authorization_denied"}
PC == {"idle", "prerequisites", "recover", "list", "next", "lock",
       "authorize", "authorized", "send"}

NoRow == <<0, "none">>

Parked(e) == state[e] = "retry_pending" /\ next[e] = "null"

\* is_peer_synchronization_eligible for the scope of transaction t
Eligible(p, t) == registry[p] = "active" /\ t \in Grant[p]

\* INSERT OR IGNORE of pending rows
Persist(E) ==
  state' = [e \in Envelopes |->
              IF e \in E /\ state[e] = "absent" THEN "pending" ELSE state[e]]

\* The local endpoint history below transaction t
Chain(t) == {u \in 1..(t - 1) : Kind[u] # "secret"}

\* What the backwards walk collects before it meets a row already sent
Prerequisites(t, p) ==
  {u \in Chain(t) : \A v \in Chain(t) : u <= v => state[<<v, p>>] # "sent"}

\* The receiving node applies an update only on top of its predecessor
Accepts(e) ==
  \/ e \in received
  \/ Kind[e[1]] # "update"
  \/ \E u \in Chain(e[1]) :
       /\ \A v \in Chain(e[1]) : v <= u
       /\ <<u, e[2]>> \in received

\* The row keeps the rest of its peer's queue back: it is parked or waits
Blocks(b) == state[b] = "retry_pending" /\ next[b] \in {"null", "later"}

\* Queued, and no deadline ahead of it
Claimable(e) == state[e] \in Queued /\ next[e] \in {"null", "due"}

\* _deliverable_outbound_envelopes: no row of the same peer waits or is parked
Deliverable ==
  {e \in Envelopes :
     /\ Claimable(e)
     /\ ~ \E b \in Envelopes : b[2] = e[2] /\ Blocks(b)}

\* Mutant of Before: the row with the fewest attempts goes first
BeforeFresh(a, b) ==
  \/ state[a] = "retry_pending" /\ state[b] = "pending"
  \/ state[a] = state[b] /\ attempts[a] < attempts[b]

\* ORDER BY retry_pending first, attempt_count DESC, next_attempt_at, rowid.
\* The order of two deadlines that both passed is not represented.
Before(a, b) ==
  \/ state[a] = "retry_pending" /\ state[b] = "pending"
  \/ /\ state[a] = state[b]
     /\ \/ attempts[a] > attempts[b]
        \/ /\ attempts[a] = attempts[b]
           /\ state[a] = "pending"
           /\ a[1] < b[1]

Listings ==
  {q \in [1..Cardinality(Deliverable) -> Deliverable] :
     \A i, j \in DOMAIN q : i < j => q[i] # q[j] /\ ~ Before(q[j], q[i])}

-----------------------------------------------------------------------------
(* The rest of the node: local writes, admission, revocation               *)

\* A committed local write queues one row per eligible peer; a local-only
\* write (import, unpropagated endpoint registration) queues none.
SubmitTransaction(propagate) ==
  LET t == created + 1 IN
  /\ created < LastTransaction
  /\ created' = t
  /\ Persist({<<t, p>> : p \in {q \in Peers : propagate /\ Eligible(q, t)}})
  /\ UNCHANGED <<registry, next, attempts, expired, worker, late, lock,
                 received, bounds>>

\* authorize_existing_sqlite_secret_for_sync
AuthorizeExisting(t) ==
  /\ t <= created
  /\ Kind[t] = "secret"
  /\ Persist({<<t, p>> : p \in {q \in Peers : Eligible(q, t)}})
  /\ UNCHANGED <<registry, created, next, attempts, expired, worker, late,
                 lock, received, bounds>>

AcceptPeer(p) ==
  /\ registry[p] = "admission_requested"
  /\ registry' = [registry EXCEPT ![p] = "active"]
  /\ UNCHANGED <<created, rows, worker, late, lock, received, bounds>>

\* revoke_peer_admission signs and submits while it holds the lock; giving up
\* after 30 s of waiting changes nothing
LockForRevoke(p) ==
  /\ lock[p] = "free"
  /\ lock' = [lock EXCEPT ![p] = "operator"]
  /\ UNCHANGED <<registry, created, rows, worker, late, received, bounds>>

\* What the revocation denies: rows in flight as well as queued ones
RevokedRows(p) == {e \in Envelopes : e[2] = p /\ state[e] \in Live}

\* One transaction: the peer becomes revoked and its live rows are denied
RevokePeer(p) ==
  /\ lock[p] = "operator"
  /\ registry[p] = "active"
  /\ registry' = [registry EXCEPT ![p] = "revoked"]
  /\ state' = [e \in Envelopes |-> IF e \in RevokedRows(p)
                                   THEN "authorization_denied" ELSE state[e]]
  /\ next' = [e \in Envelopes |-> IF e \in RevokedRows(p) THEN "null" ELSE next[e]]
  /\ expired' = expired \ RevokedRows(p)
  /\ lock' = [lock EXCEPT ![p] = "free"]
  /\ UNCHANGED <<created, attempts, worker, late, received, bounds>>

\* The transaction is refused: the peer is not actively admitted
RevokeRefused(p) ==
  /\ lock[p] = "operator"
  /\ registry[p] # "active"
  /\ lock' = [lock EXCEPT ![p] = "free"]
  /\ UNCHANGED <<registry, created, rows, worker, late, received, bounds>>

-----------------------------------------------------------------------------
(* One worker pass                                                         *)

Goto(w, label) == pc' = [pc EXCEPT ![w] = label]

\* resume_peer_delivery for every recovered peer the pass was started with
BeginPass(w, recovered) ==
  LET woken == {e \in Envelopes : e[2] \in recovered /\ Parked(e)} IN
  /\ pc[w] = "idle"
  /\ recovered # {} => resumes < MaxResumes
  /\ resumes' = IF recovered = {} THEN resumes ELSE resumes + 1
  /\ next' = [e \in Envelopes |-> IF e \in woken THEN "due" ELSE next[e]]
  /\ attempts' = [e \in Envelopes |-> IF e \in woken THEN 0 ELSE attempts[e]]
  /\ spent' = [p \in Peers |-> IF \E e \in woken : e[2] = p THEN 0 ELSE spent[p]]
  /\ Goto(w, "prerequisites")
  /\ UNCHANGED <<registry, created, state, expired, todo, failed, cur, seen,
                 route, late, lock, received, crashes>>

QueueEndpointPrerequisites(w) ==
  LET updates == {e \in Envelopes : /\ state[e] \in Queued
                                    /\ Kind[e[1]] = "update"
                                    /\ registry[e[2]] = "active"} IN
  /\ pc[w] = "prerequisites"
  /\ Persist({f \in Envelopes :
                /\ Eligible(f[2], f[1])
                /\ \E e \in updates :
                     e[2] = f[2] /\ f[1] \in Prerequisites(e[1], f[2])})
  /\ Goto(w, "recover")
  /\ UNCHANGED <<registry, created, next, attempts, expired, todo, failed, cur,
                 seen, route, late, lock, received, bounds>>

\* Claims older than the lease
Stale == {e \in expired : state[e] \in InFlight}

\* Mutant of RecoverStaleInflight: an interrupted row is dropped, not retried
RecoverDrops(w) ==
  /\ pc[w] = "recover"
  /\ state' = [e \in Envelopes |-> IF e \in Stale THEN "absent" ELSE state[e]]
  /\ next' = [e \in Envelopes |-> IF e \in Stale THEN "null" ELSE next[e]]
  /\ expired' = expired \ Stale
  /\ Goto(w, "list")
  /\ UNCHANGED <<registry, created, attempts, todo, failed, cur, seen,
                 route, late, lock, received, bounds>>

RecoverStaleInflight(w) ==
  /\ pc[w] = "recover"
  /\ state' = [e \in Envelopes |-> IF e \in Stale THEN "retry_pending" ELSE state[e]]
  /\ next' = [e \in Envelopes |->
                IF e \in Stale
                THEN IF attempts[e] >= MAX_DELIVERY_ATTEMPTS THEN "null" ELSE "due"
                ELSE next[e]]
  /\ expired' = expired \ Stale
  /\ Goto(w, "list")
  /\ UNCHANGED <<registry, created, attempts, todo, failed, cur, seen,
                 route, late, lock, received, bounds>>

ListDeliverable(w) ==
  /\ pc[w] = "list"
  /\ \E q \in Listings : todo' = [todo EXCEPT ![w] = q]
  /\ Goto(w, "next")
  /\ UNCHANGED <<registry, created, rows, failed, cur, seen, route, late, lock,
                 received, bounds>>

AtRow(w, e) == pc[w] = "next" /\ todo[w] # <<>> /\ e = Head(todo[w])

Advance(w) == todo' = [todo EXCEPT ![w] = Tail(@)]

\* The peer already failed in this pass, or another worker, a deadline or a
\* revocation took the row since it was listed
SkipRow(w) ==
  \E e \in Envelopes :
    /\ AtRow(w, e)
    /\ e[2] \in failed[w] \/ ~ Claimable(e)
    /\ Advance(w)
    /\ UNCHANGED <<registry, created, rows, pc, failed, cur, seen, route, late,
                   lock, received, bounds>>

ClaimOutboundEnvelope(w) ==
  \E e \in Envelopes :
    /\ AtRow(w, e)
    /\ e[2] \notin failed[w]
    /\ Claimable(e)
    /\ Advance(w)
    /\ state' = [state EXCEPT ![e] = "claimed"]
    /\ expired' = expired \ {e}
    /\ attempts' = [attempts EXCEPT ![e] = @ + 1]
    /\ cur' = [cur EXCEPT ![w] = e]
    /\ seen' = [seen EXCEPT ![w] = attempts[e] + 1]
    /\ Goto(w, "lock")
    /\ UNCHANGED <<registry, created, next, failed, route, late, lock,
                   received, bounds>>

\* Mutant of AcquirePeerLock: the lock is taken over from its holder
AcquireHeldLock(w) ==
  /\ pc[w] = "lock"
  /\ lock' = [lock EXCEPT ![cur[w][2]] = w]
  /\ Goto(w, "authorize")
  /\ UNCHANGED <<registry, created, rows, todo, failed, cur, seen, route, late,
                 received, bounds>>

\* peer_delivery_lock without a timeout
AcquirePeerLock(w) ==
  /\ pc[w] = "lock"
  /\ lock[cur[w][2]] = "free"
  /\ lock' = [lock EXCEPT ![cur[w][2]] = w]
  /\ Goto(w, "authorize")
  /\ UNCHANGED <<registry, created, rows, todo, failed, cur, seen, route, late,
                 received, bounds>>

\* Leave the lock's scope and go on to the next row of the listing
ReleasePeerLock(w) ==
  /\ lock' = [lock EXCEPT ![cur[w][2]] = "free"]
  /\ cur' = [cur EXCEPT ![w] = NoRow]
  /\ seen' = [seen EXCEPT ![w] = 0]
  /\ Goto(w, "next")

Authorize(w) ==
  /\ pc[w] = "authorize"
  /\ Eligible(cur[w][2], cur[w][1])
  /\ Goto(w, "authorized")
  /\ UNCHANGED <<registry, created, rows, todo, failed, cur, seen, route, late,
                 lock, received, bounds>>

\* UPDATE ... SET state = final WHERE envelope_id = e AND state IN expected
Settle(e, expected, final) ==
  IF state[e] \in expected
  THEN /\ state' = [state EXCEPT ![e] = final]
       /\ next' = [next EXCEPT ![e] = "null"]
       /\ expired' = expired \ {e}
  ELSE UNCHANGED <<state, next, expired>>

MarkAuthorizationDenied(w) ==
  /\ pc[w] = "authorize"
  /\ ~ Eligible(cur[w][2], cur[w][1])
  /\ Settle(cur[w], InFlight, "authorization_denied")
  /\ ReleasePeerLock(w)
  /\ UNCHANGED <<registry, created, attempts, todo, failed, route,
                 late, received, bounds>>

\* claimed -> sending, then request_opaque_route
MarkSending(w) ==
  /\ pc[w] = "authorized"
  /\ state[cur[w]] = "claimed"
  /\ state' = [state EXCEPT ![cur[w]] = "sending"]
  /\ route' = [route EXCEPT ![w] = "queued"]
  /\ Goto(w, "send")
  /\ UNCHANGED <<registry, created, next, attempts, expired, todo, failed, cur,
                 seen, late, lock, received, bounds>>

\* The claim is gone: recovered, taken over or denied while this one waited
ClaimLost(w) ==
  /\ pc[w] = "authorized"
  /\ state[cur[w]] # "claimed"
  /\ ReleasePeerLock(w)
  /\ UNCHANGED <<registry, created, rows, todo, failed, route, late,
                 received, bounds>>

\* deliver_outbound_envelope: what the daemon answered, or 15 s without answer
Delivered(w) == route[w] = "delivered"
NotDelivered(w) == route[w] \in {"error", "queued"}

MarkSent(w) ==
  /\ pc[w] = "send"
  /\ Delivered(w)
  /\ Settle(cur[w], {"sending"}, "sent")
  /\ route' = [route EXCEPT ![w] = "none"]
  /\ spent' = [spent EXCEPT ![cur[w][2]] = 0]
  /\ ReleasePeerLock(w)
  /\ UNCHANGED <<registry, created, attempts, todo, failed, late, received,
                 crashes, resumes>>

\* The whole peer is deferred, or parked when the attempt that failed was the
\* last of the budget
MarkPeerRetryPending(w) ==
  LET deferred == {e \in Envelopes :
                     /\ e[2] = cur[w][2]
                     /\ \/ state[e] \in Queued
                        \/ e = cur[w] /\ state[e] \in InFlight}
      deadline == IF seen[w] >= MAX_DELIVERY_ATTEMPTS THEN "null" ELSE "later"
  IN
  /\ pc[w] = "send"
  /\ NotDelivered(w)
  /\ state' = [e \in Envelopes |-> IF e \in deferred THEN "retry_pending" ELSE state[e]]
  /\ next' = [e \in Envelopes |-> IF e \in deferred THEN deadline ELSE next[e]]
  /\ expired' = expired \ deferred
  /\ failed' = [failed EXCEPT ![w] = @ \cup {cur[w][2]}]
  /\ spent' = [spent EXCEPT ![cur[w][2]] = @ + 1]
  /\ late' = IF route[w] = "queued" THEN late \cup {cur[w]} ELSE late
  /\ route' = [route EXCEPT ![w] = "none"]
  /\ ReleasePeerLock(w)
  /\ UNCHANGED <<registry, created, attempts, todo, received, crashes, resumes>>

EndPass(w) ==
  /\ pc[w] = "next"
  /\ todo[w] = <<>>
  /\ failed' = [failed EXCEPT ![w] = {}]
  /\ Goto(w, "idle")
  /\ UNCHANGED <<registry, created, rows, todo, cur, seen, route, late, lock,
                 received, bounds>>

\* The worker process dies; the kernel drops its lock, the daemon keeps its
\* request, the row keeps its claim
Crash(w) ==
  /\ pc[w] # "idle"
  /\ crashes < MaxCrashes
  /\ crashes' = crashes + 1
  /\ lock' = [p \in Peers |-> IF lock[p] = w THEN "free" ELSE lock[p]]
  /\ late' = IF route[w] = "queued" THEN late \cup {cur[w]} ELSE late
  /\ todo' = [todo EXCEPT ![w] = <<>>]
  /\ failed' = [failed EXCEPT ![w] = {}]
  /\ cur' = [cur EXCEPT ![w] = NoRow]
  /\ seen' = [seen EXCEPT ![w] = 0]
  /\ route' = [route EXCEPT ![w] = "none"]
  /\ Goto(w, "idle")
  /\ UNCHANGED <<registry, created, rows, received, spent, resumes>>

-----------------------------------------------------------------------------
(* The daemon, the network and the clock                                   *)

\* The daemon forwards the bytes and answers.  The peer may accept them and
\* the answer still be an error (its receipt missed the 3 s deadline).
ForwardRoute(w) ==
  /\ route[w] = "queued"
  /\ \/ /\ Accepts(cur[w])
        /\ received' = received \cup {cur[w]}
        /\ \E answer \in {"delivered", "error"} :
             route' = [route EXCEPT ![w] = answer]
     \/ /\ route' = [route EXCEPT ![w] = "error"]
        /\ UNCHANGED received
  /\ UNCHANGED <<registry, created, rows, pc, todo, failed, cur, seen, late,
                 lock, bounds>>

\* A request whose worker stopped waiting is still forwarded
ForwardLate(e) ==
  /\ e \in late
  /\ late' = late \ {e}
  /\ \/ Accepts(e) /\ received' = received \cup {e}
     \/ UNCHANGED received
  /\ UNCHANGED <<registry, created, rows, worker, lock, bounds>>

\* Rows of one peer that wait for a deadline got it from one deferral
RetryDue(p) ==
  /\ \E e \in Envelopes : e[2] = p /\ next[e] = "later"
  /\ next' = [e \in Envelopes |-> IF e[2] = p /\ next[e] = "later"
                                  THEN "due" ELSE next[e]]
  /\ UNCHANGED <<registry, created, state, attempts, expired, worker, late,
                 lock, received, bounds>>

LeaseExpires(e) ==
  /\ state[e] \in InFlight
  /\ e \notin expired
  /\ expired' = expired \cup {e}
  /\ UNCHANGED <<registry, created, state, next, attempts, worker, late, lock,
                 received, bounds>>

-----------------------------------------------------------------------------
Init ==
  /\ registry \in [Peers -> {"admission_requested", "active"}]
  /\ created = 0
  /\ state = [e \in Envelopes |-> "absent"]
  /\ next = [e \in Envelopes |-> "null"]
  /\ attempts = [e \in Envelopes |-> 0]
  /\ expired = {}
  /\ pc = [w \in Workers |-> "idle"]
  /\ todo = [w \in Workers |-> <<>>]
  /\ failed = [w \in Workers |-> {}]
  /\ cur = [w \in Workers |-> NoRow]
  /\ seen = [w \in Workers |-> 0]
  /\ route = [w \in Workers |-> "none"]
  /\ late = {}
  /\ lock = [p \in Peers |-> "free"]
  /\ received = {}
  /\ spent = [p \in Peers |-> 0]
  /\ crashes = 0
  /\ resumes = 0

Node ==
  \/ \E propagate \in BOOLEAN : SubmitTransaction(propagate)
  \/ \E t \in Transactions : AuthorizeExisting(t)
  \/ \E p \in Peers : AcceptPeer(p)

Revocation(p) ==
  \/ LockForRevoke(p)
  \/ RevokePeer(p)
  \/ RevokeRefused(p)

RowStep(w) ==
  \/ QueueEndpointPrerequisites(w)
  \/ RecoverStaleInflight(w)
  \/ ListDeliverable(w)
  \/ SkipRow(w)
  \/ ClaimOutboundEnvelope(w)
  \/ AcquirePeerLock(w)
  \/ Authorize(w)
  \/ MarkAuthorizationDenied(w)
  \/ MarkSending(w)
  \/ ClaimLost(w)
  \/ MarkSent(w)
  \/ MarkPeerRetryPending(w)

PassStep(w) == RowStep(w) \/ EndPass(w)

Environment ==
  \/ \E w \in Workers : ForwardRoute(w)
  \/ \E e \in Envelopes : ForwardLate(e)
  \/ \E p \in Peers : RetryDue(p)
  \/ \E e \in Envelopes : LeaseExpires(e)

Next ==
  \/ Node
  \/ \E p \in Peers : Revocation(p)
  \/ \E w \in Workers, recovered \in SUBSET Peers : BeginPass(w, recovered)
  \/ \E w \in Workers : PassStep(w)
  \/ \E w \in Workers : Crash(w)
  \/ Environment

Spec == Init /\ [][Next]_vars

-----------------------------------------------------------------------------
TypeOK ==
  /\ registry \in [Peers -> {"admission_requested", "active", "revoked"}]
  /\ created \in 0..LastTransaction
  /\ state \in [Envelopes -> RowState]
  /\ next \in [Envelopes -> {"null", "later", "due"}]
  /\ attempts \in [Envelopes -> Nat]
  /\ expired \subseteq Envelopes
  /\ pc \in [Workers -> PC]
  /\ todo \in [Workers -> Seq(Envelopes)]
  /\ failed \in [Workers -> SUBSET Peers]
  /\ cur \in [Workers -> Envelopes \cup {NoRow}]
  /\ seen \in [Workers -> Nat]
  /\ route \in [Workers -> {"none", "queued", "delivered", "error"}]
  /\ late \subseteq Envelopes
  /\ lock \in [Peers -> Workers \cup {"free", "operator"}]
  /\ received \subseteq Envelopes
  /\ spent \in [Peers -> Nat]
  /\ crashes \in 0..MaxCrashes
  /\ resumes \in 0..MaxResumes

AtPeer(w, p) == pc[w] \in {"authorize", "authorized", "send"} /\ cur[w][2] = p

\* Once `peer revoke` has committed, the queue of that peer is closed for good:
\* no row is left for a worker to pick up, and no worker is between the
\* eligibility check and the receipt of a handoff to it.
RevokedPeerClosed ==
  \A p \in Peers : registry[p] = "revoked" =>
    /\ \A t \in Transactions : state[<<t, p>>] \notin Live
    /\ \A w \in Workers : AtPeer(w, p) => pc[w] = "authorize"

\* The delivery lock serialises authorization, handoff and receipt of a peer
\* across workers and with the revocation of that peer.
PeerBoundary ==
  \A p \in Peers, w \in Workers : AtPeer(w, p) => lock[p] = w

\* A row is recorded as sent only if the peer accepted it, although claims
\* have no owner and any worker may move a row another one claimed.
SentWasAccepted ==
  \A e \in Envelopes : state[e] = "sent" => e \in received

\* A row that was sent or denied never changes again, whatever a worker with
\* an outdated listing or an expired claim still does.
SettledForever ==
  [][\A e \in Envelopes : state[e] \in {"sent", "authorization_denied"} =>
       state'[e] = state[e]]_vars

\* An unreachable peer costs one retry budget however many rows wait for it;
\* only a worker killed in the middle of a pass can open one more, by keeping
\* the row that counts the attempts in flight.
OneBudgetPerPeer ==
  \A p \in Peers : spent[p] <= MAX_DELIVERY_ATTEMPTS * (1 + crashes)

\* What a row is to the rest of the node, whoever works on it
Stage(s) ==
  CASE s \in Live -> "queued"
    [] s = "authorization_denied" -> "denied"
    [] OTHER -> s

Revoked == {p \in Peers : registry[p] = "revoked"}

Queue == INSTANCE DurableQueue
           WITH stage <- [e \in Envelopes |-> Stage(state[e])],
                accepted <- received, closed <- Revoked

\* Claims, leases, retries, locks, crashes and late answers do not show: the
\* envelopes table is a durable queue in which a row is never lost, never
\* returns once settled, and is never opened for a revoked peer.
ImplementsQueue == Queue!QueueSpec

\* Bytes never reach a peer after its revocation committed.
NothingAfterRevoke ==
  [][\A e \in received' \ received : registry[e[2]] # "revoked"]_vars

=============================================================================
