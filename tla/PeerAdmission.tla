---------------------------- MODULE PeerAdmission ----------------------------
(***************************************************************************)
(* Explicit admission of one peer by another: the signed requests and      *)
(* decisions of peer_admission.py, their verification, their projection    *)
(* onto the nodes table, the peer registry read from it, replay into a     *)
(* fresh store, and the SSH pairing of install_peer.py that drives both    *)
(* sides.  Each of the two nodes keeps a registry row about the other one  *)
(* and a transaction history.  A signed proof is carried between the nodes *)
(* by their operators (inHand), in any order and any number of times.      *)
(* Cryptographic checks hold for every proof a node really signed; what is *)
(* modelled of verification is what it looks up in the store.              *)
(***************************************************************************)
EXTENDS Integers, Sequences, FiniteSets

CONSTANTS
    Node,          \* the two nodes
    Group,         \* service groups an operator may authorize
    PairGroup,     \* the group authorized by the SSH pairing
    MaxSigned      \* MaxSigned[n]: requests, decisions and revocations n may sign

ASSUME AdmissionAssumption ==
    /\ \E a, b \in Node : a # b /\ Node = {a, b}
    /\ PairGroup \in Group
    /\ MaxSigned \in [Node -> [request : Nat, decision : Nat, revoke : Nat]]

VARIABLES
    registry,   \* registry[n]: the nodes row of the other peer at n
    history,    \* history[n]: transactions of n, by rowid
    inHand,     \* signed proofs the operators may deliver
    deciding,   \* deciding[n]: decisions signed at n and not yet submitted
    minted,     \* minted[n]: requests, decisions and revocations signed at n
    pair        \* the SSH pairing command of the first node's operator

admissionVars == <<registry, history, inHand, deciding, minted, pair>>

Other(n) == CHOOSE m \in Node : m # n

NoRow == [state |-> "none", mode |-> "none", groups |-> {}, keys |-> "none", note |-> "none"]

(* bootstrap_replay_support_rows: an active row with zero keys.             *)
SupportRow(row) ==
    IF row.state = "none"
    THEN [row EXCEPT !.state = "active", !.keys = "zero", !.note = "support"]
    ELSE row

IsPlaceholder(row) == row.keys = "zero" /\ row.note = "support"

(***************************************************************************)
(* Projection of one admission transaction onto the peer's row.  Projects  *)
(* is the absence of an SQLiteValidationError; Projected is the new row.   *)
(* service_group_nodes rows are never removed, so groups only grow.        *)
(***************************************************************************)
RequestProjects(row) == row.state = "none" \/ IsPlaceholder(row)

RequestProjected(row) ==
    [row EXCEPT !.state = "admission_requested", !.mode = "none", !.keys = "real", !.note = "none"]

DecisionProjects(row) == row.state = "admission_requested"

AcceptProjected(row, scope) ==
    [row EXCEPT !.state = "active", !.mode = scope.mode, !.groups = @ \cup scope.groups]

RejectProjected(row) == [row EXCEPT !.state = "rejected", !.mode = "none"]

RevokeProjects(row) == row.state = "active"

RevokeProjected(row, comment) ==
    [row EXCEPT !.state = "revoked", !.mode = "none", !.note = IF comment THEN "operator" ELSE @]

\* A bug: any existing row may be requested again.
ProjectsRequestedAgain(row, tx) ==
    CASE tx.type = "request" -> TRUE
      [] tx.type \in {"accept", "reject"} -> DecisionProjects(row)
      [] tx.type = "revoke" -> RevokeProjects(row)

Projects(row, tx) ==
    CASE tx.type = "request" -> RequestProjects(row)
      [] tx.type \in {"accept", "reject"} -> DecisionProjects(row)
      [] tx.type = "revoke" -> RevokeProjects(row)

\* A bug: revocation keeps the authorization mode.
ProjectedKeepsMode(row, tx) ==
    CASE tx.type = "request" -> RequestProjected(row)
      [] tx.type = "accept" -> AcceptProjected(row, tx.scope)
      [] tx.type = "reject" -> RejectProjected(row)
      [] tx.type = "revoke" -> [row EXCEPT !.note = "operator"]

Projected(row, tx) ==
    CASE tx.type = "request" -> RequestProjected(row)
      [] tx.type = "accept" -> AcceptProjected(row, tx.scope)
      [] tx.type = "reject" -> RejectProjected(row)
      [] tx.type = "revoke" -> RevokeProjected(row, tx.comment)

(***************************************************************************)
(* The peer registry: the entry's eligibility, with and without a service  *)
(* group.                                                                  *)
(***************************************************************************)
SynchronizationEligible(row) == row.state = "active"

EligibleFor(row, group) ==
    /\ SynchronizationEligible(row)
    /\ row.mode = "all" \/ (row.mode = "allow_list" /\ group \in row.groups)

(***************************************************************************)
(* Proofs.  A deterministic transaction id makes the proof its own         *)
(* identity: two transactions are the same when their proofs are equal.    *)
(***************************************************************************)
Scopes ==
    {[mode |-> "none", groups |-> {}], [mode |-> "all", groups |-> {}]}
        \cup {[mode |-> "allow_list", groups |-> gs] : gs \in (SUBSET Group) \ {{}}}

NoScope == [mode |-> "none", groups |-> {}]

RequestProof(n, k) == [type |-> "request", node |-> n, origin |-> n, id |-> k]

DecisionProof(n, type, request, scope, k) ==
    [type |-> type, node |-> request.node, origin |-> n, request |-> request, scope |-> scope, id |-> k]

RevokeProof(n, comment, k) ==
    [type |-> "revoke", node |-> Other(n), origin |-> n, comment |-> comment, id |-> k]

Recorded(n) == {history[n][i] : i \in DOMAIN history[n]}

(* verify_peer_admission_transaction: what it requires of the store.        *)
Verifies(n, tx) ==
    CASE tx.type = "request" -> TRUE     \* the id is fresh by construction of the proof
      [] tx.type \in {"accept", "reject"} -> tx.request \in Recorded(n)
      [] tx.type = "revoke" -> tx.origin = n /\ tx.node # n

(***************************************************************************)
(* submit_transaction under the three admission policies.  Submitted is    *)
(* the case without an error: the whole SQLite transaction commits.        *)
(***************************************************************************)
CanSubmit(n, tx, policy) ==
    /\ Verifies(n, tx)
    /\ tx \notin Recorded(n)
    /\ policy = "local" => tx.node # n /\ Projects(registry[n], tx)

RowAfter(n, row, tx, policy) ==
    CASE policy = "local" -> Projected(row, tx)
      [] policy # "local" /\ tx.origin # n -> SupportRow(row)
      [] policy # "local" /\ tx.origin = n -> row

\* A bug: a revocation is projected and not persisted.
SubmittedUnpersisted(n, tx, policy) ==
    /\ CanSubmit(n, tx, policy)
    /\ history' = [history EXCEPT ![n] = IF tx.type = "revoke" THEN @ ELSE Append(@, tx)]
    /\ registry' = [registry EXCEPT ![n] = RowAfter(n, registry[n], tx, policy)]

Submitted(n, tx, policy) ==
    /\ CanSubmit(n, tx, policy)
    /\ history' = [history EXCEPT ![n] = Append(@, tx)]
    /\ registry' = [registry EXCEPT ![n] = RowAfter(n, registry[n], tx, policy)]

(* _pending_request_id_for_peer: the newest stored request of the peer.     *)
PendingRequest(n) ==
    LET requests == SelectSeq(history[n], LAMBDA tx : tx.type = "request" /\ tx.node = Other(n))
    IN  requests[Len(requests)]

HasPending(n) == registry[n].state = "admission_requested"

Mint(n, kind) ==
    /\ minted[n][kind] < MaxSigned[n][kind]
    /\ minted' = [minted EXCEPT ![n][kind] = @ + 1]

(***************************************************************************)
(* The peer commands, one action per command; accept and reject read and   *)
(* sign on one connection and submit on another.                           *)
(***************************************************************************)
PeerRequest(n) ==
    LET request == RequestProof(n, minted[n].request)
    IN  /\ Mint(n, "request")
        /\ Submitted(n, request, "outbound_request")
        /\ inHand' = inHand \cup {request}
        /\ UNCHANGED <<deciding, pair>>

PeerImportRequest(n, tx) ==
    /\ tx.type = "request" /\ tx.origin = Other(n)
    /\ Submitted(n, tx, "local")
    /\ UNCHANGED <<inHand, deciding, minted, pair>>

SignDecision(n, type, scope) ==
    /\ HasPending(n)
    /\ Mint(n, "decision")
    /\ deciding' = [deciding EXCEPT ![n] = @ \cup
           {DecisionProof(n, type, PendingRequest(n), scope, minted[n].decision)}]
    /\ UNCHANGED <<registry, history, inHand, pair>>

SubmitDecision(n, tx) ==
    /\ tx \in deciding[n]
    /\ deciding' = [deciding EXCEPT ![n] = @ \ {tx}]
    /\ \/ Submitted(n, tx, "local") /\ inHand' = inHand \cup {tx}
       \/ ~CanSubmit(n, tx, "local") /\ UNCHANGED <<registry, history, inHand>>
    /\ UNCHANGED <<minted, pair>>

PeerImportDecision(n, tx) ==
    /\ tx.type \in {"accept", "reject"} /\ tx.node = n
    /\ Submitted(n, tx, "inbound_decision")
    /\ UNCHANGED <<inHand, deciding, minted, pair>>

PeerRevoke(n, comment) ==
    /\ Mint(n, "revoke")
    /\ Submitted(n, RevokeProof(n, comment, minted[n].revoke), "local")
    /\ UNCHANGED <<inHand, deciding, pair>>

(***************************************************************************)
(* Replay of the whole history into a fresh store that has this node's     *)
(* identity.  Support rows come first, then every transaction is projected *)
(* whatever policy first stored it, so one about the local node itself is  *)
(* refused and the rebuild rolls back.                                     *)
(***************************************************************************)
Replays(n, seen, tx) ==
    IF seen.ok /\ tx.node # n /\ Projects(seen.row, tx)
    THEN [ok |-> TRUE, row |-> Projected(seen.row, tx)]
    ELSE [ok |-> FALSE, row |-> seen.row]

ReplayOf(n, txs, start) ==
    LET upTo[k \in 0..Len(txs)] ==
          IF k = 0 THEN [ok |-> TRUE, row |-> start] ELSE Replays(n, upTo[k - 1], txs[k])
    IN  upTo[Len(txs)]

ReplayRow(n) ==
    ReplayOf(n, history[n],
             IF \E tx \in Recorded(n) : tx.origin # n THEN SupportRow(NoRow) ELSE NoRow)

(***************************************************************************)
(* pair_installed_peer: the operator of Here drives both nodes over SSH.   *)
(* Every call is one command on one side; a failing call, or an            *)
(* interruption, ends the run, which may be started again.                 *)
(***************************************************************************)
Here == CHOOSE n \in Node : TRUE
There == Other(Here)
PairScope == [mode |-> "allow_list", groups |-> {PairGroup}]

NoPair == [step |-> 0, outcome |-> "none", requests |-> {}, decisions |-> {}]

PairCalls == <<
    [do |-> "request", at |-> Here], [do |-> "request", at |-> There],
    [do |-> "import-request", at |-> Here], [do |-> "import-request", at |-> There],
    [do |-> "accept", at |-> Here], [do |-> "accept", at |-> There],
    [do |-> "import-acceptance", at |-> Here], [do |-> "import-acceptance", at |-> There],
    [do |-> "show", at |-> Here], [do |-> "show", at |-> There] >>

Preserved ==
    /\ registry[Here].groups # {} /\ registry[Here].groups = registry[There].groups
    /\ \A n \in Node : SynchronizationEligible(registry[n]) /\ registry[n].keys = "real"

PairStart ==
    /\ pair.step = 0
    /\ pair' = IF \A n \in Node : registry[n].state = "none"
               THEN [NoPair EXCEPT !.step = 1]
               ELSE [NoPair EXCEPT !.outcome = IF Preserved THEN "preserved" ELSE "none"]
    /\ UNCHANGED <<registry, history, inHand, deciding, minted>>

Advance(requests, decisions) ==
    pair' = [pair EXCEPT !.step = @ + 1, !.requests = requests, !.decisions = decisions]

PairRequest(n) ==
    LET request == RequestProof(n, minted[n].request)
    IN  /\ Mint(n, "request")
        /\ Submitted(n, request, "outbound_request")
        /\ Advance(pair.requests \cup {request}, {})

PairImport(n, proofs, policy) ==
    /\ \E tx \in proofs : tx.origin = Other(n) /\ Submitted(n, tx, policy)
    /\ Advance(pair.requests, pair.decisions)
    /\ UNCHANGED minted

PairAccept(n) ==
    /\ HasPending(n)
    /\ LET tx == DecisionProof(n, "accept", PendingRequest(n), PairScope, minted[n].decision)
       IN  Submitted(n, tx, "local") /\ Advance(pair.requests, pair.decisions \cup {tx})
    /\ Mint(n, "decision")

PairShow(n) ==
    /\ SynchronizationEligible(registry[n]) /\ registry[n].groups = {PairGroup}
    /\ pair' = IF n = Here THEN [pair EXCEPT !.step = @ + 1] ELSE [NoPair EXCEPT !.outcome = "complete"]
    /\ UNCHANGED <<registry, history, minted>>

PairCall ==
    /\ pair.step \in DOMAIN PairCalls
    /\ LET call == PairCalls[pair.step]
       IN  \/ call.do = "request" /\ PairRequest(call.at)
           \/ call.do = "import-request" /\ PairImport(call.at, pair.requests, "local")
           \/ call.do = "accept" /\ PairAccept(call.at)
           \/ call.do = "import-acceptance" /\ PairImport(call.at, pair.decisions, "inbound_decision")
           \/ call.do = "show" /\ PairShow(call.at)
    /\ UNCHANGED <<inHand, deciding>>

(* A failed or interrupted call: the exception leaves both stores as they are. *)
PairStops ==
    /\ pair.step \in DOMAIN PairCalls
    /\ pair' = NoPair
    /\ UNCHANGED <<registry, history, inHand, deciding, minted>>

-----------------------------------------------------------------------------
AdmissionInit ==
    /\ registry = [n \in Node |-> NoRow]
    /\ history = [n \in Node |-> <<>>]
    /\ inHand = {}
    /\ deciding = [n \in Node |-> {}]
    /\ minted = [n \in Node |-> [request |-> 0, decision |-> 0, revoke |-> 0]]
    /\ pair = NoPair

PeerCommands ==
    \E n \in Node :
        \/ PeerRequest(n)
        \/ \E tx \in inHand : PeerImportRequest(n, tx) \/ PeerImportDecision(n, tx)
        \/ \E scope \in Scopes : SignDecision(n, "accept", scope)
        \/ SignDecision(n, "reject", NoScope)
        \/ \E tx \in deciding[n] : SubmitDecision(n, tx)
        \/ \E comment \in BOOLEAN : PeerRevoke(n, comment)

AdmissionNext == PeerCommands \/ PairStart \/ PairCall \/ PairStops

AdmissionSpec == AdmissionInit /\ [][AdmissionNext]_admissionVars

-----------------------------------------------------------------------------
(* The registry rows and commands have the shapes the schema and the        *)
(* commands of peer_admission.py give them.                                 *)
AdmissionTypeOK ==
    /\ \A n \in Node :
           /\ registry[n].state \in {"none", "admission_requested", "active", "rejected", "revoked"}
           /\ registry[n].mode \in {"none", "all", "allow_list"}
           /\ registry[n].groups \subseteq Group
           /\ registry[n].keys \in {"none", "zero", "real"}
           /\ registry[n].note \in {"none", "support", "operator"}
           /\ \A tx \in deciding[n] : tx.origin = n
    /\ pair.step \in 0..Len(PairCalls) /\ pair.outcome \in {"none", "preserved", "complete"}

Accepts(n) == {i \in DOMAIN history[n] : history[n][i].type = "accept" /\ history[n][i].origin = n}

Revokes(n) == {i \in DOMAIN history[n] : history[n][i].type = "revoke"}

(* A service group is synchronized with the peer only on the strength of an *)
(* acceptance this node's operator signed for it, not revoked since: a      *)
(* placeholder row, an imported decision, a stale row or a repeated         *)
(* invitation command ("exact retries never regrant") authorizes nothing.   *)
(* (require_peer_synchronization_eligible over the admission projection)    *)
ScopeWasGranted ==
    \A n \in Node, g \in Group :
        EligibleFor(registry[n], g) =>
            \E i \in Accepts(n) :
                /\ history[n][i].scope.mode = "all" \/ g \in history[n][i].scope.groups
                /\ \A j \in Revokes(n) : j < i

(* Rejection and revocation of an identified peer are final: no command,    *)
(* repeated request or concurrent decision makes the row current again.     *)
(* (apply_peer_admission_request refuses every row but a placeholder)       *)
AdmissionSettled ==
    [][\A n \in Node :
           registry[n].keys = "real" /\ registry[n].state \in {"rejected", "revoked"} =>
               registry'[n].state = registry[n].state]_admissionVars

(* One request is decided once: of the acceptances and rejections signed    *)
(* concurrently for the same pending request at most one is recorded.       *)
(* (accept_peer_admission and reject_peer_admission read the request on one *)
(* connection and submit on another)                                        *)
OneDecisionPerRequest ==
    \A n \in Node : \A i, j \in DOMAIN history[n] :
        LET s == history[n][i]
            t == history[n][j]
        IN  /\ s.type \in {"accept", "reject"} /\ s.origin = n
            /\ t.type \in {"accept", "reject"} /\ t.origin = n
            /\ s.request = t.request
            => i = j

(* The SSH pairing reports completion, or preserves an existing pairing,    *)
(* only when each node has admitted the other: an admission withdrawn       *)
(* before a node is last looked at is noticed.                              *)
(* (pair_installed_peer: its registry checks and two final peer show calls) *)
PairedMeansMutual ==
    [][pair'.outcome # "none" /\ pair' # pair =>
           /\ SynchronizationEligible(registry[There]) /\ Accepts(There) # {} /\ Accepts(Here) # {}
           /\ SynchronizationEligible(registry[Here]) \/ Revokes(Here) # {}
           /\ registry[Here].groups = registry[There].groups]_admissionVars

(* A history without transactions about the node itself replays, into a     *)
(* fresh store, to the peer row the live store has.                         *)
(* (rebuild_secret_projections over peer.admission transactions)            *)
ReplayAgrees ==
    \A n \in Node :
        (\A tx \in Recorded(n) : tx.node # n) =>
            ReplayRow(n) = [ok |-> TRUE, row |-> registry[n]]
=============================================================================
