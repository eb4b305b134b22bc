------------------------- MODULE PeerAdmissionProofs -------------------------
(***************************************************************************)
(* Proofs about PeerAdmission, for any service groups and any number of    *)
(* requests, decisions and revocations signed at either node.              *)
(*                                                                         *)
(* Whatever command runs, the two stores change only by submit_transaction *)
(* in one of five ways (Legal).  What makes the properties inductive is    *)
(* that a row is requested and decided at most once in its life: RowShape  *)
(* says what an undecided row looks like, Granted where the authorization  *)
(* of a decided one comes from, and DecidedOnce that it stays decided.     *)
(***************************************************************************)
EXTENDS PeerAdmission, TLAPS

RegistryRows ==
    [state : {"none", "admission_requested", "active", "rejected", "revoked"},
     mode : {"none", "all", "allow_list"}, groups : SUBSET Group,
     keys : {"none", "zero", "real"}, note : {"none", "support", "operator"}]

IsSeq(s) == \E S : s \in Seq(S)

Stores ==
    /\ registry \in [Node -> RegistryRows]
    /\ DOMAIN history = Node
    /\ \A n \in Node : IsSeq(history[n]) /\ \A i \in DOMAIN history[n] : history[n][i].node \in Node

Decision == {"accept", "reject"}

\* What the operators and the commands hold
ProofsHeld ==
    /\ \A tx \in inHand : tx.node \in Node /\ (tx.type \in Decision => tx.node # tx.origin)
    /\ DOMAIN deciding = Node
    /\ \A n \in Node : \A tx \in deciding[n] :
           /\ tx.type \in Decision /\ tx.origin = n /\ tx.scope \in Scopes
           /\ tx.node = tx.request.node

Pairing ==
    /\ \E s, o, r, d : pair = [step |-> s, outcome |-> o, requests |-> r, decisions |-> d]
    /\ pair.step \in 0..Len(PairCalls)
    /\ pair.outcome \in {"none", "preserved", "complete"}
    /\ pair.step # 0 => pair.outcome = "none"
    /\ \A tx \in pair.requests : tx.type = "request" /\ tx.node \in Node
    /\ \A tx \in pair.decisions : tx.type \in Decision /\ tx.node \in Node \ {tx.origin}

\* A row that was not decided authorizes nothing
RowShape(row) ==
    /\ row.state = "none" => row = NoRow
    /\ row.state = "admission_requested" =>
           row.keys = "real" /\ row.mode = "none" /\ row.groups = {}
    /\ row.keys = "zero" => row.mode = "none" /\ row.groups = {}
    /\ row.keys = "none" => row.state = "none"

\* The scope of a row is the scope of one acceptance
GrantedBy(row, h, n) ==
    row.state = "active" /\ row.mode # "none" =>
        \E i \in DOMAIN h :
            /\ h[i].type = "accept"
            /\ h[i].origin = n
            /\ h[i].scope.mode = row.mode
            /\ h[i].scope.groups = row.groups
            /\ \A j \in DOMAIN h : h[j].type = "revoke" => j < i

Own(h, i, n) == h[i].type \in Decision /\ h[i].origin = n

\* A row is decided once
DecidedOnce(row, h, n) ==
    \A i \in DOMAIN h : Own(h, i, n) =>
        /\ row.keys = "real"
        /\ row.state \in {"active", "rejected", "revoked"}
        /\ \A j \in DOMAIN h : Own(h, j, n) => i = j

\* Service groups come with an acceptance
GroupsAccepted(row, h, n) ==
    row.groups # {} => \E i \in DOMAIN h : h[i].type = "accept" /\ h[i].origin = n

RowInv(n) ==
    /\ RowShape(registry[n])
    /\ GroupsAccepted(registry[n], history[n], n)
    /\ GrantedBy(registry[n], history[n], n)
    /\ DecidedOnce(registry[n], history[n], n)

\* What the pairing has seen at the first node before it looks at the second
Shown ==
    pair.step = Len(PairCalls) =>
        /\ registry[Here].groups = {PairGroup}
        /\ SynchronizationEligible(registry[Here]) \/ Revokes(Here) # {}

AInv == Stores /\ ProofsHeld /\ Pairing /\ Shown /\ \A n \in Node : RowInv(n)

-----------------------------------------------------------------------------
\* The two nodes are distinct
LEMMA TwoNodes ==
    /\ \A n \in Node : Other(n) \in Node /\ Other(n) # n
    /\ \A n \in Node : Node \ {Other(n)} = {n}
    /\ Here \in Node /\ There \in Node /\ Here # There
  <1>1. \A n \in Node : \E m \in Node : m # n
    BY Zenon, AdmissionAssumption
  <1>2. \A n \in Node : Other(n) \in Node /\ Other(n) # n
    BY Zenon, <1>1 DEF Other
  <1>3. Here \in Node
    BY Zenon, AdmissionAssumption DEF Here
  <1>4. \A n \in Node : Node \ {Other(n)} = {n}
    BY Zenon, <1>2, AdmissionAssumption
  <1> QED
    BY Zenon, <1>2, <1>3, <1>4 DEF There

\* Every call of the pairing is a command at one of them, and the last is at
\* the second
LEMMA Calls ==
    ASSUME NEW k \in DOMAIN PairCalls
    PROVE  /\ PairCalls[k].at \in Node
           /\ k \in 1..10
           /\ k = 10 => PairCalls[k].at = There /\ PairCalls[k].do = "show"
           /\ PairCalls[k].do = "show" /\ PairCalls[k].at = Here => k = 9
  BY TwoNodes DEF PairCalls

\* What Append does to a history
LEMMA Appended ==
    ASSUME NEW s, IsSeq(s), NEW x
    PROVE  /\ IsSeq(Append(s, x))
           /\ Len(s) \in Nat
           /\ DOMAIN s = 1..Len(s)
           /\ DOMAIN Append(s, x) = 1..(Len(s) + 1)
           /\ \A i \in DOMAIN s : Append(s, x)[i] = s[i]
           /\ Append(s, x)[Len(s) + 1] = x
  <1>1. PICK S : s \in Seq(S)
    BY Zenon DEF IsSeq
  <1>2. s \in Seq(S \cup {x})
    BY <1>1
  <1>3. Append(s, x) \in Seq(S \cup {x})
    BY <1>2
  <1> QED
    BY <1>2, <1>3 DEF IsSeq

-----------------------------------------------------------------------------
(* The five ways a store changes                                           *)

Legal(n, tx, policy) ==
    /\ tx.node \in Node
    /\ \/ policy = "outbound_request" /\ tx.type = "request" /\ tx.origin = n /\ tx.node = n
       \/ policy = "local" /\ tx.type = "request" /\ tx.origin # n
       \/ policy = "local" /\ tx.type \in Decision /\ tx.origin = n /\ tx.scope \in Scopes
       \/ policy = "local" /\ tx.type = "revoke"
       \/ policy = "inbound_decision" /\ tx.type \in Decision /\ tx.origin # n /\ tx.node = n

StoresMove ==
    \/ UNCHANGED <<registry, history>>
    \/ \E n \in Node : \E tx, policy : Submitted(n, tx, policy) /\ Legal(n, tx, policy)

\* A decision that is submitted is about the node of a recorded request
LEMMA DecisionNode ==
    ASSUME Stores, NEW n \in Node, NEW tx, tx.type \in Decision, tx.node = tx.request.node,
           Submitted(n, tx, "local")
    PROVE  tx.node \in Node /\ tx.node # n
  <1>1. Verifies(n, tx) /\ tx.node # n
    BY Zenon DEF Submitted, CanSubmit
  <1>2. tx.request \in Recorded(n)
    BY Zenon, <1>1 DEF Verifies, Decision
  <1> QED
    BY Zenon, <1>1, <1>2 DEF Recorded, Stores

\* A call of the pairing submits what the command it runs would submit
LEMMA PairMoves ==
    ASSUME AInv, PairCall
    PROVE  StoresMove
PROOF
  <1>1. PICK k \in DOMAIN PairCalls : k = pair.step
    BY Zenon DEF PairCall
  <1> DEFINE n == PairCalls[k].at
  <1>2. n \in Node /\ Other(n) # n
    BY Zenon, Calls, TwoNodes
  <1>3. \/ PairRequest(n)
        \/ PairImport(n, pair.requests, "local")
        \/ PairAccept(n)
        \/ PairImport(n, pair.decisions, "inbound_decision")
        \/ PairShow(n)
    BY Zenon, <1>1 DEF PairCall
  <1> HIDE DEF n
  <1>4. CASE PairRequest(n)
    <2>1. PICK tx : tx = RequestProof(n, minted[n].request) /\ Submitted(n, tx, "outbound_request")
      BY Zenon, <1>4 DEF PairRequest
    <2>2. tx.type = "request" /\ tx.origin = n /\ tx.node = n
      BY Zenon, <2>1 DEF RequestProof
    <2> QED
      BY Zenon, <1>2, <2>1, <2>2 DEF StoresMove, Legal
  <1>5. CASE PairImport(n, pair.requests, "local")
    <2>1. PICK tx \in pair.requests : tx.origin = Other(n) /\ Submitted(n, tx, "local")
      BY Zenon, <1>5 DEF PairImport
    <2>2. tx.type = "request" /\ tx.node \in Node
      BY Zenon DEF AInv, Pairing
    <2> QED
      BY Zenon, <1>2, <2>1, <2>2 DEF StoresMove, Legal
  <1>6. CASE PairAccept(n)
    <2>1. PICK tx : /\ tx = DecisionProof(n, "accept", PendingRequest(n), PairScope,
                                          minted[n].decision)
                    /\ Submitted(n, tx, "local")
      BY Zenon, <1>6 DEF PairAccept
    <2>2. /\ tx.type \in Decision /\ tx.origin = n /\ tx.scope = PairScope
          /\ tx.node = tx.request.node
      BY Zenon, <2>1 DEF DecisionProof, Decision
    <2>3. PairScope \in Scopes
      BY ZenonT(30), AdmissionAssumption DEF PairScope, Scopes
    <2>4. tx.node \in Node
      BY Zenon, <1>2, <2>1, <2>2, DecisionNode DEF AInv
    <2> QED
      BY <1>2, <2>1, <2>2, <2>3, <2>4 DEF StoresMove, Legal
  <1>7. CASE PairImport(n, pair.decisions, "inbound_decision")
    <2>1. PICK tx \in pair.decisions : tx.origin = Other(n) /\ Submitted(n, tx, "inbound_decision")
      BY Zenon, <1>7 DEF PairImport
    <2>2. tx.type \in Decision /\ tx.node \in Node \ {tx.origin}
      BY Zenon DEF AInv, Pairing
    <2>3. tx.node = n
      BY <1>2, <2>1, <2>2, TwoNodes
    <2> QED
      BY Zenon, <1>2, <2>1, <2>2, <2>3 DEF StoresMove, Legal
  <1>8. CASE PairShow(n)
    BY Zenon, <1>8 DEF PairShow, StoresMove
  <1> QED
    BY Zenon, <1>3, <1>4, <1>5, <1>6, <1>7, <1>8

\* So do the commands of the operators
LEMMA StoreMoves ==
    ASSUME AInv, [AdmissionNext]_admissionVars
    PROVE  StoresMove
PROOF
  <1>1. ASSUME NEW n \in Node, PeerRequest(n) PROVE StoresMove
    <2>1. PICK tx : tx = RequestProof(n, minted[n].request) /\ Submitted(n, tx, "outbound_request")
      BY Zenon, <1>1 DEF PeerRequest
    <2>2. tx.type = "request" /\ tx.origin = n /\ tx.node = n
      BY Zenon, <2>1 DEF RequestProof
    <2> QED
      BY Zenon, <2>1, <2>2 DEF StoresMove, Legal
  <1>2. ASSUME NEW n \in Node, NEW tx \in inHand, PeerImportRequest(n, tx) PROVE StoresMove
    <2>1. tx.node \in Node /\ tx.origin # n
      BY Zenon, <1>2, TwoNodes DEF PeerImportRequest, AInv, ProofsHeld
    <2> QED
      BY Zenon, <1>2, <2>1 DEF PeerImportRequest, StoresMove, Legal
  <1>3. ASSUME NEW n \in Node, NEW tx \in inHand, PeerImportDecision(n, tx) PROVE StoresMove
    BY Zenon, <1>3 DEF PeerImportDecision, StoresMove, Legal, AInv, ProofsHeld, Decision
  <1>4. ASSUME NEW n \in Node, NEW type, NEW scope, SignDecision(n, type, scope) PROVE StoresMove
    BY Zenon, <1>4 DEF SignDecision, StoresMove
  <1>5. ASSUME NEW n \in Node, NEW tx \in deciding[n], SubmitDecision(n, tx) PROVE StoresMove
    <2>1. CASE Submitted(n, tx, "local")
      <3>1. /\ tx.type \in Decision /\ tx.origin = n /\ tx.scope \in Scopes
            /\ tx.node = tx.request.node
        BY Zenon DEF AInv, ProofsHeld
      <3>2. tx.node \in Node
        BY Zenon, <2>1, <3>1, DecisionNode DEF AInv
      <3> QED
        BY Zenon, <2>1, <3>1, <3>2 DEF StoresMove, Legal
    <2>2. CASE UNCHANGED <<registry, history>>
      BY Zenon, <2>2 DEF StoresMove
    <2> QED
      BY Zenon, <1>5, <2>1, <2>2 DEF SubmitDecision
  <1>6. ASSUME NEW n \in Node, NEW comment \in BOOLEAN, PeerRevoke(n, comment) PROVE StoresMove
    <2>1. PICK tx : tx = RevokeProof(n, comment, minted[n].revoke) /\ Submitted(n, tx, "local")
      BY Zenon, <1>6 DEF PeerRevoke
    <2>2. tx.type = "revoke" /\ tx.node \in Node
      BY Zenon, <2>1, TwoNodes DEF RevokeProof
    <2> QED
      BY Zenon, <2>1, <2>2 DEF StoresMove, Legal
  <1>7. ASSUME PairStart \/ PairStops \/ UNCHANGED admissionVars PROVE StoresMove
    BY Zenon, <1>7 DEF PairStart, PairStops, admissionVars, StoresMove
  <1> QED
    BY Zenon, <1>1, <1>2, <1>3, <1>4, <1>5, <1>6, <1>7, PairMoves DEF AdmissionNext, PeerCommands

-----------------------------------------------------------------------------
(* What a submission does to the store of its node                         *)

\* Every row a submission leaves is a row of the schema
LEMMA RowAfterType ==
    ASSUME NEW n \in Node, NEW row \in RegistryRows, NEW tx, NEW policy, Legal(n, tx, policy)
    PROVE  RowAfter(n, row, tx, policy) \in RegistryRows
PROOF
  <1>1. SupportRow(row) \in RegistryRows
    BY Zenon DEF SupportRow, RegistryRows
  <1>2. RequestProjected(row) \in RegistryRows
    BY Zenon DEF RequestProjected, RegistryRows
  <1>3. ASSUME NEW scope \in Scopes PROVE AcceptProjected(row, scope) \in RegistryRows
    <2>1. scope.mode \in {"none", "all", "allow_list"} /\ scope.groups \subseteq Group
      BY DEF Scopes
    <2> QED
      BY Zenon, <2>1 DEF AcceptProjected, RegistryRows
  <1>4. RejectProjected(row) \in RegistryRows
    BY Zenon DEF RejectProjected, RegistryRows
  <1>5. ASSUME NEW comment PROVE RevokeProjected(row, comment) \in RegistryRows
    BY ZenonT(30) DEF RevokeProjected, RegistryRows
  <1>6. CASE policy = "local"
    <2>1. RowAfter(n, row, tx, policy) = Projected(row, tx)
      BY Zenon, <1>6 DEF RowAfter
    <2>2. tx.type = "request" \/ tx.type = "revoke" \/ (tx.type \in Decision /\ tx.scope \in Scopes)
      BY Zenon, <1>6 DEF Legal
    <2> QED
      BY Zenon, <1>2, <1>3, <1>4, <1>5, <2>1, <2>2 DEF Projected, Decision
  <1>7. CASE policy # "local"
    BY Zenon, <1>1, <1>7 DEF RowAfter
  <1> QED
    BY Zenon, <1>6, <1>7

\* Only the node's own row and history change, the history at its end
LEMMA StoreAfter ==
    ASSUME Stores, NEW n \in Node, NEW tx, NEW policy, Submitted(n, tx, policy),
           Legal(n, tx, policy)
    PROVE  /\ Stores'
           /\ registry'[n] = RowAfter(n, registry[n], tx, policy)
           /\ history'[n] = Append(history[n], tx)
           /\ \A m \in Node \ {n} : registry'[m] = registry[m] /\ history'[m] = history[m]
PROOF
  <1>1. RowAfter(n, registry[n], tx, policy) \in RegistryRows
    BY Zenon, RowAfterType DEF Stores
  <1>2. registry' = [registry EXCEPT ![n] = RowAfter(n, registry[n], tx, policy)]
        /\ history' = [history EXCEPT ![n] = Append(history[n], tx)]
    BY Zenon DEF Submitted
  <1>3. /\ IsSeq(Append(history[n], tx))
        /\ \A i \in DOMAIN Append(history[n], tx) : Append(history[n], tx)[i].node \in Node
    <2> DEFINE h == history[n]
    <2>1. /\ IsSeq(h) /\ (\A i \in DOMAIN h : h[i].node \in Node) /\ tx.node \in Node
      BY Zenon DEF Stores, Legal
    <2> HIDE DEF h
    <2>2. \A i \in DOMAIN Append(h, tx) : Append(h, tx)[i] = tx \/ i \in DOMAIN h
      BY <2>1, Appended
    <2> QED
      BY <2>1, <2>2, Appended DEF h
  <1> QED
    BY Zenon, <1>1, <1>2, <1>3 DEF Stores

\* A row that may be requested was never decided
LEMMA RequestKeeps ==
    ASSUME NEW row \in RegistryRows, NEW h, NEW n, NEW tx, IsSeq(h), RowShape(row),
           DecidedOnce(row, h, n), tx.type = "request", RequestProjects(row)
    PROVE  LET next == RequestProjected(row)
           IN  /\ RowShape(next)
               /\ GroupsAccepted(next, Append(h, tx), n)
               /\ GrantedBy(next, Append(h, tx), n)
               /\ DecidedOnce(next, Append(h, tx), n)
PROOF
  <1> DEFINE next == RequestProjected(row)
  <1>1. /\ next.state = "admission_requested" /\ next.mode = "none" /\ next.keys = "real"
        /\ next.groups = row.groups
    BY Zenon DEF RequestProjected, RegistryRows
  <1>2. row.groups = {} /\ row.keys # "real"
    BY DEF RequestProjects, IsPlaceholder, RowShape, NoRow
  <1>3. \A i \in DOMAIN h : ~Own(h, i, n)
    BY Zenon, <1>2 DEF DecidedOnce
  <1>4. \A i \in DOMAIN Append(h, tx) : ~Own(Append(h, tx), i, n)
    BY SMTT(30), Zenon, <1>3, Appended DEF Own, Decision
  <1> HIDE DEF next
  <1>5. RowShape(next) /\ GroupsAccepted(next, Append(h, tx), n) /\ GrantedBy(next, Append(h, tx), n)
    BY Zenon, <1>1, <1>2 DEF RowShape, GroupsAccepted, GrantedBy
  <1> QED
    BY Zenon, <1>4, <1>5 DEF DecidedOnce, next

\* A decision settles the row and is the only one
LEMMA DecisionKeeps ==
    ASSUME NEW row \in RegistryRows, NEW h, NEW n, NEW tx, IsSeq(h), RowShape(row),
           DecidedOnce(row, h, n), tx.type \in Decision, tx.origin = n, tx.scope \in Scopes,
           DecisionProjects(row)
    PROVE  LET next == Projected(row, tx)
           IN  /\ RowShape(next)
               /\ GroupsAccepted(next, Append(h, tx), n)
               /\ GrantedBy(next, Append(h, tx), n)
               /\ DecidedOnce(next, Append(h, tx), n)
PROOF
  <1> DEFINE next == Projected(row, tx)
             g == Append(h, tx)
             k == Len(h) + 1
  <1>1. row.keys = "real" /\ row.groups = {}
    BY Zenon DEF DecisionProjects, RowShape
  <1>2. /\ tx.type = "accept" => /\ next.state = "active" /\ next.mode = tx.scope.mode
                                 /\ next.groups = tx.scope.groups /\ next.keys = "real"
        /\ tx.type = "reject" => /\ next.state = "rejected" /\ next.mode = "none"
                                 /\ next.groups = {} /\ next.keys = "real"
    BY Zenon, <1>1 DEF Projected, AcceptProjected, RejectProjected, RegistryRows
  <1>3. next.keys = "real" /\ next.state \in {"active", "rejected"}
    BY Zenon, <1>2 DEF Decision
  <1>4. /\ Len(h) \in Nat /\ DOMAIN h = 1..Len(h) /\ DOMAIN g = 1..k
        /\ (\A i \in DOMAIN h : g[i] = h[i]) /\ g[k] = tx
    BY Appended
  <1>5. \A i \in DOMAIN h : ~Own(h, i, n)
    BY Zenon DEF DecidedOnce, DecisionProjects
  <1> HIDE DEF next, g, k
  <1>6. \A i \in DOMAIN g : i # k => i \in DOMAIN h
    BY <1>4 DEF k
  <1>7. \A i \in DOMAIN g : Own(g, i, n) => i = k
    BY Zenon, <1>4, <1>5, <1>6 DEF Own
  <1>8. DecidedOnce(next, g, n)
    BY Zenon, <1>3, <1>7 DEF DecidedOnce
  <1>9. RowShape(next)
    BY Zenon, <1>3 DEF RowShape
  <1>10. GrantedBy(next, g, n)
    <2>1. CASE tx.type = "accept"
      <3>1. k \in DOMAIN g /\ \A j \in DOMAIN g : g[j].type = "revoke" => j < k
        BY SMTT(30), Zenon, <1>4, <2>1 DEF k
      <3> QED
        BY Zenon, <1>2, <1>4, <2>1, <3>1 DEF GrantedBy
    <2>2. CASE tx.type = "reject"
      BY Zenon, <1>2, <2>2 DEF GrantedBy
    <2> QED
      BY Zenon, <2>1, <2>2 DEF Decision
  <1>11. GroupsAccepted(next, g, n)
    <2>1. tx.type = "accept" => k \in DOMAIN g
      BY <1>4 DEF k
    <2> QED
      BY Zenon, <1>2, <1>4, <2>1 DEF GroupsAccepted, Decision
  <1> QED
    BY Zenon, <1>8, <1>9, <1>10, <1>11 DEF next, g

\* A revocation withdraws the authorization
LEMMA RevokeKeeps ==
    ASSUME NEW row \in RegistryRows, NEW h, NEW n, NEW tx, IsSeq(h), RowShape(row),
           GroupsAccepted(row, h, n), DecidedOnce(row, h, n), tx.type = "revoke", RevokeProjects(row)
    PROVE  LET next == Projected(row, tx)
           IN  /\ RowShape(next)
               /\ GroupsAccepted(next, Append(h, tx), n)
               /\ GrantedBy(next, Append(h, tx), n)
               /\ DecidedOnce(next, Append(h, tx), n)
PROOF
  <1> DEFINE next == Projected(row, tx)
             g == Append(h, tx)
  <1>1. next = RevokeProjected(row, tx.comment)
    BY Zenon DEF Projected
  <1>2. next.state = "revoked" /\ next.mode = "none" /\ next.keys = row.keys /\ next.groups = row.groups
    BY Zenon, <1>1 DEF RevokeProjected, RegistryRows
  <1>3. row.keys # "none"
    BY Zenon DEF RowShape, RevokeProjects
  <1>4. \A i \in DOMAIN g : Own(g, i, n) => i \in DOMAIN h /\ Own(h, i, n)
    BY Appended DEF Own, Decision
  <1> HIDE DEF next, g
  <1>5. RowShape(next) /\ GrantedBy(next, g, n)
    BY Zenon, <1>2, <1>3 DEF RowShape, GrantedBy
  <1>6. DecidedOnce(next, g, n)
    BY Zenon, <1>2, <1>4 DEF DecidedOnce
  <1>7. GroupsAccepted(next, g, n)
    <2>1. \A i \in DOMAIN h : i \in DOMAIN g /\ g[i] = h[i]
      BY Appended DEF g
    <2> QED
      BY Zenon, <1>2, <2>1 DEF GroupsAccepted
  <1> QED
    BY Zenon, <1>5, <1>6, <1>7 DEF next, g

\* A proof that is stored without being projected authorizes and decides nothing
LEMMA StoredOnly ==
    ASSUME NEW row \in RegistryRows, NEW h, NEW n, NEW tx, NEW next \in {row, SupportRow(row)},
           IsSeq(h), RowShape(row), GroupsAccepted(row, h, n), GrantedBy(row, h, n),
           DecidedOnce(row, h, n), tx.type # "revoke", tx.type \in Decision => tx.origin # n
    PROVE  /\ RowShape(next)
           /\ GroupsAccepted(next, Append(h, tx), n)
           /\ GrantedBy(next, Append(h, tx), n)
           /\ DecidedOnce(next, Append(h, tx), n)
PROOF
  <1> DEFINE g == Append(h, tx)
             k == Len(h) + 1
  <1>1. /\ Len(h) \in Nat /\ DOMAIN h = 1..Len(h) /\ DOMAIN g = 1..k
        /\ (\A i \in DOMAIN h : g[i] = h[i]) /\ g[k] = tx
    BY Appended
  <1>2. \A i \in DOMAIN g : i # k => i \in DOMAIN h
    BY <1>1
  <1>3. DOMAIN h \subseteq DOMAIN g
    BY <1>1
  <1>4. \/ next = row
        \/ /\ row = NoRow
           /\ next.state = "active" /\ next.mode = "none" /\ next.groups = {} /\ next.keys = "zero"
    <2>1. CASE row.state = "none"
      <3>1. row = NoRow
        BY Zenon, <2>1 DEF RowShape
      <3> QED
        BY Zenon, <2>1, <3>1 DEF SupportRow, NoRow
    <2>2. CASE row.state # "none"
      BY Zenon, <2>2 DEF SupportRow
    <2> QED
      BY Zenon, <2>1, <2>2
  <1> HIDE DEF g, k
  <1>5. \A i \in DOMAIN g : Own(g, i, n) => i \in DOMAIN h /\ Own(h, i, n)
    BY Zenon, <1>1, <1>2 DEF Own
  <1>6. RowShape(next)
    BY Zenon, <1>4 DEF RowShape, NoRow
  <1>7. DecidedOnce(next, g, n)
    <2>1. \A i \in DOMAIN h : Own(h, i, n) => next = row
      BY SMTT(30), Zenon, <1>4 DEF DecidedOnce, NoRow
    <2> QED
      BY Zenon, <1>5, <2>1 DEF DecidedOnce
  <1>8. GrantedBy(next, g, n)
    <2>1. CASE next = row
      <3> SUFFICES ASSUME row.state = "active", row.mode # "none"
                   PROVE  \E i \in DOMAIN g :
                            /\ g[i].type = "accept"
                            /\ g[i].origin = n
                            /\ g[i].scope.mode = row.mode
                            /\ g[i].scope.groups = row.groups
                            /\ \A j \in DOMAIN g : g[j].type = "revoke" => j < i
        BY Zenon, <2>1 DEF GrantedBy
      <3>1. PICK i \in DOMAIN h :
                            /\ h[i].type = "accept"
                            /\ h[i].origin = n
                            /\ h[i].scope.mode = row.mode
                            /\ h[i].scope.groups = row.groups
                            /\ \A j \in DOMAIN h : h[j].type = "revoke" => j < i
        BY Zenon DEF GrantedBy
      <3>2. \A j \in DOMAIN g : g[j].type = "revoke" => j \in DOMAIN h /\ h[j].type = "revoke"
        BY Zenon, <1>1, <1>2
      <3> QED
        BY Zenon, <1>1, <1>3, <3>1, <3>2
    <2>2. CASE next.mode = "none"
      BY Zenon, <2>2 DEF GrantedBy
    <2> QED
      BY Zenon, <1>4, <2>1, <2>2
  <1>9. GroupsAccepted(next, g, n)
    <2>1. next.groups # {} => row.groups # {}
      BY Zenon, <1>4
    <2> QED
      BY Zenon, <1>1, <1>3, <2>1 DEF GroupsAccepted
  <1> QED
    BY Zenon, <1>6, <1>7, <1>8, <1>9 DEF g

\* A submission under any of the policies keeps what is known of a row
LEMMA SubmissionKeeps ==
    ASSUME NEW n \in Node, NEW row \in RegistryRows, NEW h, NEW tx, NEW policy, IsSeq(h),
           RowShape(row), GroupsAccepted(row, h, n), GrantedBy(row, h, n), DecidedOnce(row, h, n),
           Legal(n, tx, policy), policy = "local" => Projects(row, tx)
    PROVE  LET next == RowAfter(n, row, tx, policy)
           IN  /\ RowShape(next)
               /\ GroupsAccepted(next, Append(h, tx), n)
               /\ GrantedBy(next, Append(h, tx), n)
               /\ DecidedOnce(next, Append(h, tx), n)
PROOF
  <1> DEFINE next == RowAfter(n, row, tx, policy)
             Kept == /\ RowShape(next)
                     /\ GroupsAccepted(next, Append(h, tx), n)
                     /\ GrantedBy(next, Append(h, tx), n)
                     /\ DecidedOnce(next, Append(h, tx), n)
  <1>1. ASSUME policy = "local" PROVE Kept
    <2>1. next = Projected(row, tx) /\ Projects(row, tx)
      BY Zenon, <1>1 DEF RowAfter
    <2>2. \/ tx.type = "request"
          \/ tx.type \in Decision /\ tx.origin = n /\ tx.scope \in Scopes
          \/ tx.type = "revoke"
      BY Zenon, <1>1 DEF Legal
    <2> HIDE DEF next
    <2>3. CASE tx.type = "request"
      <3>1. next = RequestProjected(row) /\ RequestProjects(row)
        BY Zenon, <2>1, <2>3 DEF Projected, Projects
      <3> QED
        BY Zenon, <2>3, <3>1, RequestKeeps
    <2>4. CASE tx.type \in Decision /\ tx.origin = n /\ tx.scope \in Scopes
      <3>1. DecisionProjects(row)
        BY Zenon, <2>1, <2>4 DEF Projects, Decision
      <3> QED
        BY Zenon, <2>1, <2>4, <3>1, DecisionKeeps
    <2>5. CASE tx.type = "revoke"
      <3>1. RevokeProjects(row)
        BY Zenon, <2>1, <2>5 DEF Projects
      <3> QED
        BY Zenon, <2>1, <2>5, <3>1, RevokeKeeps
    <2> QED
      BY Zenon, <2>2, <2>3, <2>4, <2>5
  <1>2. ASSUME policy # "local" PROVE Kept
    <2>1. next \in {row, SupportRow(row)}
      BY Zenon, <1>2 DEF RowAfter
    <2>2. tx.type # "revoke" /\ (tx.type \in Decision => tx.origin # n)
      BY Zenon, <1>2 DEF Legal, Decision
    <2> HIDE DEF next
    <2> QED
      BY Zenon, <2>1, <2>2, StoredOnly
  <1> HIDE DEF Kept
  <1> QED
    BY Zenon, <1>1, <1>2 DEF Kept

-----------------------------------------------------------------------------
(* Invariance                                                              *)

\* Every way the stores change keeps what is known of both rows
LEMMA RowsKept ==
    ASSUME Stores, \A n \in Node : RowInv(n), StoresMove
    PROVE  Stores' /\ \A n \in Node : RowInv(n)'
PROOF
  <1>1. CASE UNCHANGED <<registry, history>>
    BY Zenon, <1>1 DEF Stores, RowInv
  <1>2. ASSUME NEW n \in Node, NEW tx, NEW policy, Submitted(n, tx, policy), Legal(n, tx, policy)
        PROVE  Stores' /\ \A m \in Node : RowInv(m)'
    <2> DEFINE row == registry[n]
               h == history[n]
               next == RowAfter(n, row, tx, policy)
    <2>1. /\ Stores'
          /\ registry'[n] = next /\ history'[n] = Append(h, tx)
          /\ \A m \in Node \ {n} : registry'[m] = registry[m] /\ history'[m] = history[m]
      BY ZenonT(30), <1>2, StoreAfter
    <2>2. /\ row \in RegistryRows /\ IsSeq(h)
          /\ RowShape(row) /\ GroupsAccepted(row, h, n)
          /\ GrantedBy(row, h, n) /\ DecidedOnce(row, h, n)
      BY Zenon DEF Stores, RowInv
    <2>3. policy = "local" => Projects(row, tx)
      BY Zenon, <1>2 DEF Submitted, CanSubmit
    <2> HIDE DEF row, h
    <2>4. /\ RowShape(next)
          /\ GroupsAccepted(next, Append(h, tx), n)
          /\ GrantedBy(next, Append(h, tx), n)
          /\ DecidedOnce(next, Append(h, tx), n)
      BY Zenon, <1>2, <2>2, <2>3, SubmissionKeeps
    <2> HIDE DEF next
    <2>5. RowInv(n)'
      BY Zenon, <2>1, <2>4 DEF RowInv
    <2>6. ASSUME NEW m \in Node \ {n} PROVE RowInv(m)'
      BY Zenon, <2>1, <2>6 DEF RowInv
    <2> QED
      BY Zenon, <2>1, <2>5, <2>6
  <1> QED
    BY Zenon, <1>1, <1>2 DEF StoresMove

\* Requests carry their type, and so do decisions
LEMMA ProofTypes ==
    ASSUME NEW n, NEW type \in Decision, NEW request, NEW scope, NEW k
    PROVE  /\ RequestProof(n, k).type = "request"
           /\ RequestProof(n, k).type \notin Decision
           /\ DecisionProof(n, type, request, scope, k).type \in Decision
           /\ DecisionProof(n, type, request, scope, k).origin = n
           /\ DecisionProof(n, type, request, scope, k).scope = scope
           /\ RequestProof(n, k).node = n
           /\ LET tx == DecisionProof(n, type, request, scope, k) IN tx.node = tx.request.node
  BY Zenon DEF RequestProof, DecisionProof, Decision

\* A call of the pairing keeps what the command holds in order
LEMMA PairingKept ==
    ASSUME AInv, PairCall
    PROVE  Pairing'
PROOF
  <1>0. PICK k, o, r, d : pair = [step |-> k, outcome |-> o, requests |-> r, decisions |-> d]
    BY Zenon DEF AInv, Pairing
  <1>2. pair.step = k /\ pair.outcome = o /\ pair.requests = r /\ pair.decisions = d
    BY Zenon, <1>0
  <1> DEFINE n == PairCalls[k].at
  <1>1. /\ k \in DOMAIN PairCalls /\ k \in 1..10 /\ n \in Node /\ Len(PairCalls) = 10
        /\ k = 10 => PairCalls[k].at = There /\ PairCalls[k].do = "show"
        /\ PairCalls[k].do = "show" /\ PairCalls[k].at = Here => k = 9
    BY Zenon, <1>2, Calls DEF PairCall, PairCalls
  <1>3. /\ o = "none"
        /\ \A tx \in r : tx.type = "request" /\ tx.node \in Node
        /\ \A tx \in d : tx.type \in Decision /\ tx.node \in Node \ {tx.origin}
    BY <1>1, <1>2 DEF AInv, Pairing
  <1>4. ASSUME NEW more, NEW given, Advance(more, given), k # 10,
               \A tx \in more : tx.type = "request" /\ tx.node \in Node,
               \A tx \in given : tx.type \in Decision /\ tx.node \in Node \ {tx.origin}
        PROVE  Pairing'
    <2>1. pair' = [step |-> k + 1, outcome |-> o, requests |-> more, decisions |-> given]
      BY Zenon, <1>0, <1>4 DEF Advance
    <2>2. k + 1 \in 0..Len(PairCalls)
      BY <1>1, <1>4
    <2> QED
      BY Zenon, <1>1, <1>3, <1>4, <2>1, <2>2 DEF Pairing
  <1>6. CASE PairCalls[k].do # "show"
    <2>1. k # 10
      BY Zenon, <1>1, <1>6
    <2>2. \/ PairRequest(n)
          \/ PairImport(n, pair.requests, "local")
          \/ PairAccept(n)
          \/ PairImport(n, pair.decisions, "inbound_decision")
      BY Zenon, <1>2, <1>6 DEF PairCall
    <2> HIDE DEF n
    <2>3. CASE PairRequest(n)
      <3>1. Advance(r \cup {RequestProof(n, minted[n].request)}, {})
        BY Zenon, <1>2, <2>3 DEF PairRequest
      <3>2. \A tx \in r \cup {RequestProof(n, minted[n].request)} :
                tx.type = "request" /\ tx.node \in Node
        BY SMTT(30), Zenon, <1>1, <1>3, ProofTypes DEF Decision, n
      <3> QED
        BY SMTT(30), Zenon, <1>4, <2>1, <3>1, <3>2
    <2>4. CASE PairImport(n, pair.requests, "local") \/ PairImport(n, pair.decisions, "inbound_decision")
      <3>1. Advance(r, d)
        BY Zenon, <1>2, <2>4 DEF PairImport
      <3> QED
        BY Zenon, <1>3, <1>4, <2>1, <3>1
    <2>5. CASE PairAccept(n)
      <3> DEFINE tx == DecisionProof(n, "accept", PendingRequest(n), PairScope, minted[n].decision)
      <3>1. Advance(r, d \cup {tx})
        BY Zenon, <1>2, <2>5 DEF PairAccept
      <3>2. tx.type \in Decision /\ tx.origin = n /\ tx.node = tx.request.node
        BY SMTT(30), ProofTypes DEF Decision
      <3>3. Submitted(n, tx, "local")
        BY Zenon, <2>5 DEF PairAccept
      <3> HIDE DEF tx
      <3>4. tx.node \in Node \ {tx.origin}
        BY Zenon, <1>1, <3>2, <3>3, DecisionNode DEF AInv, n
      <3> QED
        BY SMTT(30), Zenon, <1>3, <1>4, <2>1, <3>1, <3>2, <3>4
    <2> QED
      BY Zenon, <2>2, <2>3, <2>4, <2>5
  <1>7. CASE PairCalls[k].do = "show"
    <2>1. PairShow(n)
      BY Zenon, <1>2, <1>7 DEF PairCall
    <2>2. CASE n = Here
      <3>1. pair' = [step |-> k + 1, outcome |-> o, requests |-> r, decisions |-> d]
        BY Zenon, <1>0, <2>1, <2>2 DEF PairShow
      <3>2. k + 1 \in 0..Len(PairCalls)
        BY <1>1, <1>7, <2>2
      <3> HIDE DEF n
      <3> QED
        BY Zenon, <1>1, <1>3, <3>1, <3>2 DEF Pairing
    <2>3. CASE n # Here
      <3>1. pair' = [step |-> 0, outcome |-> "complete", requests |-> {}, decisions |-> {}]
        BY Zenon, <2>1, <2>3 DEF PairShow, NoPair
      <3>2. 0 \in 0..Len(PairCalls)
        BY <1>1
      <3> HIDE DEF n
      <3> QED
        BY Zenon, <3>1, <3>2 DEF Pairing
    <2> QED
      BY Zenon, <2>2, <2>3
  <1> QED
    BY Zenon, <1>6, <1>7

\* The proofs that the operators and the commands hold stay in order
LEMMA ProofsKept ==
    ASSUME AInv, [AdmissionNext]_admissionVars
    PROVE  ProofsHeld' /\ Pairing'
PROOF
  <1> DEFINE Kept == ProofsHeld' /\ Pairing'
  <1>0. ProofsHeld /\ Pairing
    BY Zenon DEF AInv
  <1>1. ASSUME UNCHANGED <<inHand, deciding, pair>> PROVE Kept
    BY Zenon, <1>0, <1>1 DEF ProofsHeld, Pairing
  <1>2. ASSUME NEW n \in Node, PeerRequest(n) PROVE Kept
    <2>1. /\ inHand' = inHand \cup {RequestProof(n, minted[n].request)}
          /\ UNCHANGED <<deciding, pair>>
      BY Zenon, <1>2 DEF PeerRequest
    <2>2. /\ RequestProof(n, minted[n].request).type \notin Decision
          /\ RequestProof(n, minted[n].request).node \in Node
      BY ProofTypes DEF Decision
    <2> QED
      BY Zenon, <1>0, <2>1, <2>2 DEF ProofsHeld, Pairing
  <1>3. ASSUME NEW n \in Node, NEW tx \in inHand,
               PeerImportRequest(n, tx) \/ PeerImportDecision(n, tx)
        PROVE  Kept
    BY Zenon, <1>1, <1>3 DEF PeerImportRequest, PeerImportDecision
  <1>4. ASSUME NEW n \in Node, NEW type \in Decision, NEW scope \in Scopes,
               SignDecision(n, type, scope)
        PROVE  Kept
    <2> DEFINE tx == DecisionProof(n, type, PendingRequest(n), scope, minted[n].decision)
    <2>1. deciding' = [deciding EXCEPT ![n] = @ \cup {tx}] /\ UNCHANGED <<inHand, pair>>
      BY Zenon, <1>4 DEF SignDecision
    <2>2. /\ tx.type \in Decision /\ tx.origin = n /\ tx.scope \in Scopes
          /\ tx.node = tx.request.node
      BY ProofTypes
    <2> HIDE DEF tx
    <2> QED
      BY ZenonT(30), <1>0, <2>1, <2>2 DEF ProofsHeld, Pairing
  <1>5. ASSUME NEW n \in Node, NEW tx \in deciding[n], SubmitDecision(n, tx) PROVE Kept
    <2>1. deciding' = [deciding EXCEPT ![n] = @ \ {tx}] /\ UNCHANGED pair
      BY Zenon, <1>5 DEF SubmitDecision
    <2>2. inHand' = inHand \/ (inHand' = inHand \cup {tx} /\ Submitted(n, tx, "local"))
      BY Zenon, <1>5 DEF SubmitDecision
    <2>3. Submitted(n, tx, "local") => tx.node \in Node /\ tx.node # tx.origin
      BY <1>0, DecisionNode DEF AInv, ProofsHeld
    <2> QED
      BY ZenonT(30), <1>0, <2>1, <2>2, <2>3 DEF ProofsHeld, Pairing
  <1>6. ASSUME NEW n \in Node, NEW comment \in BOOLEAN, PeerRevoke(n, comment) PROVE Kept
    BY Zenon, <1>1, <1>6 DEF PeerRevoke
  <1>7. ASSUME PairStart \/ PairStops PROVE Kept
    <2>1. /\ UNCHANGED <<inHand, deciding>>
          /\ \/ pair' = [NoPair EXCEPT !.step = 1]
             \/ pair' = [NoPair EXCEPT !.outcome = "preserved"]
             \/ pair' = [NoPair EXCEPT !.outcome = "none"]
             \/ pair' = NoPair
      BY Zenon, <1>7 DEF PairStart, PairStops
    <2>2. 0 \in 0..Len(PairCalls) /\ 1 \in 0..Len(PairCalls)
      BY DEF PairCalls
    <2> QED
      BY <1>0, <2>1, <2>2 DEF ProofsHeld, Pairing, NoPair
  <1>8. ASSUME PairCall PROVE Kept
    <2>1. UNCHANGED <<inHand, deciding>>
      BY Zenon, <1>8 DEF PairCall
    <2> QED
      BY Zenon, <1>0, <1>8, <2>1, PairingKept DEF ProofsHeld
  <1>9. "accept" \in Decision /\ "reject" \in Decision /\ NoScope \in Scopes
    BY Zenon DEF Decision, NoScope, Scopes
  <1>10. ASSUME UNCHANGED admissionVars PROVE Kept
    BY Zenon, <1>1, <1>10 DEF admissionVars
  <1> HIDE DEF Kept
  <1> QED
    <2>1. Kept
      BY Zenon, <1>2, <1>3, <1>4, <1>5, <1>6, <1>7, <1>8, <1>9, <1>10 DEF AdmissionNext, PeerCommands
    <2> QED
      BY Zenon, <2>1 DEF Kept

\* A node that admitted the other keeps the groups and, short of a revocation,
\* the admission
LEMMA AdmissionKept ==
    ASSUME AInv, StoresMove, NEW n \in Node, registry[n].groups # {}
    PROVE  /\ registry'[n].groups = registry[n].groups
           /\ SynchronizationEligible(registry[n]) \/ Revokes(n) # {} =>
                  SynchronizationEligible(registry'[n]) \/ Revokes(n)' # {}
PROOF
  <1>0. Stores /\ RowShape(registry[n]) /\ registry[n] \in RegistryRows
    BY Zenon DEF AInv, RowInv, Stores
  <1>1. CASE UNCHANGED <<registry, history>>
    BY Zenon, <1>1 DEF Revokes
  <1>2. ASSUME NEW m \in Node, NEW tx, NEW policy, Submitted(m, tx, policy), Legal(m, tx, policy)
        PROVE  /\ registry'[n].groups = registry[n].groups
               /\ SynchronizationEligible(registry[n]) \/ Revokes(n) # {} =>
                      SynchronizationEligible(registry'[n]) \/ Revokes(n)' # {}
    <2>1. /\ registry'[m] = RowAfter(m, registry[m], tx, policy)
          /\ history'[m] = Append(history[m], tx)
          /\ \A o \in Node \ {m} : registry'[o] = registry[o] /\ history'[o] = history[o]
      BY SMTT(30), Zenon, <1>0, <1>2, StoreAfter
    <2>2. CASE m # n
      BY Zenon, <2>1, <2>2 DEF Revokes
    <2>3. CASE m = n
      <3> DEFINE h == history[n]
                 k == Len(h) + 1
      <3>1. /\ Len(h) \in Nat /\ DOMAIN h = 1..Len(h) /\ DOMAIN history'[n] = 1..k
            /\ (\A i \in DOMAIN h : history'[n][i] = h[i]) /\ history'[n][k] = tx
        BY SMTT(30), Zenon, <1>0, <2>1, <2>3, Appended DEF Stores
      <3>2. Revokes(n) \subseteq Revokes(n)'
        BY <3>1 DEF Revokes
      <3>3. tx.type = "revoke" => k \in Revokes(n)'
        BY <3>1 DEF Revokes
      <3> HIDE DEF h, k
      <3>4. registry[n].state \notin {"none", "admission_requested"} /\ ~RequestProjects(registry[n])
        BY <1>0 DEF RowShape, RequestProjects, IsPlaceholder, NoRow
      <3>5. CASE policy = "local"
        <4>1. Projects(registry[n], tx) /\ registry'[n] = Projected(registry[n], tx)
          BY Zenon, <1>2, <2>1, <2>3, <3>5 DEF Submitted, CanSubmit, RowAfter
        <4>2. tx.type = "request" \/ tx.type \in Decision \/ tx.type = "revoke"
          BY Zenon, <1>2, <3>5 DEF Legal
        <4>3. tx.type = "request" => RequestProjects(registry[n])
          BY Zenon, <4>1 DEF Projects
        <4>4. tx.type \in Decision => DecisionProjects(registry[n])
          BY Zenon, <4>1 DEF Projects, Decision
        <4>5. tx.type = "revoke"
          BY Zenon, <3>4, <4>2, <4>3, <4>4 DEF DecisionProjects
        <4>6. registry'[n] = RevokeProjected(registry[n], tx.comment)
          BY Zenon, <4>1, <4>5 DEF Projected
        <4>7. registry'[n].groups = registry[n].groups
          BY Zenon, <1>0, <4>6 DEF RevokeProjected, RegistryRows
        <4> QED
          BY Zenon, <3>3, <4>5, <4>7
      <3>6. CASE policy # "local"
        <4>1. registry'[n] = registry[n] \/ registry'[n] = SupportRow(registry[n])
          BY Zenon, <2>1, <2>3, <3>6 DEF RowAfter
        <4>2. registry'[n] = registry[n]
          BY Zenon, <3>4, <4>1 DEF SupportRow
        <4> QED
          BY Zenon, <3>2, <4>2
      <3> QED
        BY Zenon, <3>5, <3>6
    <2> QED
      BY Zenon, <2>2, <2>3
  <1> QED
    BY Zenon, <1>1, <1>2 DEF StoresMove

\* What the pairing has seen at the first node stays true while it looks at the
\* second
LEMMA ShownKept ==
    ASSUME AInv, StoresMove, [AdmissionNext]_admissionVars
    PROVE  Shown'
PROOF
  <1> SUFFICES ASSUME pair'.step = Len(PairCalls)
               PROVE  /\ registry'[Here].groups = {PairGroup}
                      /\ SynchronizationEligible(registry'[Here]) \/ Revokes(Here)' # {}
    BY Zenon DEF Shown
  <1>0. Len(PairCalls) = 10
    BY Zenon DEF PairCalls
  <1>1. CASE UNCHANGED pair
    <2>1. /\ registry[Here].groups = {PairGroup}
          /\ SynchronizationEligible(registry[Here]) \/ Revokes(Here) # {}
      BY Zenon, <1>1 DEF AInv, Shown
    <2> QED
      BY Zenon, <2>1, AdmissionKept, TwoNodes
  <1>2. CASE PairStart \/ PairStops
    BY <1>0, <1>2 DEF PairStart, PairStops, NoPair
  <1>3. CASE PairCall
    <2>1. PICK k, o, r, d : pair = [step |-> k, outcome |-> o, requests |-> r, decisions |-> d]
      BY Zenon DEF AInv, Pairing
    <2>2. pair.step = k /\ k \in DOMAIN PairCalls
      BY Zenon, <1>3, <2>1 DEF PairCall
    <2>3. k \in 1..10
      BY Zenon, <2>2, Calls
    <2>4. pair' = NoPair \/ pair'.step = k + 1 \/ pair' = [NoPair EXCEPT !.outcome = "complete"]
      <3>1. ASSUME NEW more, NEW given, Advance(more, given) PROVE pair'.step = k + 1
        BY Zenon, <2>1, <3>1 DEF Advance
      <3> DEFINE n == PairCalls[k].at
      <3>2. \/ PairRequest(n)
            \/ PairImport(n, pair.requests, "local")
            \/ PairAccept(n)
            \/ PairImport(n, pair.decisions, "inbound_decision")
            \/ PairShow(n)
        BY Zenon, <1>3, <2>2 DEF PairCall
      <3> HIDE DEF n
      <3> QED
        BY Zenon, <2>1, <3>1, <3>2 DEF PairRequest, PairImport, PairAccept, PairShow
    <2>5. k = 9
      BY SMTT(30), Zenon, <1>0, <2>3, <2>4 DEF NoPair
    <2>6. PairCalls[9].do = "show" /\ PairCalls[9].at = Here
      BY Zenon DEF PairCalls
    <2>7. PairShow(Here)
      BY Zenon, <1>3, <2>2, <2>5, <2>6 DEF PairCall
    <2> QED
      BY Zenon, <2>7 DEF PairShow
  <1>4. PairCall \/ PairStart \/ PairStops \/ UNCHANGED pair
    BY Zenon DEF AdmissionNext, PeerCommands, PeerRequest, PeerImportRequest, PeerImportDecision,
           SignDecision, SubmitDecision, PeerRevoke, admissionVars
  <1> QED
    BY Zenon, <1>1, <1>2, <1>3, <1>4

-----------------------------------------------------------------------------
(* The replay of a history, by induction on its length                     *)

\* g gives the row after each of the first k transactions
ReplayUpTo(g, n, txs, start, k) ==
    g = [i \in 0..k |-> IF i = 0 THEN [ok |-> TRUE, row |-> start]
                        ELSE Replays(n, g[i - 1], txs[i])]

\* A set of numbers that is not empty has a first one: what induction on the
\* length of a history comes down to
NumbersHaveFirst ==
    \A S \in SUBSET Nat : S # {} => \E k \in S : \A m \in S : ~ (m < k)

\* Every history has a replay
LEMMA ReplayExists ==
    ASSUME NumbersHaveFirst, NEW n, NEW txs, NEW start, NEW k \in Nat
    PROVE  \E g : ReplayUpTo(g, n, txs, start, k)
  <1> DEFINE Bad == {j \in Nat : ~ \E g : ReplayUpTo(g, n, txs, start, j)}
             First == [ok |-> TRUE, row |-> start]
  <1>1. SUFFICES ASSUME Bad # {} PROVE FALSE
    BY Zenon
  <1>2. PICK j \in Bad : \A m \in Bad : ~ (m < j)
    BY Zenon, <1>1 DEF NumbersHaveFirst
  <1>3. CASE j = 0
    <2> DEFINE g == [i \in 0..0 |-> First]
    <2>1. ReplayUpTo(g, n, txs, start, 0)
      BY DEF ReplayUpTo
    <2> QED
      BY Zenon, <1>2, <1>3, <2>1
  <1>4. CASE j # 0
    <2>1. j \in Nat /\ j - 1 \in Nat /\ j - 1 < j
      BY <1>4
    <2>2. PICK g : ReplayUpTo(g, n, txs, start, j - 1)
      BY Zenon, <1>2, <2>1
    <2> DEFINE h == [i \in 0..j |-> IF i = j THEN Replays(n, g[j - 1], txs[j]) ELSE g[i]]
    <2>3. ASSUME NEW i \in 0..j
          PROVE  h[i] = IF i = 0 THEN First ELSE Replays(n, h[i - 1], txs[i])
      <3>1. CASE i = j
        <4>1. h[j - 1] = g[j - 1] /\ h[j] = Replays(n, g[j - 1], txs[j])
          BY SMTT(30), <2>1
        <4> QED
          BY Zenon, <1>4, <3>1, <4>1
      <3>2. CASE i # j
        <4>1. i \in 0..(j - 1) /\ h[i] = g[i]
          BY <2>1, <3>2
        <4>2. i # 0 => h[i - 1] = g[i - 1]
          BY <2>1, <3>2
        <4>3. g[i] = IF i = 0 THEN First ELSE Replays(n, g[i - 1], txs[i])
          BY Zenon, <2>2, <4>1 DEF ReplayUpTo
        <4> QED
          BY Zenon, <4>1, <4>2, <4>3
      <3> QED
        BY Zenon, <3>1, <3>2
    <2>4. ReplayUpTo(h, n, txs, start, j)
      <3> HIDE DEF h
      <3>1. h = [i \in 0..j |-> h[i]]
        BY Zenon DEF h
      <3> QED
        BY Zenon, <2>3, <3>1 DEF ReplayUpTo
    <2> QED
      BY Zenon, <2>4
  <1> QED
    BY Zenon, <1>3, <1>4

\* Two replays agree as far as their histories do
LEMMA ReplayUnique ==
    ASSUME NumbersHaveFirst, NEW n, NEW txs, NEW more, NEW start, NEW k \in Nat, NEW l \in Nat, k <= l,
           \A i \in 1..k : txs[i] = more[i],
           NEW g, NEW h, ReplayUpTo(g, n, txs, start, k), ReplayUpTo(h, n, more, start, l)
    PROVE  g[k] = h[k]
  <1> DEFINE Bad == {j \in 0..k : g[j] # h[j]}
             First == [ok |-> TRUE, row |-> start]
  <1>1. SUFFICES ASSUME Bad # {} PROVE FALSE
    OBVIOUS
  <1>2. PICK j \in Bad : \A m \in Bad : ~ (m < j)
    <2>1. Bad \subseteq Nat
      OBVIOUS
    <2> QED
      BY Zenon, <1>1, <2>1 DEF NumbersHaveFirst
  <1>3. g[j] = IF j = 0 THEN First ELSE Replays(n, g[j - 1], txs[j])
    BY Zenon DEF ReplayUpTo
  <1>4. h[j] = IF j = 0 THEN First ELSE Replays(n, h[j - 1], more[j])
    <2>1. j \in 0..l
      OBVIOUS
    <2> QED
      BY Zenon, <2>1 DEF ReplayUpTo
  <1>5. j # 0 => j - 1 \in 0..k /\ j - 1 < j /\ j \in 1..k
    OBVIOUS
  <1>6. j # 0 => g[j - 1] = h[j - 1]
    BY Zenon, <1>2, <1>5
  <1> HIDE DEF First
  <1> QED
    BY Zenon, <1>2, <1>3, <1>4, <1>5, <1>6

\* ReplayOf is the end of a replay
LEMMA ReplayIs ==
    ASSUME NumbersHaveFirst, NEW n, NEW txs, NEW start, Len(txs) \in Nat
    PROVE  \E g : ReplayUpTo(g, n, txs, start, Len(txs)) /\ ReplayOf(n, txs, start) = g[Len(txs)]
  <1> DEFINE f == CHOOSE g : ReplayUpTo(g, n, txs, start, Len(txs))
  <1>1. ReplayUpTo(f, n, txs, start, Len(txs))
    BY Zenon, ReplayExists
  <1>2. ReplayOf(n, txs, start) = f[Len(txs)]
    BY Zenon DEF ReplayOf, ReplayUpTo
  <1> QED
    BY Zenon, <1>1, <1>2

\* Replaying one more transaction projects it onto what the ones before it gave
LEMMA ReplayAppend ==
    ASSUME NumbersHaveFirst, NEW n, NEW txs, IsSeq(txs), NEW tx, NEW start
    PROVE  ReplayOf(n, Append(txs, tx), start) = Replays(n, ReplayOf(n, txs, start), tx)
  <1> DEFINE more == Append(txs, tx)
             k == Len(txs)
  <1>1. PICK S : txs \in Seq(S)
    BY Zenon DEF IsSeq
  <1>2. /\ k \in Nat /\ Len(more) = k + 1 /\ more[k + 1] = tx
        /\ \A i \in 1..k : txs[i] = more[i]
    BY <1>1
  <1>3. PICK g : ReplayUpTo(g, n, txs, start, k) /\ ReplayOf(n, txs, start) = g[k]
    BY ZenonT(30), <1>2, ReplayIs
  <1> HIDE DEF more
  <1>4. PICK h : ReplayUpTo(h, n, more, start, k + 1) /\ ReplayOf(n, more, start) = h[k + 1]
    BY <1>2, ReplayIs
  <1> HIDE DEF k
  <1>5. g[k] = h[k]
    BY <1>2, <1>3, <1>4, ReplayUnique
  <1>6. h[k + 1] = Replays(n, h[k], more[k + 1])
    <2>1. k + 1 \in 0..(k + 1) /\ k + 1 # 0 /\ (k + 1) - 1 = k
      BY <1>2
    <2>2. h[k + 1] = IF k + 1 = 0 THEN [ok |-> TRUE, row |-> start]
                     ELSE Replays(n, h[(k + 1) - 1], more[k + 1])
      BY Zenon, <1>4, <2>1 DEF ReplayUpTo
    <2> QED
      BY Zenon, <2>1, <2>2
  <1> QED
    BY Zenon, <1>2, <1>3, <1>4, <1>5, <1>6 DEF more

\* An empty history replays to the row it starts from
LEMMA ReplayEmpty ==
    ASSUME NumbersHaveFirst, NEW n, NEW start
    PROVE  ReplayOf(n, <<>>, start) = [ok |-> TRUE, row |-> start]
  <1>1. PICK g : ReplayUpTo(g, n, <<>>, start, 0) /\ ReplayOf(n, <<>>, start) = g[0]
    BY SMTT(30), ReplayIs
  <1> QED
    BY <1>1 DEF ReplayUpTo

\* Replay of a history that is only about the peer: its first transaction is
\* the peer's request, so that the placeholder row is there from the start and
\* is replaced at once
Foreign(h, n) == \E i \in DOMAIN h : h[i].origin # n

ReplayStart(h, n) == IF Foreign(h, n) THEN SupportRow(NoRow) ELSE NoRow

ReplayInv(row, h, n) ==
    (\A i \in DOMAIN h : h[i].node # n) =>
        /\ ReplayOf(n, h, ReplayStart(h, n)) = [ok |-> TRUE, row |-> row]
        /\ h # <<>> => Foreign(h, n)

\* One more local transaction is replayed as it was projected
LEMMA ReplayKept ==
    ASSUME NumbersHaveFirst, NEW row \in RegistryRows, NEW h, IsSeq(h), NEW n, NEW tx, ReplayInv(row, h, n),
           tx.node # n => Projects(row, tx),
           tx.type \in {"request", "revoke"} \cup Decision, tx.type = "request" => tx.origin # n
    PROVE  ReplayInv(Projected(row, tx), Append(h, tx), n)
  <1> DEFINE g == Append(h, tx)
             next == Projected(row, tx)
  <1>1. /\ DOMAIN g = 1..(Len(h) + 1) /\ DOMAIN h = 1..Len(h) /\ Len(h) \in Nat
        /\ (\A i \in DOMAIN h : g[i] = h[i]) /\ g[Len(h) + 1] = tx
    BY Appended
  <1> HIDE DEF g
  <1>2. SUFFICES ASSUME \A i \in DOMAIN g : g[i].node # n
                 PROVE  /\ ReplayOf(n, g, ReplayStart(g, n)) = [ok |-> TRUE, row |-> next]
                        /\ Foreign(g, n)
    BY Zenon DEF ReplayInv, g
  <1>3. DOMAIN h \subseteq DOMAIN g /\ Len(h) + 1 \in DOMAIN g
    BY <1>1
  <1>4. tx.node # n /\ Projects(row, tx) /\ \A i \in DOMAIN h : h[i].node # n
    BY Zenon, <1>1, <1>2, <1>3
  <1>5. /\ ReplayOf(n, h, ReplayStart(h, n)) = [ok |-> TRUE, row |-> row]
        /\ h # <<>> => Foreign(h, n)
    BY Zenon, <1>4 DEF ReplayInv
  <1>6. CASE h # <<>>
    <2>1. Foreign(h, n) /\ Foreign(g, n)
      BY Zenon, <1>1, <1>3, <1>5, <1>6 DEF Foreign
    <2>2. ReplayStart(g, n) = ReplayStart(h, n)
      BY Zenon, <2>1 DEF ReplayStart
    <2>3. ReplayOf(n, g, ReplayStart(g, n)) = Replays(n, [ok |-> TRUE, row |-> row], tx)
      <3>1. \A start : ReplayOf(n, g, start) = Replays(n, ReplayOf(n, h, start), tx)
        BY ZenonT(30), ReplayAppend DEF g
      <3> QED
        BY Zenon, <1>5, <2>2, <3>1
    <2>4. Replays(n, [ok |-> TRUE, row |-> row], tx) = [ok |-> TRUE, row |-> next]
      BY Zenon, <1>4 DEF Replays
    <2> QED
      BY Zenon, <2>1, <2>3, <2>4
  <1>7. CASE h = <<>>
    <2>1. ~Foreign(h, n) /\ ReplayStart(h, n) = NoRow
      BY <1>7 DEF Foreign, ReplayStart
    <2>2. row = NoRow
      BY <1>5, <1>7, <2>1, ReplayEmpty
    <2>3. tx.type = "request"
      BY Zenon, <1>4, <2>2 DEF Projects, NoRow, DecisionProjects, RevokeProjects, Decision
    <2>4. Foreign(g, n)
      BY Zenon, <1>1, <1>3, <2>3 DEF Foreign
    <2>5. ReplayOf(n, g, SupportRow(NoRow)) = Replays(n, [ok |-> TRUE, row |-> SupportRow(NoRow)], tx)
      <3>1. \A start : ReplayOf(n, g, start) = Replays(n, ReplayOf(n, h, start), tx)
        BY Zenon, ReplayAppend DEF g
      <3> QED
        BY Zenon, <1>7, <3>1, ReplayEmpty
    <2>6. /\ SupportRow(NoRow) = [state |-> "active", mode |-> "none", groups |-> {},
                                 keys |-> "zero", note |-> "support"]
          /\ Projects(SupportRow(NoRow), tx)
          /\ Projected(SupportRow(NoRow), tx) = Projected(NoRow, tx)
      BY ZenonT(30), <2>3 DEF SupportRow, NoRow, Projects, RequestProjects, IsPlaceholder, Projected, RequestProjected
    <2>7. Replays(n, [ok |-> TRUE, row |-> SupportRow(NoRow)], tx)
              = [ok |-> TRUE, row |-> Projected(SupportRow(NoRow), tx)]
      BY Zenon, <1>4, <2>6 DEF Replays
    <2> QED
      BY Zenon, <2>2, <2>4, <2>5, <2>6, <2>7 DEF ReplayStart
  <1> QED
    BY Zenon, <1>6, <1>7

\* Every way the stores change keeps the replay of both histories
LEMMA ReplaysKept ==
    ASSUME NumbersHaveFirst, Stores, \A n \in Node : ReplayInv(registry[n], history[n], n), StoresMove
    PROVE  \A n \in Node : ReplayInv(registry'[n], history'[n], n)
  <1>1. CASE UNCHANGED <<registry, history>>
    BY Zenon, <1>1
  <1>2. ASSUME NEW n \in Node, NEW tx, NEW policy, Submitted(n, tx, policy), Legal(n, tx, policy)
        PROVE  \A m \in Node : ReplayInv(registry'[m], history'[m], m)
    <2> DEFINE row == registry[n]
               h == history[n]
    <2>1. /\ registry'[n] = RowAfter(n, registry[n], tx, policy)
          /\ history'[n] = Append(h, tx)
          /\ \A m \in Node \ {n} : registry'[m] = registry[m] /\ history'[m] = history[m]
      BY ZenonT(30), <1>2, StoreAfter
    <2>2. row \in RegistryRows /\ IsSeq(h)
      BY Zenon DEF Stores
    <2>3. CASE policy = "local"
      <3>1. registry'[n] = Projected(row, tx) /\ Projects(row, tx)
        BY Zenon, <1>2, <2>1, <2>3 DEF RowAfter, Submitted, CanSubmit
      <3>2. tx.type \in {"request", "revoke"} \cup Decision /\ (tx.type = "request" => tx.origin # n)
        BY Zenon, <1>2, <2>3 DEF Legal, Decision
      <3>3. ReplayInv(row, h, n)
        BY Zenon
      <3> HIDE DEF row, h
      <3>4. ReplayInv(registry'[n], history'[n], n)
        BY Zenon, <2>1, <2>2, <3>1, <3>2, <3>3, ReplayKept
      <3> QED
        BY Zenon, <2>1, <3>4
    <2>4. CASE policy # "local"
      <3>1. tx.node = n
        BY Zenon, <1>2, <2>4 DEF Legal
      <3>2. Len(h) + 1 \in DOMAIN Append(h, tx) /\ Append(h, tx)[Len(h) + 1] = tx
        BY <2>2, Appended
      <3>3. ReplayInv(registry'[n], history'[n], n)
        BY ZenonT(30), <2>1, <3>1, <3>2 DEF ReplayInv
      <3> QED
        BY Zenon, <2>1, <3>3
    <2> QED
      BY Zenon, <2>3, <2>4
  <1> QED
    BY Zenon, <1>1, <1>2 DEF StoresMove

\* The property in terms of the invariant
LEMMA ReplayAgreesIf ==
    ASSUME \A n \in Node : ReplayInv(registry[n], history[n], n)
    PROVE  ReplayAgrees
  <1> SUFFICES ASSUME NEW n \in Node, \A tx \in Recorded(n) : tx.node # n
               PROVE  ReplayRow(n) = [ok |-> TRUE, row |-> registry[n]]
    BY Zenon DEF ReplayAgrees
  <1>1. \A i \in DOMAIN history[n] : history[n][i].node # n
    BY Zenon DEF Recorded
  <1>2. (\E tx \in Recorded(n) : tx.origin # n) <=> Foreign(history[n], n)
    BY Zenon DEF Recorded, Foreign
  <1>3. ReplayOf(n, history[n], ReplayStart(history[n], n)) = [ok |-> TRUE, row |-> registry[n]]
    BY Zenon, <1>1 DEF ReplayInv
  <1> QED
    BY Zenon, <1>2, <1>3 DEF ReplayRow, ReplayStart

\* Before any command both histories are empty
LEMMA ReplayInit ==
    ASSUME NumbersHaveFirst, AdmissionInit
    PROVE  \A n \in Node : ReplayInv(registry[n], history[n], n)
  <1>1. \A n : ~Foreign(<<>>, n)
    BY DEF Foreign
  <1>2. \A n : ReplayInv(NoRow, <<>>, n)
    BY Zenon, <1>1, ReplayEmpty DEF ReplayInv, ReplayStart
  <1> QED
    BY Zenon, <1>2 DEF AdmissionInit

-----------------------------------------------------------------------------
(* The theorems                                                            *)

\* Before any command the invariant holds
LEMMA AdmissionStart ==
    ASSUME AdmissionInit
    PROVE  AInv
PROOF
  <1>1. NoRow \in RegistryRows
    BY Zenon DEF NoRow, RegistryRows
  <1>2. IsSeq(<<>>)
    <2>1. <<>> \in Seq({})
      OBVIOUS
    <2> QED
      BY Zenon, <2>1 DEF IsSeq
  <1>3. Stores
    BY <1>1, <1>2 DEF AdmissionInit, Stores
  <1>4. ProofsHeld
    BY Zenon DEF AdmissionInit, ProofsHeld
  <1>5. Len(PairCalls) = 10
    BY Zenon DEF PairCalls
  <1>6. Pairing /\ Shown
    <2>1. pair = [step |-> 0, outcome |-> "none", requests |-> {}, decisions |-> {}]
      BY Zenon DEF AdmissionInit, NoPair
    <2>2. pair.step = 0 /\ pair.outcome = "none" /\ pair.requests = {} /\ pair.decisions = {}
      BY Zenon, <2>1
    <2>3. 0 \in 0..Len(PairCalls) /\ 0 # Len(PairCalls)
      BY <1>5
    <2>4. \E s, o, r, d : pair = [step |-> s, outcome |-> o, requests |-> r, decisions |-> d]
      BY Zenon, <2>1
    <2> QED
      BY Zenon, <2>2, <2>3, <2>4 DEF Pairing, Shown
  <1>7. ASSUME NEW n \in Node PROVE RowInv(n)
    <2>1. registry[n] = NoRow /\ DOMAIN history[n] = {}
      BY DEF AdmissionInit
    <2> QED
      BY <2>1 DEF RowInv, RowShape, GroupsAccepted, GrantedBy, DecidedOnce, NoRow
  <1> QED
    BY Zenon, <1>3, <1>4, <1>6, <1>7 DEF AInv

\* Every step keeps it
LEMMA AdmissionStep ==
    ASSUME AInv, [AdmissionNext]_admissionVars
    PROVE  AInv'
PROOF
  <1>1. StoresMove
    BY Zenon, StoreMoves
  <1>2. Stores' /\ \A n \in Node : RowInv(n)'
    BY Zenon, <1>1, RowsKept DEF AInv
  <1>3. ProofsHeld' /\ Pairing'
    BY Zenon, ProofsKept
  <1>4. Shown'
    BY Zenon, <1>1, ShownKept
  <1> QED
    BY Zenon, <1>2, <1>3, <1>4 DEF AInv

\* The inductive invariant holds
THEOREM AdmissionInvariance == AdmissionSpec => []AInv
PROOF
  <1>1. AdmissionInit => AInv
    BY Zenon, AdmissionStart
  <1>2. AInv /\ [AdmissionNext]_admissionVars => AInv'
    BY Zenon, AdmissionStep
  <1> QED
    BY <1>1, <1>2, PTL DEF AdmissionSpec

\* Type correctness of the registries and of the pairing
THEOREM AdmissionTypeCorrect == AdmissionSpec => []AdmissionTypeOK
PROOF
  <1>1. AInv => AdmissionTypeOK
    BY Zenon DEF AInv, Stores, ProofsHeld, Pairing, RegistryRows, AdmissionTypeOK
  <1> QED
    BY <1>1, AdmissionInvariance, PTL

\* The invariant says where every scope comes from, and that a row is decided once
LEMMA GrantedScope ==
    ASSUME AInv
    PROVE  ScopeWasGranted
PROOF
  <1> SUFFICES ASSUME NEW n \in Node, NEW g \in Group, EligibleFor(registry[n], g)
               PROVE  \E i \in Accepts(n) :
                          /\ history[n][i].scope.mode = "all" \/ g \in history[n][i].scope.groups
                          /\ \A j \in Revokes(n) : j < i
    BY Zenon DEF ScopeWasGranted
  <1>1. registry[n].state = "active" /\ registry[n].mode # "none"
    BY Zenon DEF EligibleFor, SynchronizationEligible
  <1>2. GrantedBy(registry[n], history[n], n)
    BY Zenon DEF AInv, RowInv
  <1>3. PICK i \in DOMAIN history[n] :
          /\ history[n][i].type = "accept"
          /\ history[n][i].origin = n
          /\ history[n][i].scope.mode = registry[n].mode
          /\ history[n][i].scope.groups = registry[n].groups
          /\ \A j \in DOMAIN history[n] : history[n][j].type = "revoke" => j < i
    BY Zenon, <1>1, <1>2 DEF GrantedBy
  <1>4. i \in Accepts(n) /\ \A j \in Revokes(n) : j < i
    BY Zenon, <1>3 DEF Accepts, Revokes
  <1>5. history[n][i].scope.mode = "all" \/ g \in history[n][i].scope.groups
    BY Zenon, <1>3 DEF EligibleFor
  <1> QED
    BY Zenon, <1>4, <1>5

LEMMA DecidedRequests ==
    ASSUME AInv
    PROVE  OneDecisionPerRequest
  BY ZenonT(30) DEF AInv, RowInv, DecidedOnce, Own, Decision, OneDecisionPerRequest

\* Synchronization with a peer rests on an acceptance of this node's operator
\* that was not revoked since (require_peer_synchronization_eligible)
THEOREM NoScopeUngranted == AdmissionSpec => []ScopeWasGranted
  BY GrantedScope, AdmissionInvariance, PTL

\* Of the decisions signed concurrently for one request at most one is recorded
\* (accept_peer_admission, reject_peer_admission); indeed a peer is decided once
THEOREM OneDecision == AdmissionSpec => []OneDecisionPerRequest
  BY DecidedRequests, AdmissionInvariance, PTL

\* Rejected and revoked are the end of an identified row
Settled(row) == row.keys = "real" /\ row.state \in {"rejected", "revoked"}

\* Nothing is projected onto a settled row
LEMMA SettledRefuses ==
    ASSUME NEW n, NEW row, Settled(row), NEW tx, NEW policy, Legal(n, tx, policy),
           policy = "local" => Projects(row, tx)
    PROVE  RowAfter(n, row, tx, policy) = row
  <1>1. ~RequestProjects(row) /\ ~DecisionProjects(row) /\ ~RevokeProjects(row)
    BY Zenon DEF RequestProjects, IsPlaceholder, DecisionProjects, RevokeProjects, Settled
  <1>2. CASE policy = "local"
    <2>1. tx.type = "request" \/ tx.type \in {"accept", "reject"} \/ tx.type = "revoke"
      BY Zenon, <1>2 DEF Legal, Decision
    <2> QED
      BY Zenon, <1>1, <1>2, <2>1 DEF Projects
  <1>3. CASE policy # "local"
    BY Zenon, <1>3 DEF RowAfter, SupportRow, Settled
  <1> QED
    BY Zenon, <1>2, <1>3

LEMMA SettledStays ==
    ASSUME Stores, StoresMove, NEW n \in Node, Settled(registry[n])
    PROVE  registry'[n] = registry[n]
  <1>1. ASSUME NEW m \in Node, NEW tx, NEW policy, Submitted(m, tx, policy), Legal(m, tx, policy)
        PROVE  registry'[n] = registry[n]
    <2>1. /\ registry'[m] = RowAfter(m, registry[m], tx, policy)
          /\ \A o \in Node \ {m} : registry'[o] = registry[o]
      BY SMTT(30), Zenon, <1>1, StoreAfter
    <2>2. CASE m = n
      <3>1. policy = "local" => Projects(registry[m], tx)
        BY Zenon, <1>1 DEF Submitted, CanSubmit
      <3> QED
        BY SMTT(30), Zenon, <1>1, <2>1, <2>2, <3>1, SettledRefuses
    <2>3. CASE m # n
      BY Zenon, <2>1, <2>3
    <2> QED
      BY Zenon, <2>2, <2>3
  <1> QED
    BY Zenon, <1>1 DEF StoresMove

\* Rejection and revocation of an identified peer are final
\* (apply_peer_admission_request refuses every row but a placeholder)
THEOREM SettledAdmissionKept == AdmissionSpec => AdmissionSettled
PROOF
  <1>1. AInv /\ [AdmissionNext]_admissionVars =>
          [\A n \in Node :
             registry[n].keys = "real" /\ registry[n].state \in {"rejected", "revoked"} =>
                 registry'[n].state = registry[n].state]_admissionVars
    BY Zenon, StoreMoves, SettledStays DEF AInv, Settled
  <1> QED
    BY <1>1, AdmissionInvariance, PTL DEF AdmissionSpec, AdmissionSettled

\* What a pairing establishes; a later revocation is on record
Paired ==
    /\ \A n \in Node : /\ registry[n].groups # {}
                       /\ SynchronizationEligible(registry[n]) \/ Revokes(n) # {}
    /\ registry[Here].groups = registry[There].groups

\* A pairing that is preserved is mutual
LEMMA PreservedIsPaired ==
    ASSUME Preserved
    PROVE  Paired
  BY ZenonT(30), TwoNodes DEF Preserved, Paired

\* So is one that the last peer show completes
LEMMA CompletedIsPaired ==
    ASSUME AInv, PairCall, pair'.outcome # "none"
    PROVE  Paired /\ SynchronizationEligible(registry[There])
PROOF
  <1>1. PICK k, o, r, d : pair = [step |-> k, outcome |-> o, requests |-> r, decisions |-> d]
    BY Zenon DEF AInv, Pairing
  <1>2. pair.step = k /\ pair.outcome = o /\ k \in DOMAIN PairCalls
    BY Zenon, <1>1 DEF PairCall
  <1>3. k \in 1..10 /\ Len(PairCalls) = 10
    BY Zenon, <1>2, Calls DEF PairCalls
  <1>4. o = "none"
    BY <1>2, <1>3 DEF AInv, Pairing
  <1>5. ASSUME NEW more, NEW given, Advance(more, given) PROVE pair'.outcome = "none"
    BY Zenon, <1>1, <1>4, <1>5 DEF Advance
  <1> DEFINE n == PairCalls[k].at
  <1>6. PairShow(n) /\ PairCalls[k].do = "show"
    <2>1. \/ PairRequest(n)
          \/ PairImport(n, pair.requests, "local")
          \/ PairAccept(n)
          \/ PairImport(n, pair.decisions, "inbound_decision")
          \/ PairShow(n) /\ PairCalls[k].do = "show"
      BY Zenon, <1>2 DEF PairCall
    <2> HIDE DEF n
    <2> QED
      BY Zenon, <1>5, <2>1 DEF PairRequest, PairImport, PairAccept
  <1>7. n # Here
    BY Zenon, <1>1, <1>4, <1>6 DEF PairShow
  <1>8. k = 10 /\ n = There
    BY SMTT(30), Zenon, <1>2, <1>6, <1>7, TwoNodes DEF PairCalls
  <1>9. SynchronizationEligible(registry[There]) /\ registry[There].groups = {PairGroup}
    BY Zenon, <1>6, <1>8 DEF PairShow
  <1>10. /\ registry[Here].groups = {PairGroup}
         /\ SynchronizationEligible(registry[Here]) \/ Revokes(Here) # {}
    BY Zenon, <1>2, <1>3, <1>8 DEF AInv, Shown
  <1>11. \A m \in Node : m = Here \/ m = There
    BY Zenon, TwoNodes DEF There
  <1> QED
    BY Zenon, <1>9, <1>10, <1>11 DEF Paired

\* The SSH pairing reports completion, or preserves a pairing, only when each
\* node has admitted the other (pair_installed_peer)
THEOREM PairingIsMutual == AdmissionSpec => PairedMeansMutual
PROOF
  <1> DEFINE Mutual ==
        /\ SynchronizationEligible(registry[There]) /\ Accepts(There) # {} /\ Accepts(Here) # {}
        /\ SynchronizationEligible(registry[Here]) \/ Revokes(Here) # {}
        /\ registry[Here].groups = registry[There].groups
  <1>1. AInv /\ [AdmissionNext]_admissionVars =>
          [pair'.outcome # "none" /\ pair' # pair => Mutual]_admissionVars
    <2> SUFFICES ASSUME AInv, [AdmissionNext]_admissionVars, pair'.outcome # "none", pair' # pair
                 PROVE  Mutual
      BY Zenon
    <2>1. \A n \in Node : registry[n].groups # {} => Accepts(n) # {}
      BY Zenon DEF AInv, RowInv, GroupsAccepted, Accepts
    <2>2. Paired /\ SynchronizationEligible(registry[There]) => Mutual
      BY Zenon, <2>1, TwoNodes DEF Paired
    <2>3. CASE PairStart
      <3>1. Preserved
        BY Zenon, <2>3 DEF PairStart, NoPair
      <3>2. SynchronizationEligible(registry[There])
        BY Zenon, <3>1, TwoNodes DEF Preserved
      <3> QED
        BY Zenon, <2>2, <3>1, <3>2, PreservedIsPaired
    <2>4. CASE PairCall
      BY Zenon, <2>2, <2>4, CompletedIsPaired
    <2>5. ~PairStops
      BY SMTT(30), Zenon DEF PairStops, NoPair
    <2>6. PairCall \/ PairStart \/ PairStops \/ UNCHANGED pair
      BY Zenon DEF AdmissionNext, PeerCommands, PeerRequest, PeerImportRequest, PeerImportDecision,
             SignDecision, SubmitDecision, PeerRevoke, admissionVars
    <2> QED
      BY Zenon, <2>3, <2>4, <2>5, <2>6
  <1> QED
    BY <1>1, AdmissionInvariance, PTL DEF AdmissionSpec, PairedMeansMutual

=============================================================================
