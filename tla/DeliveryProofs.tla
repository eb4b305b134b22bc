--------------------------- MODULE DeliveryProofs ---------------------------
(***************************************************************************)
(* How a local transaction reaches its peers: the queue and its workers,   *)
(* then the scheduler that runs them.  The proofs about the second use     *)
(* the invariant of the first.                                             *)
(***************************************************************************)
EXTENDS DaemonDelivery, TLAPS

---------------------------------------------------------------------------
(***************************************************************************)
(* Proofs about OutboundDelivery, for any number of peers, workers, local  *)
(* transactions, crashes and resumes.  The invariant that carries them is  *)
(* IInv: the safety properties say nothing of why a worker that sends has  *)
(* the lock, or why a "delivered" answer means the peer has the row, and   *)
(* Holding adds exactly that.                                              *)
(***************************************************************************)

\* What a worker between claim and receipt relies on
Holding ==
  \A w \in Workers :
    /\ pc[w] \in {"lock", "authorize", "authorized", "send"} => cur[w] \in Envelopes
    /\ pc[w] \in {"authorize", "authorized", "send"} => lock[cur[w][2]] = w
    /\ route[w] # "none" => pc[w] = "send"
    /\ route[w] = "delivered" => cur[w] \in received

\* A row that was handed out exists
HandedOut ==
  /\ \A w \in Workers : cur[w] \in Envelopes => state[cur[w]] # "absent"
  /\ \A e \in late : state[e] # "absent"

IInv == TypeOK /\ Holding /\ HandedOut /\ RevokedPeerClosed /\ SentWasAccepted

-----------------------------------------------------------------------------
(* Types                                                                   *)

\* What the finiteness of the table is needed for: its rows can be counted, and a
\* listing without repetitions that is as long as they are many has all of them
Counted(S) ==
  /\ Cardinality(S) \in Nat
  /\ \A q \in [1..Cardinality(S) -> S] :
       (\A i, j \in 1..Cardinality(S) : i < j => q[i] # q[j]) =>
          \A e \in S : \E i \in 1..Cardinality(S) : q[i] = e

FiniteTable == \A S \in SUBSET Envelopes : Counted(S)

\* A row is identified by its transaction and its peer
LEMMA EnvelopeParts ==
  ASSUME NEW e \in Envelopes
  PROVE  e[1] \in Transactions /\ e[2] \in Peers /\ e = <<e[1], e[2]>>
  BY DEF Envelopes

\* A listing is a sequence of rows
LEMMA ListingsType ==
  ASSUME FiniteTable
  PROVE  \A q \in Listings : q \in Seq(Envelopes)
  <1>1. Deliverable \subseteq Envelopes
    BY Zenon DEF Deliverable
  <1>2. Cardinality(Deliverable) \in Nat
    BY Zenon, <1>1 DEF FiniteTable, Counted
  <1> QED
    BY <1>1, <1>2 DEF Listings

\* An update at any key keeps the type of a function
LEMMA ExceptType ==
  ASSUME NEW S, NEW T, NEW f \in [S -> T], NEW x, NEW v \in T
  PROVE  [f EXCEPT ![x] = v] \in [S -> T]
  BY Zenon

\* A settled row keeps the row columns well typed
LEMMA SettleType ==
  ASSUME TypeOK, NEW e, NEW expected, NEW final \in RowState,
         Settle(e, expected, final)
  PROVE  /\ state' \in [Envelopes -> RowState]
         /\ next' \in [Envelopes -> {"null", "later", "due"}]
         /\ expired' \subseteq Envelopes
  <1>1. CASE state[e] \in expected
    <2>1. /\ state' = [state EXCEPT ![e] = final]
          /\ next' = [next EXCEPT ![e] = "null"]
          /\ expired' = expired \ {e}
      BY Zenon, <1>1 DEF Settle
    <2>2. state \in [Envelopes -> RowState] /\ expired \subseteq Envelopes
      BY Zenon DEF TypeOK
    <2>3. next \in [Envelopes -> {"null", "later", "due"}]
      BY Zenon DEF TypeOK
    <2>4. state' \in [Envelopes -> RowState]
      BY Zenon, <2>1, <2>2, ExceptType
    <2>5. next' \in [Envelopes -> {"null", "later", "due"}]
      BY Zenon, <2>1, <2>3, ExceptType
    <2> QED
      BY Zenon, <2>1, <2>2, <2>4, <2>5
  <1>2. CASE state[e] \notin expected
    BY Zenon, <1>2 DEF TypeOK, Settle
  <1> QED
    BY Zenon, <1>1, <1>2

\* So do taking and leaving a lock
LEMMA LockType ==
  ASSUME TypeOK, NEW p, NEW holder \in Workers \cup {"free"},
         lock' = [lock EXCEPT ![p] = holder]
  PROVE  lock' \in [Peers -> Workers \cup {"free", "operator"}]
  <1>1. lock \in [Peers -> Workers \cup {"free", "operator"}]
    BY Zenon DEF TypeOK
  <1>2. holder \in Workers \cup {"free", "operator"}
    BY Zenon
  <1> QED
    BY Zenon, <1>1, <1>2, ExceptType

LEMMA ReleaseType ==
  ASSUME TypeOK, NEW w \in Workers, ReleasePeerLock(w)
  PROVE  /\ lock' \in [Peers -> Workers \cup {"free", "operator"}]
         /\ cur' \in [Workers -> Envelopes \cup {NoRow}]
         /\ seen' \in [Workers -> Nat]
         /\ pc' \in [Workers -> PC]
  <1>1. lock' = [lock EXCEPT ![cur[w][2]] = "free"]
    BY Zenon DEF ReleasePeerLock
  <1>2. lock' \in [Peers -> Workers \cup {"free", "operator"}]
    BY Zenon, <1>1, LockType
  <1> QED
    BY Zenon, <1>2 DEF ReleasePeerLock, TypeOK, Goto, PC

\* The row a worker has handed over is a row
LEMMA InHand ==
  ASSUME Holding, NEW w \in Workers
  PROVE  /\ pc[w] = "send" => cur[w] \in Envelopes /\ cur[w][2] \in Peers
         /\ route[w] # "none" => cur[w] \in Envelopes
  BY Zenon, EnvelopeParts DEF Holding

\* The rest of a listing is a listing
LEMMA AdvanceType ==
  ASSUME TypeOK, NEW w \in Workers, todo[w] # <<>>, Advance(w)
  PROVE  todo' \in [Workers -> Seq(Envelopes)]
  <1>1. todo[w] \in Seq(Envelopes)
    BY Zenon DEF TypeOK
  <1>2. Tail(todo[w]) \in Seq(Envelopes)
    BY <1>1
  <1> QED
    BY Zenon, <1>2 DEF TypeOK, Advance

\* Every step of the queue keeps the types
LEMMA TypeStep ==
  ASSUME FiniteTable, TypeOK, Holding, [Next]_vars
  PROVE  TypeOK'
PROOF
  <1> USE QueueAssumption DEF TypeOK, rows, worker, bounds, Goto, RowState, Live, InFlight, Queued, PC
  <1>1. ASSUME NEW propagate \in BOOLEAN, SubmitTransaction(propagate) PROVE TypeOK'
    BY <1>1 DEF SubmitTransaction, Persist
  <1>2. ASSUME NEW t \in Transactions, AuthorizeExisting(t) PROVE TypeOK'
    BY Zenon, <1>2 DEF AuthorizeExisting, Persist
  <1>3. ASSUME NEW p \in Peers, AcceptPeer(p) PROVE TypeOK'
    BY Zenon, <1>3 DEF AcceptPeer
  <1>4. ASSUME NEW p \in Peers, LockForRevoke(p) PROVE TypeOK'
    BY Zenon, <1>4 DEF LockForRevoke
  <1>5. ASSUME NEW p \in Peers, RevokePeer(p) PROVE TypeOK'
    BY Zenon, <1>5 DEF RevokePeer, RevokedRows
  <1>6. ASSUME NEW p \in Peers, RevokeRefused(p) PROVE TypeOK'
    BY Zenon, <1>6 DEF RevokeRefused
  <1>7. ASSUME NEW w \in Workers, NEW recovered \in SUBSET Peers, BeginPass(w, recovered) PROVE TypeOK'
    BY <1>7 DEF BeginPass
  <1>8. ASSUME NEW w \in Workers, QueueEndpointPrerequisites(w) PROVE TypeOK'
    BY Zenon, <1>8 DEF QueueEndpointPrerequisites, Persist
  <1>9. ASSUME NEW w \in Workers, RecoverStaleInflight(w) PROVE TypeOK'
    BY Zenon, <1>9 DEF RecoverStaleInflight, Stale
  <1>10. ASSUME NEW w \in Workers, ListDeliverable(w) PROVE TypeOK'
    BY <1>10, ListingsType DEF ListDeliverable
  <1>11. ASSUME NEW w \in Workers, SkipRow(w) PROVE TypeOK'
    <2>1. todo' \in [Workers -> Seq(Envelopes)]
      BY Zenon, <1>11, AdvanceType DEF SkipRow, AtRow
    <2> QED
      BY <1>11, <2>1 DEF SkipRow
  <1>12. ASSUME NEW w \in Workers, ClaimOutboundEnvelope(w) PROVE TypeOK'
    <2>1. todo' \in [Workers -> Seq(Envelopes)]
      BY Zenon, <1>12, AdvanceType DEF ClaimOutboundEnvelope, AtRow
    <2>2. /\ state' \in [Envelopes -> RowState]
          /\ attempts' \in [Envelopes -> Nat]
          /\ expired' \subseteq Envelopes
      BY <1>12 DEF ClaimOutboundEnvelope
    <2>3. /\ cur' \in [Workers -> Envelopes \cup {NoRow}]
          /\ seen' \in [Workers -> Nat]
      BY <1>12 DEF ClaimOutboundEnvelope
    <2> QED
      BY SMTT(30), Zenon, <1>12, <2>1, <2>2, <2>3 DEF ClaimOutboundEnvelope
  <1>13. ASSUME NEW w \in Workers, AcquirePeerLock(w) PROVE TypeOK'
    <2>1. lock' \in [Peers -> Workers \cup {"free", "operator"}]
      BY Zenon, <1>13, LockType DEF AcquirePeerLock
    <2> QED
      BY Zenon, <1>13, <2>1 DEF AcquirePeerLock
  <1>14. ASSUME NEW w \in Workers, Authorize(w) PROVE TypeOK'
    BY Zenon, <1>14 DEF Authorize
  <1>15. ASSUME NEW w \in Workers, MarkAuthorizationDenied(w) PROVE TypeOK'
    <2>1. /\ state' \in [Envelopes -> RowState]
          /\ next' \in [Envelopes -> {"null", "later", "due"}]
          /\ expired' \subseteq Envelopes
      BY Zenon, <1>15, SettleType DEF MarkAuthorizationDenied
    <2> QED
      BY Zenon, <1>15, <2>1, ReleaseType DEF MarkAuthorizationDenied
  <1>16. ASSUME NEW w \in Workers, MarkSending(w) PROVE TypeOK'
    BY Zenon, <1>16 DEF MarkSending
  <1>17. ASSUME NEW w \in Workers, ClaimLost(w) PROVE TypeOK'
    <2>1. /\ lock' \in [Peers -> Workers \cup {"free", "operator"}]
          /\ cur' \in [Workers -> Envelopes \cup {NoRow}]
          /\ seen' \in [Workers -> Nat]
          /\ pc' \in [Workers -> PC]
      BY Zenon, <1>17, ReleaseType DEF ClaimLost
    <2> QED
      BY Zenon, <1>17, <2>1 DEF ClaimLost
  <1>18. ASSUME NEW w \in Workers, MarkSent(w) PROVE TypeOK'
    <2>1. /\ state' \in [Envelopes -> RowState]
          /\ next' \in [Envelopes -> {"null", "later", "due"}]
          /\ expired' \subseteq Envelopes
      BY Zenon, <1>18, SettleType DEF MarkSent
    <2>2. /\ lock' \in [Peers -> Workers \cup {"free", "operator"}]
          /\ cur' \in [Workers -> Envelopes \cup {NoRow}]
          /\ seen' \in [Workers -> Nat]
          /\ pc' \in [Workers -> PC]
      BY Zenon, <1>18, ReleaseType DEF MarkSent
    <2>3. spent' \in [Peers -> Nat]
      BY Zenon, <1>18 DEF MarkSent
    <2> QED
      BY Zenon, <1>18, <2>1, <2>2, <2>3 DEF MarkSent
  <1>19. ASSUME NEW w \in Workers, MarkPeerRetryPending(w) PROVE TypeOK'
    <2>1. cur[w] \in Envelopes /\ cur[w][2] \in Peers
      BY Zenon, <1>19, InHand DEF MarkPeerRetryPending
    <2>2. failed' \in [Workers -> SUBSET Peers] /\ late' \subseteq Envelopes
      BY <1>19, <2>1 DEF MarkPeerRetryPending
    <2>3. /\ state' \in [Envelopes -> RowState]
          /\ next' \in [Envelopes -> {"null", "later", "due"}]
          /\ expired' \subseteq Envelopes
      BY Zenon, <1>19 DEF MarkPeerRetryPending
    <2>4. /\ lock' \in [Peers -> Workers \cup {"free", "operator"}]
          /\ cur' \in [Workers -> Envelopes \cup {NoRow}]
          /\ seen' \in [Workers -> Nat]
          /\ pc' \in [Workers -> PC]
      BY Zenon, <1>19, ReleaseType DEF MarkPeerRetryPending
    <2>5. spent' \in [Peers -> Nat]
      BY <1>19, <2>1 DEF MarkPeerRetryPending
    <2> QED
      BY Zenon, <1>19, <2>2, <2>3, <2>4, <2>5 DEF MarkPeerRetryPending
  <1>20. ASSUME NEW w \in Workers, EndPass(w) PROVE TypeOK'
    BY Zenon, <1>20 DEF EndPass
  <1>21. ASSUME NEW w \in Workers, Crash(w) PROVE TypeOK'
    <2>1. late' \subseteq Envelopes
      BY <1>21, InHand DEF Crash
    <2> QED
      BY <1>21, <2>1 DEF Crash
  <1>22. ASSUME NEW w \in Workers, ForwardRoute(w) PROVE TypeOK'
    <2>1. cur[w] \in Envelopes
      BY Zenon, <1>22, InHand DEF ForwardRoute
    <2>2. received' \subseteq Envelopes
      BY <1>22, <2>1 DEF ForwardRoute
    <2>3. \E a \in {"delivered", "error"} : route' = [route EXCEPT ![w] = a]
      BY Zenon, <1>22 DEF ForwardRoute
    <2> QED
      BY <1>22, <2>2, <2>3 DEF ForwardRoute
  <1>23. ASSUME NEW e \in Envelopes, ForwardLate(e) PROVE TypeOK'
    BY ZenonT(30), <1>23 DEF ForwardLate
  <1>24. ASSUME NEW p \in Peers, RetryDue(p) PROVE TypeOK'
    BY Zenon, <1>24 DEF RetryDue
  <1>25. ASSUME NEW e \in Envelopes, LeaseExpires(e) PROVE TypeOK'
    BY ZenonT(30), <1>25 DEF LeaseExpires
  <1>26. CASE UNCHANGED vars
    BY Zenon, <1>26 DEF vars
  <1> HIDE QueueAssumption DEF TypeOK, rows, worker, bounds, Goto,
          RowState, Live, InFlight, Queued, PC
  <1> QED
    BY ZenonT(30), <1>1, <1>2, <1>3, <1>4, <1>5, <1>6, <1>7, <1>8, <1>9, <1>10, <1>11,
       <1>12, <1>13, <1>14, <1>15, <1>16, <1>17, <1>18, <1>19, <1>20, <1>21,
       <1>22, <1>23, <1>24, <1>25, <1>26,
       Zenon
    DEF Next, Node, Revocation, PassStep, RowStep, Environment

-----------------------------------------------------------------------------
(* The lock and the request of a worker                                    *)

\* A lock leaves its worker only with the row, a request only with its answer
LEMMA HoldingStep ==
  ASSUME TypeOK, Holding, [Next]_vars
  PROVE  Holding'
PROOF
  <1> DEFINE kept == UNCHANGED <<pc, cur, lock, route, received>>
  <1>0. kept => Holding'
    BY DEF Holding
  <1> USE QueueAssumption DEF TypeOK, Holding, rows, worker, bounds, Goto
  <1>1. ASSUME NEW propagate \in BOOLEAN, SubmitTransaction(propagate) PROVE kept
    BY Zenon, <1>1 DEF SubmitTransaction
  <1>2. ASSUME NEW t \in Transactions, AuthorizeExisting(t) PROVE kept
    BY Zenon, <1>2 DEF AuthorizeExisting
  <1>3. ASSUME NEW p \in Peers, AcceptPeer(p) PROVE kept
    BY Zenon, <1>3 DEF AcceptPeer
  <1>4. ASSUME NEW p \in Peers, LockForRevoke(p) PROVE Holding'
    BY <1>4 DEF LockForRevoke
  <1>5. ASSUME NEW p \in Peers, RevokePeer(p) PROVE Holding'
    BY <1>5 DEF RevokePeer
  <1>6. ASSUME NEW p \in Peers, RevokeRefused(p) PROVE Holding'
    BY <1>6 DEF RevokeRefused
  <1>7. ASSUME NEW w \in Workers, NEW recovered \in SUBSET Peers, BeginPass(w, recovered) PROVE Holding'
    BY <1>7 DEF BeginPass
  <1>8. ASSUME NEW w \in Workers, QueueEndpointPrerequisites(w) PROVE Holding'
    BY <1>8 DEF QueueEndpointPrerequisites
  <1>9. ASSUME NEW w \in Workers, RecoverStaleInflight(w) PROVE Holding'
    BY <1>9 DEF RecoverStaleInflight
  <1>10. ASSUME NEW w \in Workers, ListDeliverable(w) PROVE Holding'
    BY <1>10 DEF ListDeliverable
  <1>11. ASSUME NEW w \in Workers, SkipRow(w) PROVE Holding'
    BY Zenon, <1>11 DEF SkipRow
  <1>12. ASSUME NEW w \in Workers, ClaimOutboundEnvelope(w) PROVE Holding'
    BY <1>12 DEF ClaimOutboundEnvelope, AtRow
  <1>13. ASSUME NEW w \in Workers, AcquirePeerLock(w) PROVE Holding'
    BY SMTT(30), Zenon, <1>13, EnvelopeParts DEF AcquirePeerLock
  <1>14. ASSUME NEW w \in Workers, Authorize(w) PROVE Holding'
    BY <1>14 DEF Authorize
  <1>15. ASSUME NEW w \in Workers, MarkAuthorizationDenied(w) PROVE Holding'
    BY <1>15 DEF MarkAuthorizationDenied, ReleasePeerLock
  <1>16. ASSUME NEW w \in Workers, MarkSending(w) PROVE Holding'
    BY <1>16 DEF MarkSending
  <1>17. ASSUME NEW w \in Workers, ClaimLost(w) PROVE Holding'
    BY <1>17 DEF ClaimLost, ReleasePeerLock
  <1>18. ASSUME NEW w \in Workers, MarkSent(w) PROVE Holding'
    BY SMTT(30), <1>18 DEF MarkSent, ReleasePeerLock
  <1>19. ASSUME NEW w \in Workers, MarkPeerRetryPending(w) PROVE Holding'
    BY <1>19 DEF MarkPeerRetryPending, ReleasePeerLock
  <1>20. ASSUME NEW w \in Workers, EndPass(w) PROVE Holding'
    BY SMTT(30), Zenon, <1>20 DEF EndPass
  <1>21. ASSUME NEW w \in Workers, Crash(w) PROVE Holding'
    BY SMTT(30), Zenon, <1>21, EnvelopeParts DEF Crash
  <1>22. ASSUME NEW w \in Workers, ForwardRoute(w) PROVE Holding'
    BY <1>22 DEF ForwardRoute
  <1>23. ASSUME NEW e \in Envelopes, ForwardLate(e) PROVE Holding'
    BY Zenon, <1>23 DEF ForwardLate
  <1>24. ASSUME NEW p \in Peers, RetryDue(p) PROVE kept
    BY Zenon, <1>24 DEF RetryDue
  <1>25. ASSUME NEW e \in Envelopes, LeaseExpires(e) PROVE kept
    BY Zenon, <1>25 DEF LeaseExpires
  <1>26. CASE UNCHANGED vars
    BY Zenon, <1>0, <1>26 DEF vars
  <1> HIDE QueueAssumption DEF TypeOK, Holding, rows, worker, bounds,
          Goto, kept
  <1> QED
    BY Zenon, <1>0, <1>1, <1>2, <1>3, <1>4, <1>5, <1>6, <1>7, <1>8, <1>9, <1>10,
       <1>11, <1>12, <1>13, <1>14, <1>15, <1>16, <1>17, <1>18, <1>19, <1>20,
       <1>21, <1>22, <1>23, <1>24, <1>25, <1>26,
       Zenon
    DEF Next, Node, Revocation, PassStep, RowStep, Environment

-----------------------------------------------------------------------------
(* Revocation                                                              *)

\* No step opens a row of a revoked peer or brings a worker past its
\* authorization, and a peer is revoked only while no worker holds its lock
LEMMA ClosedStep ==
  ASSUME TypeOK, Holding, RevokedPeerClosed, [Next]_vars
  PROVE  RevokedPeerClosed'
PROOF
  <1>types. /\ registry \in [Peers -> {"admission_requested", "active", "revoked"}]
            /\ state \in [Envelopes -> RowState]
            /\ pc \in [Workers -> PC]
            /\ cur \in [Workers -> Envelopes \cup {NoRow}]
            /\ {"free", "operator"} \cap Workers = {}
    BY Zenon, QueueAssumption DEF TypeOK
  <1> USE <1>types DEF RevokedPeerClosed, AtPeer, rows, worker, bounds,
          Goto, Live, InFlight, Queued, Envelopes
  <1> DEFINE kept == UNCHANGED <<registry, state, pc, cur>>
  <1>0. kept => RevokedPeerClosed'
    OBVIOUS
  <1>1. ASSUME NEW propagate \in BOOLEAN, SubmitTransaction(propagate) PROVE RevokedPeerClosed'
    BY ZenonT(30), <1>1 DEF SubmitTransaction, Persist, Eligible
  <1>2. ASSUME NEW t \in Transactions, AuthorizeExisting(t) PROVE RevokedPeerClosed'
    BY ZenonT(30), <1>2 DEF AuthorizeExisting, Persist, Eligible
  <1>3. ASSUME NEW p \in Peers, AcceptPeer(p) PROVE RevokedPeerClosed'
    BY Zenon, <1>3 DEF AcceptPeer
  <1>4. ASSUME NEW p \in Peers, LockForRevoke(p) PROVE kept
    BY Zenon, <1>4 DEF LockForRevoke
  <1>5. ASSUME NEW p \in Peers, RevokePeer(p) PROVE RevokedPeerClosed'
    BY SMTT(30), <1>5 DEF RevokePeer, RevokedRows, Holding
  <1>6. ASSUME NEW p \in Peers, RevokeRefused(p) PROVE kept
    BY Zenon, <1>6 DEF RevokeRefused
  <1>7. ASSUME NEW w \in Workers, NEW recovered \in SUBSET Peers, BeginPass(w, recovered)
        PROVE  RevokedPeerClosed'
    BY Zenon, <1>7 DEF BeginPass
  <1>8. ASSUME NEW w \in Workers, QueueEndpointPrerequisites(w) PROVE RevokedPeerClosed'
    BY ZenonT(30), <1>8 DEF QueueEndpointPrerequisites, Persist, Eligible
  <1>9. ASSUME NEW w \in Workers, RecoverStaleInflight(w) PROVE RevokedPeerClosed'
    BY ZenonT(30), <1>9 DEF RecoverStaleInflight, Stale
  <1>10. ASSUME NEW w \in Workers, ListDeliverable(w) PROVE RevokedPeerClosed'
    BY Zenon, <1>10 DEF ListDeliverable
  <1>11. ASSUME NEW w \in Workers, SkipRow(w) PROVE kept
    BY Zenon, <1>11 DEF SkipRow
  <1>12. ASSUME NEW w \in Workers, ClaimOutboundEnvelope(w) PROVE RevokedPeerClosed'
    BY <1>12 DEF ClaimOutboundEnvelope, Claimable
  <1>13. ASSUME NEW w \in Workers, AcquirePeerLock(w) PROVE RevokedPeerClosed'
    BY Zenon, <1>13 DEF AcquirePeerLock
  <1>14. ASSUME NEW w \in Workers, Authorize(w) PROVE RevokedPeerClosed'
    BY Zenon, <1>14 DEF Authorize, Eligible
  <1>15. ASSUME NEW w \in Workers, MarkAuthorizationDenied(w) PROVE RevokedPeerClosed'
    BY <1>15 DEF MarkAuthorizationDenied, Settle, ReleasePeerLock
  <1>16. ASSUME NEW w \in Workers, MarkSending(w) PROVE RevokedPeerClosed'
    BY <1>16 DEF MarkSending
  <1>17. ASSUME NEW w \in Workers, ClaimLost(w) PROVE RevokedPeerClosed'
    BY Zenon, <1>17 DEF ClaimLost, ReleasePeerLock
  <1>18. ASSUME NEW w \in Workers, MarkSent(w) PROVE RevokedPeerClosed'
    BY ZenonT(30), <1>18 DEF MarkSent, Settle, ReleasePeerLock
  <1>19. ASSUME NEW w \in Workers, MarkPeerRetryPending(w) PROVE RevokedPeerClosed'
    BY ZenonT(30), <1>19 DEF MarkPeerRetryPending, ReleasePeerLock
  <1>20. ASSUME NEW w \in Workers, EndPass(w) PROVE RevokedPeerClosed'
    BY Zenon, <1>20 DEF EndPass
  <1>21. ASSUME NEW w \in Workers, Crash(w) PROVE RevokedPeerClosed'
    BY Zenon, <1>21 DEF Crash
  <1>22. ASSUME NEW w \in Workers, ForwardRoute(w) PROVE kept
    BY Zenon, <1>22 DEF ForwardRoute
  <1>23. ASSUME NEW e \in Envelopes, ForwardLate(e) PROVE kept
    BY Zenon, <1>23 DEF ForwardLate
  <1>24. ASSUME NEW p \in Peers, RetryDue(p) PROVE kept
    BY Zenon, <1>24 DEF RetryDue
  <1>25. ASSUME NEW e \in Envelopes, LeaseExpires(e) PROVE kept
    BY Zenon, <1>25 DEF LeaseExpires
  <1>26. CASE UNCHANGED vars
    BY Zenon, <1>0, <1>26 DEF vars
  <1> HIDE <1>types DEF RevokedPeerClosed, AtPeer, rows, worker, bounds,
          Goto, Live, InFlight, Queued, Envelopes, kept
  <1> QED
    BY Zenon, <1>0, <1>1, <1>2, <1>3, <1>4, <1>5, <1>6, <1>7, <1>8, <1>9, <1>10,
       <1>11, <1>12, <1>13, <1>14, <1>15, <1>16, <1>17, <1>18, <1>19, <1>20,
       <1>21, <1>22, <1>23, <1>24, <1>25, <1>26,
       Zenon
    DEF Next, Node, Revocation, PassStep, RowStep, Environment

-----------------------------------------------------------------------------
(* Sent and denied rows                                                    *)

\* What one step may do to a row: a settled row stays as it is, no row is
\* removed, and a row becomes sent only in the hands of a worker that was answered "delivered"
RowMayChange ==
  \A e \in Envelopes :
    /\ state[e] \in {"sent", "authorization_denied"} => state'[e] = state[e]
    /\ state[e] # "absent" => state'[e] # "absent"
    /\ state'[e] = "sent" /\ state[e] # "sent" =>
         \E w \in Workers : cur[w] = e /\ route[w] = "delivered"

\* Every step changes rows only in the way RowMayChange says
LEMMA RowChangeStep ==
  ASSUME TypeOK, [Next]_vars
  PROVE  RowMayChange
PROOF
  <1>types. state \in [Envelopes -> RowState]
    BY Zenon DEF TypeOK
  <1> USE <1>types DEF RowMayChange, rows, worker, bounds, Live, InFlight, Queued
  <1> DEFINE kept == UNCHANGED state
  <1>0. kept => RowMayChange
    BY Zenon
  <1>1. ASSUME NEW propagate \in BOOLEAN, SubmitTransaction(propagate)
        PROVE  RowMayChange
    BY Zenon, <1>1 DEF SubmitTransaction, Persist
  <1>2. ASSUME NEW t \in Transactions, AuthorizeExisting(t) PROVE RowMayChange
    BY Zenon, <1>2 DEF AuthorizeExisting, Persist
  <1>3. ASSUME NEW p \in Peers, AcceptPeer(p) PROVE kept
    BY Zenon, <1>3 DEF AcceptPeer
  <1>4. ASSUME NEW p \in Peers, LockForRevoke(p) PROVE kept
    BY Zenon, <1>4 DEF LockForRevoke
  <1>5. ASSUME NEW p \in Peers, RevokePeer(p) PROVE RowMayChange
    BY Zenon, <1>5 DEF RevokePeer, RevokedRows
  <1>6. ASSUME NEW p \in Peers, RevokeRefused(p) PROVE kept
    BY Zenon, <1>6 DEF RevokeRefused
  <1>7. ASSUME NEW w \in Workers, NEW recovered \in SUBSET Peers, BeginPass(w, recovered)
        PROVE  kept
    BY Zenon, <1>7 DEF BeginPass
  <1>8. ASSUME NEW w \in Workers, QueueEndpointPrerequisites(w)
        PROVE  RowMayChange
    BY Zenon, <1>8 DEF QueueEndpointPrerequisites, Persist
  <1>9. ASSUME NEW w \in Workers, RecoverStaleInflight(w) PROVE RowMayChange
    BY Zenon, <1>9 DEF RecoverStaleInflight, Stale
  <1>10. ASSUME NEW w \in Workers, ListDeliverable(w) PROVE kept
    BY Zenon, <1>10 DEF ListDeliverable
  <1>11. ASSUME NEW w \in Workers, SkipRow(w) PROVE kept
    BY Zenon, <1>11 DEF SkipRow
  <1>12. ASSUME NEW w \in Workers, ClaimOutboundEnvelope(w) PROVE RowMayChange
    BY SMTT(30), <1>12 DEF ClaimOutboundEnvelope, Claimable
  <1>13. ASSUME NEW w \in Workers, AcquirePeerLock(w) PROVE kept
    BY Zenon, <1>13 DEF AcquirePeerLock
  <1>14. ASSUME NEW w \in Workers, Authorize(w) PROVE kept
    BY Zenon, <1>14 DEF Authorize
  <1>15. ASSUME NEW w \in Workers, MarkAuthorizationDenied(w) PROVE RowMayChange
    BY Zenon, <1>15 DEF MarkAuthorizationDenied, Settle
  <1>16. ASSUME NEW w \in Workers, MarkSending(w) PROVE RowMayChange
    BY Zenon, <1>16 DEF MarkSending
  <1>17. ASSUME NEW w \in Workers, ClaimLost(w) PROVE kept
    BY Zenon, <1>17 DEF ClaimLost
  <1>18. ASSUME NEW w \in Workers, MarkSent(w) PROVE RowMayChange
    BY Zenon, <1>18 DEF MarkSent, Settle, Delivered
  <1>19. ASSUME NEW w \in Workers, MarkPeerRetryPending(w) PROVE RowMayChange
    BY Zenon, <1>19 DEF MarkPeerRetryPending
  <1>20. ASSUME NEW w \in Workers, EndPass(w) PROVE kept
    BY Zenon, <1>20 DEF EndPass
  <1>21. ASSUME NEW w \in Workers, Crash(w) PROVE kept
    BY Zenon, <1>21 DEF Crash
  <1>22. ASSUME NEW w \in Workers, ForwardRoute(w) PROVE kept
    BY Zenon, <1>22 DEF ForwardRoute
  <1>23. ASSUME NEW e \in Envelopes, ForwardLate(e) PROVE kept
    BY Zenon, <1>23 DEF ForwardLate
  <1>24. ASSUME NEW p \in Peers, RetryDue(p) PROVE kept
    BY Zenon, <1>24 DEF RetryDue
  <1>25. ASSUME NEW e \in Envelopes, LeaseExpires(e) PROVE kept
    BY Zenon, <1>25 DEF LeaseExpires
  <1>26. CASE UNCHANGED vars
    BY Zenon, <1>26 DEF vars
  <1> HIDE <1>types DEF RowMayChange, rows, worker, bounds, Live, InFlight,
          Queued, kept
  <1> QED
    BY ZenonT(30), <1>0, <1>1, <1>2, <1>3, <1>4, <1>5, <1>6, <1>7, <1>8, <1>9, <1>10, <1>11,
       <1>12, <1>13, <1>14, <1>15, <1>16, <1>17, <1>18, <1>19, <1>20, <1>21,
       <1>22, <1>23, <1>24, <1>25, <1>26,
       Zenon
    DEF Next, Node, Revocation, PassStep, RowStep, Environment

\* What a worker may newly hold, and the daemon newly forward
Handed ==
  /\ \A w \in Workers : cur'[w] \in Envelopes =>
       cur'[w] = cur[w] \/ state[cur'[w]] \in Live
  /\ late' \subseteq late \cup {cur[w] : w \in {v \in Workers : cur[v] \in Envelopes}}

\* A worker takes a row from the queue, and the daemon a row from a worker
LEMMA HandedStep ==
  ASSUME TypeOK, Holding, [Next]_vars
  PROVE  Handed
PROOF
  <1>types. /\ state \in [Envelopes -> RowState]
            /\ cur \in [Workers -> Envelopes \cup {NoRow}]
            /\ NoRow \notin Envelopes
    BY DEF TypeOK, NoRow, Envelopes, Transactions
  <1> DEFINE kept == UNCHANGED <<cur, late>>
  <1>0. kept => Handed
    BY Zenon DEF Handed
  <1> USE <1>types DEF rows, worker, bounds
  <1>1. ASSUME NEW propagate \in BOOLEAN, SubmitTransaction(propagate)
        PROVE  kept
    BY Zenon, <1>1 DEF SubmitTransaction
  <1>2. ASSUME NEW t \in Transactions, AuthorizeExisting(t) PROVE kept
    BY Zenon, <1>2 DEF AuthorizeExisting
  <1>3. ASSUME NEW p \in Peers, AcceptPeer(p) PROVE kept
    BY Zenon, <1>3 DEF AcceptPeer
  <1>4. ASSUME NEW p \in Peers, LockForRevoke(p) PROVE kept
    BY Zenon, <1>4 DEF LockForRevoke
  <1>5. ASSUME NEW p \in Peers, RevokePeer(p) PROVE kept
    BY Zenon, <1>5 DEF RevokePeer
  <1>6. ASSUME NEW p \in Peers, RevokeRefused(p) PROVE kept
    BY Zenon, <1>6 DEF RevokeRefused
  <1>7. ASSUME NEW w \in Workers, NEW recovered \in SUBSET Peers, BeginPass(w, recovered)
        PROVE  kept
    BY Zenon, <1>7 DEF BeginPass
  <1>8. ASSUME NEW w \in Workers, QueueEndpointPrerequisites(w) PROVE kept
    BY Zenon, <1>8 DEF QueueEndpointPrerequisites
  <1>9. ASSUME NEW w \in Workers, RecoverStaleInflight(w) PROVE kept
    BY Zenon, <1>9 DEF RecoverStaleInflight
  <1>10. ASSUME NEW w \in Workers, ListDeliverable(w) PROVE kept
    BY Zenon, <1>10 DEF ListDeliverable
  <1>11. ASSUME NEW w \in Workers, SkipRow(w) PROVE kept
    BY Zenon, <1>11 DEF SkipRow
  <1>12. ASSUME NEW w \in Workers, ClaimOutboundEnvelope(w) PROVE Handed
    BY ZenonT(30), <1>12 DEF ClaimOutboundEnvelope, Claimable, Queued, Live, Handed
  <1>13. ASSUME NEW w \in Workers, AcquirePeerLock(w) PROVE kept
    BY Zenon, <1>13 DEF AcquirePeerLock
  <1>14. ASSUME NEW w \in Workers, Authorize(w) PROVE kept
    BY Zenon, <1>14 DEF Authorize
  <1>15. ASSUME NEW w \in Workers, MarkAuthorizationDenied(w) PROVE Handed
    BY Zenon, <1>15 DEF MarkAuthorizationDenied, ReleasePeerLock, Handed
  <1>16. ASSUME NEW w \in Workers, MarkSending(w) PROVE kept
    BY Zenon, <1>16 DEF MarkSending
  <1>17. ASSUME NEW w \in Workers, ClaimLost(w) PROVE Handed
    BY Zenon, <1>17 DEF ClaimLost, ReleasePeerLock, Handed
  <1>18. ASSUME NEW w \in Workers, MarkSent(w) PROVE Handed
    BY Zenon, <1>18 DEF MarkSent, ReleasePeerLock, Handed
  <1>19. ASSUME NEW w \in Workers, MarkPeerRetryPending(w) PROVE Handed
    BY Zenon, <1>19 DEF MarkPeerRetryPending, ReleasePeerLock, Holding, Handed
  <1>20. ASSUME NEW w \in Workers, EndPass(w) PROVE kept
    BY Zenon, <1>20 DEF EndPass
  <1>21. ASSUME NEW w \in Workers, Crash(w) PROVE Handed
    BY Zenon, <1>21 DEF Crash, Holding, Handed
  <1>22. ASSUME NEW w \in Workers, ForwardRoute(w) PROVE kept
    BY Zenon, <1>22 DEF ForwardRoute
  <1>23. ASSUME NEW e \in Envelopes, ForwardLate(e) PROVE Handed
    BY Zenon, <1>23 DEF ForwardLate, Handed
  <1>24. ASSUME NEW p \in Peers, RetryDue(p) PROVE kept
    BY Zenon, <1>24 DEF RetryDue
  <1>25. ASSUME NEW e \in Envelopes, LeaseExpires(e) PROVE kept
    BY Zenon, <1>25 DEF LeaseExpires
  <1>26. CASE UNCHANGED vars
    BY Zenon, <1>0, <1>26 DEF vars
  <1> HIDE <1>types DEF rows, worker, bounds, kept
  <1> QED
    BY ZenonT(30), <1>0, <1>1, <1>2, <1>3, <1>4, <1>5, <1>6, <1>7, <1>8, <1>9, <1>10, <1>11,
       <1>12, <1>13, <1>14, <1>15, <1>16, <1>17, <1>18, <1>19, <1>20, <1>21,
       <1>22, <1>23, <1>24, <1>25, <1>26,
       Zenon
    DEF Next, Node, Revocation, PassStep, RowStep, Environment

\* So what is handed out exists, and no step removes a row
LEMMA HandedOutStep ==
  ASSUME TypeOK, Holding, HandedOut, [Next]_vars
  PROVE  HandedOut'
PROOF
  <1>1. Handed /\ RowMayChange
    BY Zenon, HandedStep, RowChangeStep
  <1>2. \A e \in Envelopes : state[e] # "absent" => state'[e] # "absent"
    BY Zenon, <1>1 DEF RowMayChange
  <1>3. late \subseteq Envelopes
    BY Zenon DEF TypeOK
  <1>4. \A w \in Workers : cur'[w] \in Envelopes => state[cur'[w]] # "absent"
    BY Zenon, <1>1 DEF Handed, HandedOut, Live
  <1>5. \A e \in late' : e \in Envelopes /\ state[e] # "absent"
    BY Zenon, <1>1, <1>3 DEF Handed, HandedOut
  <1> QED
    BY Zenon, <1>2, <1>4, <1>5 DEF HandedOut

\* What a peer accepted stays accepted
LEMMA ReceivedGrows ==
  ASSUME [Next]_vars
  PROVE  received \subseteq received'
PROOF
  <1> USE DEF rows, worker, bounds
  <1> DEFINE kept == UNCHANGED received
  <1>0. kept => received \subseteq received'
    BY Zenon
  <1>1. ASSUME NEW propagate \in BOOLEAN, SubmitTransaction(propagate) PROVE kept
    BY Zenon, <1>1 DEF SubmitTransaction
  <1>2. ASSUME NEW t \in Transactions, AuthorizeExisting(t) PROVE kept
    BY Zenon, <1>2 DEF AuthorizeExisting
  <1>3. ASSUME NEW p \in Peers, AcceptPeer(p) PROVE kept
    BY Zenon, <1>3 DEF AcceptPeer
  <1>4. ASSUME NEW p \in Peers, LockForRevoke(p) PROVE kept
    BY Zenon, <1>4 DEF LockForRevoke
  <1>5. ASSUME NEW p \in Peers, RevokePeer(p) PROVE kept
    BY Zenon, <1>5 DEF RevokePeer
  <1>6. ASSUME NEW p \in Peers, RevokeRefused(p) PROVE kept
    BY Zenon, <1>6 DEF RevokeRefused
  <1>7. ASSUME NEW w \in Workers, NEW recovered \in SUBSET Peers, BeginPass(w, recovered)
        PROVE  kept
    BY Zenon, <1>7 DEF BeginPass
  <1>8. ASSUME NEW w \in Workers, QueueEndpointPrerequisites(w) PROVE kept
    BY Zenon, <1>8 DEF QueueEndpointPrerequisites
  <1>9. ASSUME NEW w \in Workers, RecoverStaleInflight(w) PROVE kept
    BY Zenon, <1>9 DEF RecoverStaleInflight
  <1>10. ASSUME NEW w \in Workers, ListDeliverable(w) PROVE kept
    BY Zenon, <1>10 DEF ListDeliverable
  <1>11. ASSUME NEW w \in Workers, SkipRow(w) PROVE kept
    BY Zenon, <1>11 DEF SkipRow
  <1>12. ASSUME NEW w \in Workers, ClaimOutboundEnvelope(w) PROVE kept
    BY Zenon, <1>12 DEF ClaimOutboundEnvelope
  <1>13. ASSUME NEW w \in Workers, AcquirePeerLock(w) PROVE kept
    BY Zenon, <1>13 DEF AcquirePeerLock
  <1>14. ASSUME NEW w \in Workers, Authorize(w) PROVE kept
    BY Zenon, <1>14 DEF Authorize
  <1>15. ASSUME NEW w \in Workers, MarkAuthorizationDenied(w) PROVE kept
    BY Zenon, <1>15 DEF MarkAuthorizationDenied
  <1>16. ASSUME NEW w \in Workers, MarkSending(w) PROVE kept
    BY Zenon, <1>16 DEF MarkSending
  <1>17. ASSUME NEW w \in Workers, ClaimLost(w) PROVE kept
    BY Zenon, <1>17 DEF ClaimLost
  <1>18. ASSUME NEW w \in Workers, MarkSent(w) PROVE kept
    BY Zenon, <1>18 DEF MarkSent
  <1>19. ASSUME NEW w \in Workers, MarkPeerRetryPending(w) PROVE kept
    BY Zenon, <1>19 DEF MarkPeerRetryPending
  <1>20. ASSUME NEW w \in Workers, EndPass(w) PROVE kept
    BY Zenon, <1>20 DEF EndPass
  <1>21. ASSUME NEW w \in Workers, Crash(w) PROVE kept
    BY Zenon, <1>21 DEF Crash
  <1>22. ASSUME NEW w \in Workers, ForwardRoute(w) PROVE received \subseteq received'
    BY Zenon, <1>22 DEF ForwardRoute
  <1>23. ASSUME NEW e \in Envelopes, ForwardLate(e) PROVE received \subseteq received'
    BY Zenon, <1>23 DEF ForwardLate
  <1>24. ASSUME NEW p \in Peers, RetryDue(p) PROVE kept
    BY Zenon, <1>24 DEF RetryDue
  <1>25. ASSUME NEW e \in Envelopes, LeaseExpires(e) PROVE kept
    BY Zenon, <1>25 DEF LeaseExpires
  <1>26. CASE UNCHANGED vars
    BY Zenon, <1>26 DEF vars
  <1> HIDE DEF rows, worker, bounds, kept
  <1> QED
    BY ZenonT(30), <1>0, <1>1, <1>2, <1>3, <1>4, <1>5, <1>6, <1>7, <1>8, <1>9, <1>10, <1>11,
       <1>12, <1>13, <1>14, <1>15, <1>16, <1>17, <1>18, <1>19, <1>20, <1>21,
       <1>22, <1>23, <1>24, <1>25, <1>26,
       Zenon
    DEF Next, Node, Revocation, PassStep, RowStep, Environment

-----------------------------------------------------------------------------
(* The abstract queue                                                      *)

QueueStutter == UNCHANGED Queue!queueVars
QueueMoves == Queue!QueueNext \/ QueueStutter

\* The stages the seven states of a row stand for
LEMMA StageValue ==
  /\ \A s \in Live : Stage(s) = "queued"
  /\ Stage("absent") = "absent"
  /\ Stage("sent") = "sent"
  /\ Stage("authorization_denied") = "denied"
  /\ \A s \in RowState : /\ Stage(s) = "queued" => s \in Live
                         /\ Stage(s) = "absent" => s = "absent"
  BY Zenon DEF Stage, Live, RowState

\* A step that keeps each row in its stage, and accepts and revokes nothing,
\* does not show
LEMMA SameStage ==
  ASSUME \A e \in Envelopes : Stage(state'[e]) = Stage(state[e]),
         UNCHANGED <<registry, received>>
  PROVE  QueueStutter
  BY Zenon DEF QueueStutter, Queue!queueVars, Revoked

\* Rows that move to a stage together, the others staying where they are
Moves(E, st) ==
  /\ E \subseteq Envelopes
  /\ \A e \in E : Stage(state'[e]) = st
  /\ \A e \in Envelopes \ E : Stage(state'[e]) = Stage(state[e])

\* Such a move is what Becomes says of the abstract stages
LEMMA MovesBecomes ==
  ASSUME NEW E, NEW st, Moves(E, st)
  PROVE  Queue!Becomes(E, st)
  BY Zenon DEF Moves, Queue!Becomes, Queue!Rows, Envelopes

\* INSERT OR IGNORE for eligible peers is an Enqueue
LEMMA PersistEnqueues ==
  ASSUME TypeOK, NEW E \in SUBSET Envelopes, Persist(E),
         \A e \in E : registry[e[2]] = "active",
         UNCHANGED <<registry, received>>
  PROVE  QueueMoves
PROOF
  <1> DEFINE F == {e \in E : state[e] = "absent"}
  <1>1. state' = [e \in Envelopes |-> IF e \in F THEN "pending" ELSE state[e]]
    BY Zenon DEF Persist
  <1>2. \A e \in F : e \in Envelopes /\ Stage(state[e]) = "absent" /\ e[2] \notin Revoked
    BY Zenon, StageValue DEF Revoked
  <1> HIDE DEF F
  <1>3. Moves(F, "queued")
    BY Zenon, <1>1, <1>2, StageValue DEF Moves, Live
  <1>4. Queue!Becomes(F, "queued")
    BY Zenon, <1>3, MovesBecomes
  <1>5. Queue!Enqueue(F)
    BY Zenon, <1>2, <1>4 DEF Queue!Enqueue, Revoked
  <1>6. F \in SUBSET Queue!Rows
    BY Zenon, <1>2 DEF Queue!Rows, Envelopes
  <1> QED
    BY Zenon, <1>5, <1>6 DEF QueueMoves, Queue!QueueNext

\* A compare-and-set on one live row is a Send, a Deny, or nothing
LEMMA SettleMoves ==
  ASSUME TypeOK, NEW e \in Envelopes, NEW expected, NEW final,
         expected \subseteq Live, Settle(e, expected, final),
         UNCHANGED <<registry, received>>,
         \/ final = "authorization_denied"
         \/ final = "sent" /\ e \in received
  PROVE  QueueMoves
PROOF
  <1>t. state \in [Envelopes -> RowState]
    BY Zenon DEF TypeOK
  <1>1. CASE state[e] \notin expected
    <2>1. state' = state
      BY Zenon, <1>1 DEF Settle
    <2> QED
      BY Zenon, <2>1, SameStage DEF QueueMoves
  <1>2. CASE state[e] \in expected
    <2>1. state' = [state EXCEPT ![e] = final]
      BY Zenon, <1>2 DEF Settle
    <2>2. Stage(state[e]) = "queued"
      BY Zenon, <1>2, StageValue
    <2>3. Moves({e}, Stage(final))
      BY Zenon, <1>t, <2>1 DEF Moves
    <2>4. Queue!Becomes({e}, Stage(final))
      BY Zenon, <2>3, MovesBecomes
    <2>5. Queue!Send(e) \/ Queue!Deny(e)
      BY Zenon, <2>2, <2>4, StageValue DEF Queue!Send, Queue!Deny, Revoked
    <2> QED
      BY Zenon, <2>5 DEF QueueMoves, Queue!QueueNext, Queue!Rows, Envelopes
  <1> QED
    BY Zenon, <1>1, <1>2

\* What the daemon forwards of a row that exists is an Accept
LEMMA AcceptMoves ==
  ASSUME NEW e \in Envelopes, TypeOK, state[e] # "absent", UNCHANGED <<registry, state>>,
         received' = received \cup {e} \/ received' = received
  PROVE  QueueMoves
PROOF
  <1>1. CASE received' = received
    BY Zenon, <1>1, SameStage DEF QueueMoves
  <1>2. CASE received' = received \cup {e}
    <2>1. Stage(state[e]) # "absent"
      BY Zenon, StageValue DEF TypeOK
    <2>2. Queue!Accept(e)
      BY ZenonT(30), <1>2, <2>1 DEF Queue!Accept, Revoked
    <2> QED
      BY Zenon, <2>2 DEF QueueMoves, Queue!QueueNext, Queue!Rows, Envelopes
  <1> QED
    BY Zenon, <1>1, <1>2

\* Every step of the queue is one step of the abstract queue, or none
LEMMA QueueStep ==
  ASSUME IInv, [Next]_vars
  PROVE  QueueMoves
PROOF
  <1>types. /\ TypeOK
            /\ Holding
            /\ HandedOut
            /\ state \in [Envelopes -> RowState]
            /\ registry \in [Peers -> {"admission_requested", "active", "revoked"}]
    BY Zenon DEF IInv, TypeOK
  <1> DEFINE kept == UNCHANGED <<registry, received, state>>
  <1>0. kept => QueueMoves
    BY Zenon, SameStage DEF QueueMoves
  <1> USE DEF rows, worker, bounds
  <1>1. ASSUME NEW propagate \in BOOLEAN, SubmitTransaction(propagate)
        PROVE  QueueMoves
    <2> DEFINE E == {<<created + 1, p>> : p \in {q \in Peers : propagate /\ Eligible(q, created + 1)}}
    <2>1. Persist(E) /\ UNCHANGED <<registry, received>> /\ created + 1 \in Transactions
      <3>1. /\ Persist(E) /\ UNCHANGED <<registry, received>>
            /\ created < LastTransaction
        BY Zenon, <1>1 DEF SubmitTransaction
      <3>2. created \in Nat /\ LastTransaction \in Nat
        BY <1>types, QueueAssumption DEF TypeOK
      <3>3. created + 1 \in Transactions
        BY SMTT(30), <3>1, <3>2 DEF Transactions
      <3> QED
        BY Zenon, <3>1, <3>3
    <2>2. E \in SUBSET Envelopes /\ \A e \in E : registry[e[2]] = "active"
      <3> SUFFICES ASSUME NEW e \in E PROVE e \in Envelopes /\ registry[e[2]] = "active"
        BY Zenon
      <3>1. PICK p \in Peers : e = <<created + 1, p>> /\ Eligible(p, created + 1)
        BY Zenon
      <3>2. e \in Envelopes /\ e[2] = p
        <4> HIDE DEF E
        <4> QED
          BY Zenon, <2>1, <3>1 DEF Envelopes
      <3> QED
        BY Zenon, <3>1, <3>2 DEF Eligible
    <2> HIDE DEF E
    <2> QED
      BY Zenon, <1>types, <2>1, <2>2, PersistEnqueues
  <1>2. ASSUME NEW t \in Transactions, AuthorizeExisting(t) PROVE QueueMoves
    <2> DEFINE E == {<<t, p>> : p \in {q \in Peers : Eligible(q, t)}}
    <2>1. Persist(E) /\ UNCHANGED <<registry, received>>
      BY Zenon, <1>2 DEF AuthorizeExisting
    <2>2. E \in SUBSET Envelopes /\ \A e \in E : registry[e[2]] = "active"
      BY DEF Eligible, Envelopes
    <2> HIDE DEF E
    <2> QED
      BY Zenon, <1>types, <2>1, <2>2, PersistEnqueues
  <1>3. ASSUME NEW p \in Peers, AcceptPeer(p) PROVE QueueMoves
    <2>1. Revoked' = Revoked /\ UNCHANGED <<state, received>>
      BY Zenon, <1>types, <1>3 DEF AcceptPeer, Revoked
    <2> QED
      BY Zenon, <2>1 DEF QueueMoves, QueueStutter, Queue!queueVars
  <1>4. ASSUME NEW p \in Peers, LockForRevoke(p) PROVE kept
    BY Zenon, <1>4 DEF LockForRevoke
  <1>5. ASSUME NEW p \in Peers, RevokePeer(p) PROVE QueueMoves
    <2>1. Revoked' = Revoked \cup {p} /\ UNCHANGED received
      BY Zenon, <1>types, <1>5 DEF RevokePeer, Revoked
    <2>2. state' = [e \in Envelopes |-> IF e \in RevokedRows(p)
                                       THEN "authorization_denied" ELSE state[e]]
      BY Zenon, <1>5 DEF RevokePeer
    <2>3. Queue!Waiting(p) = RevokedRows(p) /\ RevokedRows(p) \subseteq Envelopes
      BY Zenon, <1>types, StageValue DEF Queue!Waiting, Queue!Rows, RevokedRows, Envelopes
    <2>4. Moves(RevokedRows(p), "denied")
      BY Zenon, <2>2, <2>3, StageValue DEF Moves
    <2>5. Queue!Becomes(Queue!Waiting(p), "denied")
      BY Zenon, <2>3, <2>4, MovesBecomes
    <2>6. Queue!Close(p)
      BY Zenon, <2>1, <2>5 DEF Queue!Close
    <2> QED
      BY Zenon, <2>6 DEF QueueMoves, Queue!QueueNext
  <1>6. ASSUME NEW p \in Peers, RevokeRefused(p) PROVE kept
    BY Zenon, <1>6 DEF RevokeRefused
  <1>7. ASSUME NEW w \in Workers, NEW recovered \in SUBSET Peers, BeginPass(w, recovered)
        PROVE  kept
    BY Zenon, <1>7 DEF BeginPass
  <1>8. ASSUME NEW w \in Workers, QueueEndpointPrerequisites(w) PROVE QueueMoves
    <2>1. PICK U : Persist({f \in Envelopes :
                             /\ Eligible(f[2], f[1])
                             /\ \E e \in U :
                                  e[2] = f[2] /\ f[1] \in Prerequisites(e[1], f[2])})
      BY Zenon, <1>8 DEF QueueEndpointPrerequisites
    <2> DEFINE E == {f \in Envelopes :
                       /\ Eligible(f[2], f[1])
                       /\ \E e \in U : e[2] = f[2] /\ f[1] \in Prerequisites(e[1], f[2])}
    <2>2. Persist(E) /\ UNCHANGED <<registry, received>>
      BY Zenon, <2>1, <1>8 DEF QueueEndpointPrerequisites
    <2>3. E \in SUBSET Envelopes /\ \A e \in E : registry[e[2]] = "active"
      BY Zenon DEF Eligible
    <2> HIDE DEF E
    <2> QED
      BY Zenon, <1>types, <2>2, <2>3, PersistEnqueues
  <1>9. ASSUME NEW w \in Workers, RecoverStaleInflight(w) PROVE QueueMoves
    BY Zenon, <1>types, <1>9, StageValue, SameStage
    DEF RecoverStaleInflight, Stale, InFlight, Live, QueueMoves
  <1>10. ASSUME NEW w \in Workers, ListDeliverable(w) PROVE kept
    BY Zenon, <1>10 DEF ListDeliverable
  <1>11. ASSUME NEW w \in Workers, SkipRow(w) PROVE kept
    BY Zenon, <1>11 DEF SkipRow
  <1>12. ASSUME NEW w \in Workers, ClaimOutboundEnvelope(w) PROVE QueueMoves
    BY SMTT(60), Zenon, <1>types, <1>12, StageValue, SameStage
    DEF ClaimOutboundEnvelope, Claimable, Queued, Live, QueueMoves
  <1>13. ASSUME NEW w \in Workers, AcquirePeerLock(w) PROVE kept
    BY Zenon, <1>13 DEF AcquirePeerLock
  <1>14. ASSUME NEW w \in Workers, Authorize(w) PROVE kept
    BY Zenon, <1>14 DEF Authorize
  <1>15. ASSUME NEW w \in Workers, MarkAuthorizationDenied(w) PROVE QueueMoves
    <2>1. cur[w] \in Envelopes /\ InFlight \subseteq Live
      BY Zenon, <1>types, <1>15 DEF MarkAuthorizationDenied, Holding, InFlight, Live
    <2>2. /\ Settle(cur[w], InFlight, "authorization_denied")
          /\ UNCHANGED <<registry, received>>
      BY Zenon, <1>15 DEF MarkAuthorizationDenied
    <2> QED
      BY Zenon, <1>types, <2>1, <2>2, SettleMoves
  <1>16. ASSUME NEW w \in Workers, MarkSending(w) PROVE QueueMoves
    <2>1. cur[w] \in Envelopes
      BY Zenon, <1>types, <1>16 DEF MarkSending, Holding
    <2> QED
      BY Zenon, <1>types, <1>16, <2>1, StageValue, SameStage DEF MarkSending, Live, QueueMoves
  <1>17. ASSUME NEW w \in Workers, ClaimLost(w) PROVE kept
    BY Zenon, <1>17 DEF ClaimLost
  <1>18. ASSUME NEW w \in Workers, MarkSent(w) PROVE QueueMoves
    <2>1. cur[w] \in Envelopes /\ cur[w] \in received /\ {"sending"} \subseteq Live
      BY Zenon, <1>types, <1>18 DEF MarkSent, Delivered, Holding, Live
    <2>2. Settle(cur[w], {"sending"}, "sent") /\ UNCHANGED <<registry, received>>
      BY Zenon, <1>18 DEF MarkSent
    <2> QED
      BY SMTT(30), Zenon, <1>types, <2>1, <2>2, SettleMoves
  <1>19. ASSUME NEW w \in Workers, MarkPeerRetryPending(w) PROVE QueueMoves
    <2>1. PICK D : /\ \A e \in D : state[e] \in Queued \cup InFlight
                   /\ state' = [e \in Envelopes |-> IF e \in D THEN "retry_pending" ELSE state[e]]
      BY Zenon, <1>19 DEF MarkPeerRetryPending
    <2>2. UNCHANGED <<registry, received>>
      BY Zenon, <1>19 DEF MarkPeerRetryPending
    <2>3. \A e \in Envelopes : Stage(state'[e]) = Stage(state[e])
      BY Zenon, <2>1, StageValue DEF Queued, InFlight, Live
    <2> QED
      BY Zenon, <2>2, <2>3, SameStage DEF QueueMoves
  <1>20. ASSUME NEW w \in Workers, EndPass(w) PROVE kept
    BY Zenon, <1>20 DEF EndPass
  <1>21. ASSUME NEW w \in Workers, Crash(w) PROVE kept
    BY Zenon, <1>21 DEF Crash
  <1>22. ASSUME NEW w \in Workers, ForwardRoute(w) PROVE QueueMoves
    <2>1. cur[w] \in Envelopes /\ state[cur[w]] # "absent"
      BY Zenon, <1>types, <1>22, InHand DEF ForwardRoute, HandedOut
    <2>2. /\ UNCHANGED <<registry, state>>
          /\ received' = received \cup {cur[w]} \/ received' = received
      BY Zenon, <1>22 DEF ForwardRoute
    <2> QED
      BY Zenon, <1>types, <2>1, <2>2, AcceptMoves
  <1>23. ASSUME NEW e \in Envelopes, ForwardLate(e) PROVE QueueMoves
    <2>1. state[e] # "absent"
      BY Zenon, <1>types, <1>23 DEF ForwardLate, HandedOut
    <2>2. /\ UNCHANGED <<registry, state>>
          /\ received' = received \cup {e} \/ received' = received
      BY Zenon, <1>23 DEF ForwardLate
    <2> QED
      BY Zenon, <1>types, <2>1, <2>2, AcceptMoves
  <1>24. ASSUME NEW p \in Peers, RetryDue(p) PROVE kept
    BY Zenon, <1>24 DEF RetryDue
  <1>25. ASSUME NEW e \in Envelopes, LeaseExpires(e) PROVE kept
    BY Zenon, <1>25 DEF LeaseExpires
  <1>26. CASE UNCHANGED vars
    BY Zenon, <1>0, <1>26 DEF vars
  <1> HIDE DEF rows, worker, bounds, kept
  <1> QED
    BY Zenon, <1>0, <1>1, <1>2, <1>3, <1>4, <1>5, <1>6, <1>7, <1>8, <1>9, <1>10, <1>11,
       <1>12, <1>13, <1>14, <1>15, <1>16, <1>17, <1>18, <1>19, <1>20, <1>21,
       <1>22, <1>23, <1>24, <1>25, <1>26,
       Zenon
    DEF Next, Node, Revocation, PassStep, RowStep, Environment

-----------------------------------------------------------------------------
(* The inductive invariant                                                 *)

\* IInv holds initially
LEMMA InitIInv == Init => IInv
PROOF
  <1> SUFFICES ASSUME Init PROVE IInv
    BY Zenon
  <1>1. TypeOK
    BY SMTT(30), Zenon, QueueAssumption DEF Init, TypeOK, RowState, Live, PC
  <1>2. Holding
    BY Zenon DEF Init, Holding
  <1>3. RevokedPeerClosed
    BY Zenon DEF Init, RevokedPeerClosed
  <1>4. SentWasAccepted
    BY Zenon DEF Init, SentWasAccepted
  <1>5. HandedOut
    BY DEF Init, HandedOut, NoRow, Envelopes, Transactions
  <1> QED
    BY Zenon, <1>1, <1>2, <1>3, <1>4, <1>5 DEF IInv

\* IInv is preserved by every step
LEMMA NextIInv ==
  ASSUME FiniteTable, IInv, [Next]_vars
  PROVE  IInv'
PROOF
  <1>1. TypeOK' /\ Holding' /\ RevokedPeerClosed'
    BY Zenon, TypeStep, HoldingStep, ClosedStep DEF IInv
  <1>2. SentWasAccepted'
    <2> SUFFICES ASSUME NEW e \in Envelopes, state'[e] = "sent" PROVE e \in received'
      BY Zenon DEF SentWasAccepted
    <2>1. CASE state[e] = "sent"
      BY Zenon, <2>1, ReceivedGrows DEF IInv, SentWasAccepted
    <2>2. CASE state[e] # "sent"
      <3>1. PICK w \in Workers : cur[w] = e /\ route[w] = "delivered"
        BY Zenon, <2>2, RowChangeStep DEF IInv, RowMayChange
      <3> QED
        BY Zenon, <3>1, ReceivedGrows DEF IInv, Holding
    <2> QED
      BY Zenon, <2>1, <2>2
  <1>3. HandedOut'
    BY Zenon, HandedOutStep DEF IInv
  <1> QED
    BY Zenon, <1>1, <1>2, <1>3 DEF IInv

---------------------------------------------------------------------------
(***************************************************************************)
(* Proofs about the outbound scheduler and the queue together, for any     *)
(* number of peers, workers, transactions, crashes, lost wakes, returning  *)
(* routes and restarts.                                                    *)
(*                                                                         *)
(* SleepsOnlyWhenDone is about a daemon that no longer runs a worker.  Why *)
(* it holds lies in the pass before: what a pass may leave untried         *)
(* (PassOf), what its last line then says of the rest, and that nothing    *)
(* but a worker unparks a peer (Rested).                                   *)
(***************************************************************************)

\* Nothing went wrong: no worker failed or was left behind, no wake was lost
Quiet == crashes = 0 /\ lost = 0 /\ ~ orphaned

Fresh  == {"idle", "prerequisites", "recover", "list"}
Listed == PC \ Fresh

\* The rows a worker has listed and not reached
Listing(w) == {todo[w][i] : i \in 1..Len(todo[w])}

\* Some row of p waits for a later pass: worker w will not claim it in this one
HeldOut(w, p) ==
  \E b \in Envelopes :
    /\ b[2] = p
    /\ state[b] = "retry_pending"
    /\ b \notin Listing(w) \/ p \in failed[w]

\* A row that was never tried has no deadline
PendingUndated ==
  \A e \in Envelopes : state[e] \in {"absent", "pending"} => next[e] = "null"

\* The process the scheduler started is the only worker
OneWorker ==
  /\ process = "none" <=> report = "none"
  /\ process # "none" => nextRun = "inf"
  /\ Quiet => /\ report # "failed"
              /\ \A w \in Workers : pc[w] # "idle" <=> process = w /\ report = "running"

\* A row that was never tried is in the listing of the pass, or a row of its
\* peer has a deadline or is parked, unless a wake is on its way
PassOf(w) ==
  /\ pc[w] \in Fresh => failed[w] = {}
  /\ pc[w] = "send" => state[cur[w]] = "sending"
  /\ pc[w] \in Listed =>
       /\ \A p \in failed[w] : HeldOut(w, p) \/ registry[p] = "revoked"
       /\ ~ wakeRequested /\ ~ announce =>
            \A e \in Envelopes :
              state[e] = "pending" => e \in Listing(w) \/ HeldOut(w, e[2])

PassWork == Quiet => \A w \in Workers : PassOf(w)

Asleep ==
  \/ process = "none" /\ nextRun = "inf"
  \/ report = "nothing"

AllParked == \A e \in Envelopes : state[e] \in Live => ParkedPeer(e[2])

\* SleepsOnlyWhenDone, from the moment the worker has printed its schedule
Rested == Quiet /\ Asleep /\ ~ wakeRequested /\ ~ announce => AllParked

DInv ==
  /\ IInv
  /\ SchedulerTypeOK
  /\ PendingUndated
  /\ OneWorker
  /\ PassWork
  /\ Rested

-----------------------------------------------------------------------------
(* The queue under the scheduler                                           *)

\* The scheduler takes the steps of the queue; only a process that fails
\* before its pass, and a restart of the daemon, are steps of its own
LEMMA DaemonSteps ==
  ASSUME SchedulerTypeOK, [DaemonNext]_daemonVars
  PROVE  [Next]_vars \/ FailStart \/ DaemonRestart
PROOF
  <1>1. ASSUME Command PROVE Next
    BY Zenon, <1>1 DEF Command, Next, Node
  <1>2. ASSUME Wake \/ LoseWake \/ Poll \/ TimerDue PROVE UNCHANGED vars
    BY Zenon, <1>2 DEF Wake, LoseWake, Poll, TimerDue
  <1>3. ASSUME NEW p \in Peers, RouteInstalled(p) PROVE UNCHANGED vars
    BY Zenon, <1>3 DEF RouteInstalled
  <1>4. ASSUME NEW w \in Workers, StartPass(w) PROVE Next
    <2>1. BeginPass(w, argv) /\ argv \in SUBSET Peers
      BY Zenon, <1>4 DEF StartPass, SchedulerTypeOK
    <2> QED
      BY Zenon, <2>1 DEF Next
  <1>5. ASSUME NEW w \in Workers, FinishPass(w) PROVE Next
    BY Zenon, <1>5 DEF FinishPass, Next, PassStep
  <1>6. ASSUME NEW w \in Workers, FailPass(w) PROVE Next
    BY Zenon, <1>6 DEF FailPass, Next
  <1>7. ASSUME Unscheduled PROVE Next
    BY Zenon, <1>7 DEF Unscheduled, Next, PassStep
  <1>8. ASSUME UNCHANGED daemonVars PROVE UNCHANGED vars
    BY Zenon, <1>8 DEF daemonVars
  <1> QED
    BY Zenon, <1>1, <1>2, <1>3, <1>4, <1>5, <1>6, <1>7, <1>8 DEF DaemonNext

\* What carries the proofs about the queue also holds under the scheduler
LEMMA DaemonIInv ==
  ASSUME FiniteTable, IInv, SchedulerTypeOK, [DaemonNext]_daemonVars
  PROVE  IInv'
PROOF
  <1>1. CASE [Next]_vars
    BY Zenon, <1>1, NextIInv
  <1>2. CASE FailStart
    <2>1. UNCHANGED <<registry, created, rows, worker, late, lock, received, spent, resumes>>
      BY Zenon, <1>2 DEF FailStart
    <2>2. crashes' \in 0..MaxCrashes
      BY SMTT(30), <1>2, QueueAssumption DEF FailStart, IInv, TypeOK
    <2>3. TypeOK'
      BY Zenon, <2>1, <2>2 DEF IInv, TypeOK, rows, worker
    <2>4. Holding' /\ HandedOut' /\ RevokedPeerClosed' /\ SentWasAccepted'
      BY Zenon, <2>1 DEF IInv, Holding, HandedOut, RevokedPeerClosed, AtPeer, SentWasAccepted,
                  rows, worker
    <2> QED
      BY Zenon, <2>3, <2>4 DEF IInv
  <1>3. CASE DaemonRestart
    <2>1. /\ UNCHANGED <<registry, created, rows, pc, todo, failed, cur, seen, lock, received,
                         bounds>>
          /\ late' = {}
          /\ route' = [w \in Workers |-> IF route[w] = "queued" THEN "error" ELSE route[w]]
      BY Zenon, <1>3 DEF DaemonRestart
    <2>2. TypeOK'
      BY Zenon, <2>1 DEF IInv, TypeOK, rows, bounds
    <2>3. Holding'
      BY Zenon, <2>1 DEF IInv, Holding
    <2>4. HandedOut' /\ RevokedPeerClosed' /\ SentWasAccepted'
      BY Zenon, <2>1 DEF IInv, HandedOut, RevokedPeerClosed, AtPeer, SentWasAccepted, rows
    <2> QED
      BY Zenon, <2>2, <2>3, <2>4 DEF IInv
  <1> QED
    BY Zenon, <1>1, <1>2, <1>3, DaemonSteps

\* The scheduler shows no step to the abstract queue that the queue does not
LEMMA DaemonQueueStep ==
  ASSUME IInv, SchedulerTypeOK, [DaemonNext]_daemonVars
  PROVE  QueueMoves
PROOF
  <1>1. CASE [Next]_vars
    BY Zenon, <1>1, QueueStep
  <1>2. CASE FailStart \/ DaemonRestart
    BY Zenon, <1>2, SameStage DEF FailStart, DaemonRestart, rows, QueueMoves
  <1> QED
    BY Zenon, <1>1, <1>2, DaemonSteps

\* Every step keeps the types of the scheduler
LEMMA SchedulerTypeStep ==
  ASSUME FiniteTable, IInv, SchedulerTypeOK, [DaemonNext]_daemonVars
  PROVE  SchedulerTypeOK'
PROOF
  <1>1. TypeOK'
    BY Zenon, DaemonIInv DEF IInv
  <1> DEFINE Own == /\ process \in Workers \cup {"none"}
                    /\ argv \subseteq Peers
                    /\ report \in {"none", "spawned", "running", "deadline", "nothing", "failed"}
                    /\ wakeRequested \in BOOLEAN
                    /\ recoveredPeers \subseteq Peers
                    /\ nextRun \in {"inf", "waiting", "due"}
                    /\ announce \in BOOLEAN
                    /\ returns \in 0..MaxResumes
                    /\ lost \in 0..MaxLostWakes
                    /\ restarts \in 0..MaxRestarts
                    /\ orphaned \in BOOLEAN
  <1>2. Own
    BY Zenon DEF SchedulerTypeOK
  <1> USE QueueAssumption, SchedulerAssumption DEF pass, flags, counts
  <1>3. ASSUME Command PROVE Own'
    BY Zenon, <1>2, <1>3 DEF Command
  <1>4. ASSUME Wake PROVE Own'
    BY Zenon, <1>2, <1>4 DEF Wake
  <1>5. ASSUME LoseWake PROVE Own'
    <2>1. lost' \in 0..MaxLostWakes
      BY SMTT(30), <1>2, <1>5 DEF LoseWake
    <2> QED
      BY Zenon, <1>2, <1>5, <2>1 DEF LoseWake
  <1>6. ASSUME NEW p \in Peers, RouteInstalled(p) PROVE Own'
    BY <1>2, <1>6 DEF RouteInstalled
  <1>7. ASSUME Poll PROVE Own'
    <2>1. CollectedRun \in {"inf", "waiting", "due"}
      BY Zenon, <1>2 DEF CollectedRun
    <2> QED
      BY Zenon, <1>2, <1>7, <2>1 DEF Poll
  <1>8. ASSUME TimerDue PROVE Own'
    BY Zenon, <1>2, <1>8 DEF TimerDue
  <1>9. ASSUME NEW w \in Workers, StartPass(w) PROVE Own'
    BY Zenon, <1>2, <1>9 DEF StartPass
  <1>10. ASSUME NEW w \in Workers, FinishPass(w) PROVE Own'
    BY Zenon, <1>2, <1>10 DEF FinishPass
  <1>11. ASSUME NEW w \in Workers, FailPass(w) PROVE Own'
    BY Zenon, <1>2, <1>11 DEF FailPass
  <1>12. ASSUME FailStart PROVE Own'
    BY Zenon, <1>2, <1>12 DEF FailStart
  <1>13. ASSUME DaemonRestart PROVE Own'
    <2>1. restarts' \in 0..MaxRestarts
      BY SMTT(30), <1>2, <1>13 DEF DaemonRestart
    <2> QED
      BY Zenon, <1>2, <1>13, <2>1 DEF DaemonRestart
  <1>14. ASSUME UNCHANGED scheduler PROVE Own'
    BY ZenonT(30), <1>2, <1>14 DEF scheduler
  <1>15. ASSUME UNCHANGED daemonVars PROVE UNCHANGED scheduler
    BY Zenon, <1>15 DEF daemonVars
  <1> HIDE QueueAssumption, SchedulerAssumption DEF pass, flags, counts, Own
  <1>16. Own'
    BY Zenon, <1>3, <1>4, <1>5, <1>6, <1>7, <1>8, <1>9, <1>10, <1>11, <1>12, <1>13, <1>14, <1>15
       DEF DaemonNext
  <1> QED
    BY Zenon, <1>1, <1>16 DEF SchedulerTypeOK, Own

-----------------------------------------------------------------------------
(* One worker, and rows without a deadline                                 *)

\* Whatever went wrong before a step went wrong after it
LEMMA QuietStep ==
  ASSUME IInv, SchedulerTypeOK, [DaemonNext]_daemonVars, Quiet'
  PROVE  /\ Quiet
         /\ ~ LoseWake
         /\ ~ FailStart
         /\ \A w \in Workers : ~ FailPass(w)
         /\ DaemonRestart => \A w \in Workers : pc[w] = "idle"
PROOF
  <1>types. crashes \in Nat /\ lost \in Nat
    BY QueueAssumption, SchedulerAssumption DEF SchedulerTypeOK, TypeOK
  <1>0. crashes' = 0 /\ lost' = 0 /\ ~ orphaned'
    BY Zenon DEF Quiet
  <1>1. ~ LoseWake
    BY <1>types, <1>0 DEF LoseWake
  <1>2. ~ FailStart
    BY SMTT(30), <1>types, <1>0 DEF FailStart
  <1>3. \A w \in Workers : ~ FailPass(w)
    BY <1>types, <1>0 DEF FailPass, Crash
  <1>4. DaemonRestart => ~ orphaned /\ \A w \in Workers : pc[w] = "idle"
    BY Zenon, <1>0 DEF DaemonRestart
  <1>5. DaemonRestart => crashes' = crashes /\ lost' = lost
    BY Zenon DEF DaemonRestart, bounds
  <1> DEFINE kept == UNCHANGED <<crashes, lost, orphaned>>
  <1>6. ASSUME NEW w \in Workers, RowStep(w) PROVE UNCHANGED crashes
    BY Zenon, <1>6
    DEF RowStep, QueueEndpointPrerequisites, RecoverStaleInflight, ListDeliverable, SkipRow,
        ClaimOutboundEnvelope, AcquirePeerLock, Authorize, MarkAuthorizationDenied, MarkSending,
        ClaimLost, MarkSent, MarkPeerRetryPending, bounds
  <1>7. ASSUME Unscheduled PROVE UNCHANGED crashes
    <2>1. ASSUME NEW p \in Peers, Revocation(p) PROVE UNCHANGED crashes
      BY Zenon, <2>1 DEF Revocation, LockForRevoke, RevokePeer, RevokeRefused, bounds
    <2>2. ASSUME Environment PROVE UNCHANGED crashes
      BY Zenon, <2>2 DEF Environment, ForwardRoute, ForwardLate, RetryDue, LeaseExpires, bounds
    <2> QED
      BY Zenon, <1>6, <1>7, <2>1, <2>2 DEF Unscheduled
  <1>8. Unscheduled /\ UNCHANGED scheduler => kept
    BY Zenon, <1>7 DEF scheduler, counts
  <1>9. Command => kept
    BY Zenon DEF Command, SubmitTransaction, AuthorizeExisting, AcceptPeer, bounds, counts
  <1>10. Wake \/ Poll \/ TimerDue \/ (\E p \in Peers : RouteInstalled(p)) => kept
    BY Zenon DEF Wake, Poll, TimerDue, RouteInstalled, vars, bounds, counts
  <1>11. (\E w \in Workers : StartPass(w) \/ FinishPass(w)) => kept
    BY Zenon DEF StartPass, FinishPass, BeginPass, EndPass, bounds, counts
  <1>12. UNCHANGED daemonVars => kept
    BY Zenon DEF daemonVars, vars, bounds, scheduler, counts
  <1>13. kept => Quiet
    BY <1>0 DEF Quiet
  <1>14. DaemonRestart => Quiet
    BY Zenon, <1>0, <1>4, <1>5 DEF Quiet
  <1> HIDE DEF kept
  <1>15. Quiet
    BY Zenon, <1>1, <1>2, <1>3, <1>8, <1>9, <1>10, <1>11, <1>12, <1>13, <1>14 DEF DaemonNext
  <1> QED
    BY Zenon, <1>1, <1>2, <1>3, <1>4, <1>15

\* A step inside a pass leaves its worker inside the pass
LEMMA RowStepMoves ==
  ASSUME TypeOK, NEW w \in Workers, RowStep(w)
  PROVE  /\ pc[w] # "idle"
         /\ pc'[w] # "idle"
         /\ \A v \in Workers \ {w} : pc'[v] = pc[v] /\ failed'[v] = failed[v]
PROOF
  <1>types. pc \in [Workers -> PC] /\ failed \in [Workers -> SUBSET Peers]
    BY Zenon DEF TypeOK
  <1> USE <1>types DEF Goto
  <1>1. CASE QueueEndpointPrerequisites(w)
    BY Zenon, <1>1 DEF QueueEndpointPrerequisites
  <1>2. CASE RecoverStaleInflight(w)
    BY Zenon, <1>2 DEF RecoverStaleInflight
  <1>3. CASE ListDeliverable(w)
    BY Zenon, <1>3 DEF ListDeliverable
  <1>4. CASE SkipRow(w)
    BY Zenon, <1>4 DEF SkipRow, AtRow
  <1>5. CASE ClaimOutboundEnvelope(w)
    BY Zenon, <1>5 DEF ClaimOutboundEnvelope, AtRow
  <1>6. CASE AcquirePeerLock(w)
    BY Zenon, <1>6 DEF AcquirePeerLock
  <1>7. CASE Authorize(w)
    BY Zenon, <1>7 DEF Authorize
  <1>8. CASE MarkAuthorizationDenied(w)
    BY Zenon, <1>8 DEF MarkAuthorizationDenied, ReleasePeerLock
  <1>9. CASE MarkSending(w)
    BY Zenon, <1>9 DEF MarkSending
  <1>10. CASE ClaimLost(w)
    BY Zenon, <1>10 DEF ClaimLost, ReleasePeerLock
  <1>11. CASE MarkSent(w)
    BY Zenon, <1>11 DEF MarkSent, ReleasePeerLock
  <1>12. CASE MarkPeerRetryPending(w)
    BY Zenon, <1>12 DEF MarkPeerRetryPending, ReleasePeerLock
  <1> QED
    BY Zenon, <1>1, <1>2, <1>3, <1>4, <1>5, <1>6, <1>7, <1>8, <1>9, <1>10, <1>11, <1>12 DEF RowStep

\* The scheduler starts a worker only when the last one has ended
LEMMA OneWorkerStep ==
  ASSUME IInv, SchedulerTypeOK, OneWorker, [DaemonNext]_daemonVars
  PROVE  OneWorker'
PROOF
  <1>types. /\ TypeOK
            /\ process \in Workers \cup {"none"}
            /\ "none" \notin Workers
            /\ pc \in [Workers -> PC]
    BY Zenon, SchedulerAssumption DEF SchedulerTypeOK, TypeOK
  <1> DEFINE kept == UNCHANGED <<process, report, nextRun, pc>>
  <1>0. kept => OneWorker'
    BY Zenon, QuietStep DEF OneWorker
  <1> USE DEF pass, flags, counts, worker
  <1>1. ASSUME Command PROVE kept
    BY Zenon, <1>1 DEF Command, SubmitTransaction, AuthorizeExisting, AcceptPeer
  <1>2. ASSUME Wake PROVE kept
    BY Zenon, <1>2 DEF Wake, vars
  <1>3. ASSUME LoseWake PROVE kept
    BY Zenon, <1>3 DEF LoseWake, vars
  <1>4. ASSUME NEW p \in Peers, RouteInstalled(p) PROVE kept
    BY Zenon, <1>4 DEF RouteInstalled, vars
  <1>5. ASSUME Poll PROVE OneWorker'
    BY Zenon, <1>types, <1>5, QuietStep DEF Poll, CollectedRun, OneWorker, vars
  <1>6. ASSUME TimerDue PROVE OneWorker'
    BY Zenon, <1>types, <1>6, QuietStep DEF TimerDue, OneWorker, vars
  <1>7. ASSUME NEW w \in Workers, StartPass(w) PROVE OneWorker'
    BY Zenon, <1>types, <1>7, QuietStep DEF StartPass, BeginPass, Goto, OneWorker
  <1>8. ASSUME NEW w \in Workers, FinishPass(w) PROVE OneWorker'
    BY Zenon, <1>types, <1>8, QuietStep DEF FinishPass, EndPass, Goto, OneWorker
  <1>9. ASSUME NEW w \in Workers, FailPass(w) PROVE OneWorker'
    BY Zenon, <1>types, <1>9, QuietStep DEF FailPass, OneWorker
  <1>10. ASSUME FailStart PROVE OneWorker'
    BY Zenon, <1>types, <1>10, QuietStep DEF FailStart, OneWorker
  <1>11. ASSUME DaemonRestart PROVE OneWorker'
    BY Zenon, <1>types, <1>11, QuietStep DEF DaemonRestart, OneWorker
  <1>12. ASSUME NEW p \in Peers, Revocation(p), UNCHANGED scheduler PROVE kept
    BY Zenon, <1>12 DEF Revocation, LockForRevoke, RevokePeer, RevokeRefused, scheduler
  <1>13. ASSUME NEW w \in Workers, RowStep(w), UNCHANGED scheduler PROVE OneWorker'
    BY Zenon, <1>types, <1>13, QuietStep, RowStepMoves DEF OneWorker, scheduler
  <1>14. ASSUME Environment, UNCHANGED scheduler PROVE kept
    BY Zenon, <1>14 DEF Environment, ForwardRoute, ForwardLate, RetryDue, LeaseExpires, scheduler
  <1>15. ASSUME UNCHANGED daemonVars PROVE kept
    BY Zenon, <1>15 DEF daemonVars, vars, scheduler
  <1> HIDE DEF pass, flags, counts, worker, kept
  <1> QED
    BY Zenon, <1>0, <1>1, <1>2, <1>3, <1>4, <1>5, <1>6, <1>7, <1>8, <1>9, <1>10, <1>11, <1>12, <1>13,
       <1>14, <1>15, Zenon DEF DaemonNext, Unscheduled

\* A row gets a deadline only with a failed or interrupted attempt
LEMMA UndatedStep ==
  ASSUME TypeOK, PendingUndated, [Next]_vars
  PROVE  PendingUndated'
PROOF
  <1>types. /\ state \in [Envelopes -> RowState]
            /\ next \in [Envelopes -> {"null", "later", "due"}]
    BY Zenon DEF TypeOK
  <1> DEFINE kept == UNCHANGED <<state, next>>
  <1>0. kept => PendingUndated'
    BY Zenon DEF PendingUndated
  <1> USE <1>types DEF PendingUndated, rows
  <1>1. ASSUME NEW propagate \in BOOLEAN, SubmitTransaction(propagate)
        PROVE  PendingUndated'
    BY Zenon, <1>1 DEF SubmitTransaction, Persist
  <1>2. ASSUME NEW t \in Transactions, AuthorizeExisting(t)
        PROVE  PendingUndated'
    BY Zenon, <1>2 DEF AuthorizeExisting, Persist
  <1>3. ASSUME NEW p \in Peers, AcceptPeer(p) PROVE kept
    BY Zenon, <1>3 DEF AcceptPeer
  <1>4. ASSUME NEW p \in Peers, LockForRevoke(p) PROVE kept
    BY Zenon, <1>4 DEF LockForRevoke
  <1>5. ASSUME NEW p \in Peers, RevokePeer(p) PROVE PendingUndated'
    BY Zenon, <1>5 DEF RevokePeer
  <1>6. ASSUME NEW p \in Peers, RevokeRefused(p) PROVE kept
    BY Zenon, <1>6 DEF RevokeRefused
  <1>7. ASSUME NEW w \in Workers, NEW recovered \in SUBSET Peers, BeginPass(w, recovered)
        PROVE  PendingUndated'
    BY Zenon, <1>7 DEF BeginPass, Parked
  <1>8. ASSUME NEW w \in Workers, QueueEndpointPrerequisites(w)
        PROVE  PendingUndated'
    BY Zenon, <1>8 DEF QueueEndpointPrerequisites, Persist
  <1>9. ASSUME NEW w \in Workers, RecoverStaleInflight(w) PROVE PendingUndated'
    BY Zenon, <1>9 DEF RecoverStaleInflight, Stale
  <1>10. ASSUME NEW w \in Workers, ListDeliverable(w) PROVE kept
    BY Zenon, <1>10 DEF ListDeliverable
  <1>11. ASSUME NEW w \in Workers, SkipRow(w) PROVE kept
    BY Zenon, <1>11 DEF SkipRow
  <1>12. ASSUME NEW w \in Workers, ClaimOutboundEnvelope(w)
        PROVE  PendingUndated'
    BY Zenon, <1>12 DEF ClaimOutboundEnvelope
  <1>13. ASSUME NEW w \in Workers, AcquirePeerLock(w) PROVE kept
    BY Zenon, <1>13 DEF AcquirePeerLock
  <1>14. ASSUME NEW w \in Workers, Authorize(w) PROVE kept
    BY Zenon, <1>14 DEF Authorize
  <1>15. ASSUME NEW w \in Workers, MarkAuthorizationDenied(w)
        PROVE  PendingUndated'
    BY Zenon, <1>15 DEF MarkAuthorizationDenied, Settle
  <1>16. ASSUME NEW w \in Workers, MarkSending(w) PROVE PendingUndated'
    BY Zenon, <1>16 DEF MarkSending
  <1>17. ASSUME NEW w \in Workers, ClaimLost(w) PROVE kept
    BY Zenon, <1>17 DEF ClaimLost
  <1>18. ASSUME NEW w \in Workers, MarkSent(w) PROVE PendingUndated'
    BY Zenon, <1>18 DEF MarkSent, Settle
  <1>19. ASSUME NEW w \in Workers, MarkPeerRetryPending(w) PROVE PendingUndated'
    <2>1. PICK D \in SUBSET Envelopes, d \in {"null", "later"} :
            /\ state' = [e \in Envelopes |-> IF e \in D THEN "retry_pending" ELSE state[e]]
            /\ next' = [e \in Envelopes |-> IF e \in D THEN d ELSE next[e]]
      BY Zenon, <1>19 DEF MarkPeerRetryPending
    <2> QED
      BY Zenon, <2>1
  <1>20. ASSUME NEW w \in Workers, EndPass(w) PROVE kept
    BY Zenon, <1>20 DEF EndPass
  <1>21. ASSUME NEW w \in Workers, Crash(w) PROVE kept
    BY Zenon, <1>21 DEF Crash
  <1>22. ASSUME NEW w \in Workers, ForwardRoute(w) PROVE kept
    BY Zenon, <1>22 DEF ForwardRoute
  <1>23. ASSUME NEW e \in Envelopes, ForwardLate(e) PROVE kept
    BY Zenon, <1>23 DEF ForwardLate
  <1>24. ASSUME NEW p \in Peers, RetryDue(p) PROVE PendingUndated'
    BY Zenon, <1>24 DEF RetryDue
  <1>25. ASSUME NEW e \in Envelopes, LeaseExpires(e) PROVE kept
    BY Zenon, <1>25 DEF LeaseExpires
  <1>26. CASE UNCHANGED vars
    BY Zenon, <1>0, <1>26 DEF vars
  <1> HIDE <1>types DEF PendingUndated, rows, kept
  <1> QED
    BY ZenonT(30), <1>0, <1>1, <1>2, <1>3, <1>4, <1>5, <1>6, <1>7, <1>8, <1>9, <1>10, <1>11,
       <1>12, <1>13, <1>14, <1>15, <1>16, <1>17, <1>18, <1>19, <1>20, <1>21,
       <1>22, <1>23, <1>24, <1>25, <1>26,
       Zenon
    DEF Next, Node, Revocation, PassStep, RowStep, Environment

-----------------------------------------------------------------------------
(* What a pass leaves untried                                              *)

\* A listing that no step has touched is the same listing
LEMMA ListingSame ==
  ASSUME NEW w \in Workers, todo' = todo
  PROVE  Listing(w)' = Listing(w)
PROOF
  BY Zenon DEF Listing

\* Going on to the next row takes only the row reached out of the listing
LEMMA ListingTail ==
  ASSUME TypeOK, NEW w \in Workers, todo[w] # <<>>, Advance(w)
  PROVE  /\ Listing(w)' \subseteq Listing(w)
         /\ Listing(w) \subseteq Listing(w)' \cup {Head(todo[w])}
         /\ Head(todo[w]) \in Listing(w)
PROOF
  <1>1. todo[w] \in Seq(Envelopes) /\ todo'[w] = Tail(todo[w])
    BY Zenon DEF TypeOK, Advance
  <1>2. /\ Len(todo[w]) \in Nat \ {0}
        /\ Head(todo[w]) = todo[w][1]
        /\ Len(Tail(todo[w])) = Len(todo[w]) - 1
        /\ \A i \in 1..(Len(todo[w]) - 1) : Tail(todo[w])[i] = todo[w][i + 1]
    BY SMTT(30), <1>1
  <1>3. Listing(w)' = {Tail(todo[w])[i] : i \in 1..(Len(todo[w]) - 1)}
    BY Zenon, <1>1, <1>2 DEF Listing
  <1>4. ASSUME NEW e \in Listing(w)' PROVE e \in Listing(w)
    <2>1. PICK i \in 1..(Len(todo[w]) - 1) : e = todo[w][i + 1]
      BY Zenon, <1>2, <1>3, <1>4
    <2>2. i + 1 \in 1..Len(todo[w])
      BY SMTT(30), <1>2
    <2> QED
      BY Zenon, <2>1, <2>2 DEF Listing
  <1>5. ASSUME NEW e \in Listing(w) PROVE e \in Listing(w)' \/ e = Head(todo[w])
    <2>1. PICK i \in 1..Len(todo[w]) : e = todo[w][i]
      BY Zenon DEF Listing
    <2>2. CASE i = 1
      BY Zenon, <1>2, <2>1, <2>2
    <2>3. CASE i # 1
      <3>1. i - 1 \in 1..(Len(todo[w]) - 1) /\ (i - 1) + 1 = i
        BY SMTT(30), Zenon, <1>2, <2>3
      <3>2. Tail(todo[w])[i - 1] = e
        BY Zenon, <1>2, <2>1, <3>1
      <3> QED
        BY Zenon, <1>3, <3>1, <3>2
    <2> QED
      BY Zenon, <2>2, <2>3
  <1>6. 1 \in 1..Len(todo[w])
    BY SMTT(30), <1>2
  <1>7. Head(todo[w]) \in Listing(w)
    BY Zenon, <1>2, <1>6 DEF Listing
  <1> QED
    BY Zenon, <1>4, <1>5, <1>7

\* A listing without repetitions and as long as the deliverable rows are many
\* has all of them
LEMMA ListingComplete ==
  ASSUME FiniteTable, TypeOK, NEW q \in Listings
  PROVE  {q[i] : i \in 1..Len(q)} = Deliverable
PROOF
  <1> DEFINE n == Cardinality(Deliverable)
  <1>1. Deliverable \subseteq Envelopes
    BY Zenon DEF Deliverable
  <1>2. /\ q \in [1..n -> Deliverable]
        /\ \A i, j \in 1..n : i < j => q[i] # q[j]
    BY Zenon DEF Listings
  <1>3. n \in Nat /\ \A e \in Deliverable : \E i \in 1..n : q[i] = e
    BY Zenon, <1>1, <1>2 DEF FiniteTable, Counted
  <1> HIDE DEF n
  <1>4. Len(q) = n
    BY SMTT(30), <1>2, <1>3
  <1> QED
    BY <1>2, <1>3, <1>4

\* A row that holds its peer back goes on doing so
LEMMA HeldOutKept ==
  ASSUME NEW w \in Workers, NEW p \in Peers, HeldOut(w, p),
         Listing(w)' \subseteq Listing(w),
         failed[w] \subseteq failed'[w],
         \A b \in Envelopes :
           state[b] = "retry_pending" /\ b[2] = p /\ (b \notin Listing(w) \/ p \in failed[w]) =>
             state'[b] = "retry_pending"
  PROVE  HeldOut(w, p)'
  BY Zenon DEF HeldOut

\* What a step inside a pass has to respect: no other row is tried, no row
\* that holds its peer back is touched, and the row reached is claimed unless
\* its peer failed
LEMMA PassKept ==
  ASSUME IInv, NEW w \in Workers, PassOf(w), pc[w] \in Listed,
         Listing(w)' \subseteq Listing(w),
         failed'[w] = failed[w],
         \A b \in Envelopes :
           state[b] = "retry_pending" /\ (b \notin Listing(w) \/ b[2] \in failed[w]) =>
             state'[b] = "retry_pending",
         \A e \in Envelopes : state'[e] = "pending" => state[e] = "pending",
         \A e \in Listing(w) \ Listing(w)' : state'[e] = "pending" => e[2] \in failed[w],
         UNCHANGED <<registry, wakeRequested, announce>>,
         pc'[w] = "send" => state'[cur'[w]] = "sending",
         pc'[w] \in Listed
  PROVE  PassOf(w)'
PROOF
  <1>types. failed[w] \subseteq Peers
    BY Zenon DEF IInv, TypeOK
  <1>1. \A p \in Peers : HeldOut(w, p) => HeldOut(w, p)'
    BY ZenonT(30), HeldOutKept
  <1>2. \A p \in failed[w] : HeldOut(w, p) \/ registry[p] = "revoked"
    BY Zenon DEF PassOf
  <1>3. \A p \in failed'[w] : HeldOut(w, p)' \/ registry'[p] = "revoked"
    BY Zenon, <1>types, <1>1, <1>2
  <1>4. ASSUME ~ wakeRequested, ~ announce, NEW e \in Envelopes, state'[e] = "pending"
        PROVE  e \in Listing(w)' \/ HeldOut(w, e[2])'
    <2>1. state[e] = "pending" /\ e[2] \in Peers /\ e[1] \in Transactions /\ e = <<e[1], e[2]>>
      BY Zenon, <1>4, EnvelopeParts
    <2>2. e \in Listing(w) \/ HeldOut(w, e[2])
      BY Zenon, <1>4, <2>1 DEF PassOf
    <2>3. CASE e \in Listing(w) \ Listing(w)'
      <3>1. e[2] \in failed[w]
        BY Zenon, <1>4, <2>3
      <3>2. registry[e[2]] # "revoked"
        BY SMTT(30), Zenon, <2>1 DEF IInv, RevokedPeerClosed, Live
      <3> QED
        BY Zenon, <1>1, <1>2, <2>1, <3>1, <3>2
    <2> QED
      BY Zenon, <1>1, <2>1, <2>2, <2>3
  <1>5. pc'[w] \notin Fresh
    BY Zenon DEF Listed
  <1>6. ~ wakeRequested' /\ ~ announce' =>
          \A e \in Envelopes : state'[e] = "pending" => e \in Listing(w)' \/ HeldOut(w, e[2])'
    BY Zenon, <1>4
  <1> QED
    BY Zenon, <1>3, <1>5, <1>6 DEF PassOf

\* Every step of the worker keeps its promise about the rows it leaves
LEMMA PassRow ==
  ASSUME FiniteTable, IInv, PendingUndated, NEW w \in Workers, PassOf(w), RowStep(w),
         UNCHANGED <<wakeRequested, announce>>
  PROVE  PassOf(w)'
PROOF
  <1>types. /\ TypeOK
            /\ Holding
            /\ pc \in [Workers -> PC]
            /\ state \in [Envelopes -> RowState]
            /\ failed \in [Workers -> SUBSET Peers]
            /\ cur \in [Workers -> Envelopes \cup {NoRow}]
            /\ next \in [Envelopes -> {"null", "later", "due"}]
    BY Zenon DEF IInv, TypeOK
  <1>fresh. pc[w] \in Fresh => failed[w] = {}
    BY Zenon DEF PassOf
  <1> USE <1>types DEF Goto, rows
  <1>1. CASE QueueEndpointPrerequisites(w)
    BY Zenon, <1>1, <1>fresh DEF QueueEndpointPrerequisites, PassOf, Fresh, Listed
  <1>2. CASE RecoverStaleInflight(w)
    BY Zenon, <1>2, <1>fresh DEF RecoverStaleInflight, PassOf, Fresh, Listed
  <1>3. CASE ListDeliverable(w)
    <2>1. PICK q \in Listings : todo' = [todo EXCEPT ![w] = q]
      BY Zenon, <1>3 DEF ListDeliverable
    <2>2. /\ pc'[w] = "next"
          /\ failed'[w] = {}
          /\ UNCHANGED <<registry, state, next, failed>>
      BY Zenon, <1>3, <1>fresh DEF ListDeliverable, Fresh
    <2>3. todo'[w] = q
      BY Zenon, <2>1 DEF TypeOK
    <2>4. Listing(w)' = Deliverable
      BY Zenon, <2>3, ListingComplete DEF Listing
    <2>5. ASSUME NEW e \in Envelopes, state'[e] = "pending", e \notin Deliverable
          PROVE  HeldOut(w, e[2])'
      <3>1. Claimable(e)
        BY Zenon, <2>2, <2>5 DEF PendingUndated, Claimable, Queued
      <3>2. PICK b \in Envelopes : b[2] = e[2] /\ Blocks(b)
        BY Zenon, <2>5, <3>1 DEF Deliverable
      <3>3. b \notin Deliverable
        BY Zenon, <3>2 DEF Deliverable
      <3>4. state'[b] = "retry_pending"
        BY Zenon, <2>2, <3>2 DEF Blocks
      <3> QED
        BY Zenon, <2>4, <3>2, <3>3, <3>4 DEF HeldOut
    <2> QED
      BY Zenon, <2>2, <2>4, <2>5 DEF PassOf, Fresh
  <1>4. CASE SkipRow(w)
    <2>1. PICK e \in Envelopes : /\ AtRow(w, e)
                                 /\ e[2] \in failed[w] \/ ~ Claimable(e)
                                 /\ Advance(w)
      BY Zenon, <1>4 DEF SkipRow
    <2>2. UNCHANGED <<registry, state, pc, failed>> /\ pc[w] = "next"
      BY Zenon, <1>4, <2>1 DEF SkipRow, AtRow
    <2>3. /\ Listing(w)' \subseteq Listing(w)
          /\ Listing(w) \ Listing(w)' \subseteq {e}
      BY Zenon, <2>1, ListingTail DEF AtRow
    <2>4. state[e] = "pending" => e[2] \in failed[w]
      BY Zenon, <2>1 DEF Claimable, Queued, PendingUndated
    <2>5. pc[w] \in Listed
      BY Zenon, <2>2 DEF Listed, Fresh, PC
    <2> QED
      BY Zenon, <2>2, <2>3, <2>4, <2>5, PassKept
  <1>5. CASE ClaimOutboundEnvelope(w)
    <2>1. PICK e \in Envelopes : /\ AtRow(w, e)
                                 /\ e[2] \notin failed[w]
                                 /\ Advance(w)
                                 /\ state' = [state EXCEPT ![e] = "claimed"]
      BY Zenon, <1>5 DEF ClaimOutboundEnvelope
    <2>2. UNCHANGED <<registry, failed>> /\ pc[w] = "next" /\ pc'[w] = "lock"
      BY Zenon, <1>5, <2>1 DEF ClaimOutboundEnvelope, AtRow
    <2>3. /\ Listing(w)' \subseteq Listing(w)
          /\ Listing(w) \ Listing(w)' \subseteq {e}
          /\ e \in Listing(w)
      BY Zenon, <2>1, ListingTail DEF AtRow
    <2>4. pc[w] \in Listed /\ pc'[w] \in Listed
      BY Zenon, <2>2 DEF Listed, Fresh, PC
    <2> QED
      BY Zenon, <2>1, <2>2, <2>3, <2>4, PassKept
  <1> DEFINE stays == /\ pc[w] \in Listed
                      /\ pc'[w] \in Listed
                      /\ UNCHANGED <<registry, failed, todo>>
                      /\ \A b \in Envelopes :
                           state[b] = "retry_pending" => state'[b] = "retry_pending"
                      /\ \A e \in Envelopes : state'[e] = "pending" => state[e] = "pending"
                      /\ pc'[w] = "send" => state'[cur'[w]] = "sending"
  <1>s. stays => PassOf(w)'
    <2> SUFFICES ASSUME stays PROVE PassOf(w)'
      BY Zenon
    <2>0. todo' = todo
      BY Zenon
    <2>1. Listing(w)' = Listing(w)
      BY Zenon, <2>0, ListingSame
    <2> QED
      BY ZenonT(30), <2>1, PassKept
  <1>6. CASE AcquirePeerLock(w)
    BY Zenon, <1>6, <1>s DEF AcquirePeerLock, Listed, Fresh, PC
  <1>7. CASE Authorize(w)
    BY Zenon, <1>7, <1>s DEF Authorize, Listed, Fresh, PC
  <1>8. CASE MarkAuthorizationDenied(w)
    BY Zenon, <1>8, <1>s DEF MarkAuthorizationDenied, ReleasePeerLock, Settle, InFlight, Listed, Fresh, PC
  <1>9. CASE MarkSending(w)
    BY ZenonT(30), <1>9, <1>s DEF MarkSending, Holding, Listed, Fresh, PC
  <1>10. CASE ClaimLost(w)
    BY Zenon, <1>10, <1>s DEF ClaimLost, ReleasePeerLock, Listed, Fresh, PC
  <1>11. CASE MarkSent(w)
    BY ZenonT(30), <1>11, <1>s DEF MarkSent, ReleasePeerLock, Settle, Listed, Fresh, PC
  <1>12. CASE MarkPeerRetryPending(w)
    <2>1. /\ pc[w] = "send"
          /\ cur[w] \in Envelopes
          /\ cur[w][2] \in Peers
          /\ state[cur[w]] = "sending"
      BY Zenon, <1>12, InHand DEF MarkPeerRetryPending, PassOf
    <2>2. /\ pc'[w] = "next"
          /\ failed'[w] = failed[w] \cup {cur[w][2]}
          /\ UNCHANGED <<registry, todo>>
      BY Zenon, <1>12 DEF MarkPeerRetryPending, ReleasePeerLock
    <2>3. /\ state'[cur[w]] = "retry_pending"
          /\ \A b \in Envelopes : state[b] = "retry_pending" => state'[b] = "retry_pending"
          /\ \A e \in Envelopes :
               state'[e] = "pending" => state[e] = "pending" /\ e[2] # cur[w][2]
      BY Zenon, <1>12, <2>1 DEF MarkPeerRetryPending, Queued, InFlight
    <2>4. Listing(w)' = Listing(w)
      BY ZenonT(30), <2>2 DEF Listing
    <2>5. \A p \in Peers : HeldOut(w, p) => HeldOut(w, p)'
      BY Zenon, <2>2, <2>3, <2>4, HeldOutKept
    <2>6. ASSUME NEW p \in Peers, p = cur[w][2] PROVE HeldOut(w, p)'
      BY Zenon, <2>1, <2>2, <2>3, <2>6 DEF HeldOut
    <2>7. pc[w] \in Listed
      BY Zenon, <2>1 DEF Listed, Fresh, PC
    <2>8. ASSUME NEW p \in failed'[w] PROVE HeldOut(w, p)' \/ registry'[p] = "revoked"
      <3>1. CASE p = cur[w][2]
        BY Zenon, <2>1, <2>6, <3>1
      <3>2. CASE p \in failed[w]
        <4>1. p \in Peers
          BY Zenon, <3>2
        <4> QED
          BY Zenon, <2>2, <2>5, <2>7, <3>2, <4>1 DEF PassOf
      <3> QED
        BY Zenon, <2>2, <3>1, <3>2
    <2>9. ~ wakeRequested /\ ~ announce => \A e \in Envelopes :
            state'[e] = "pending" => e \in Listing(w)' \/ HeldOut(w, e[2])'
      BY Zenon, <2>3, <2>4, <2>5, <2>7, EnvelopeParts DEF PassOf
    <2> QED
      BY Zenon, <2>2, <2>8, <2>9 DEF PassOf, Fresh
  <1> QED
    BY Zenon, <1>1, <1>2, <1>3, <1>4, <1>5, <1>6, <1>7, <1>8, <1>9, <1>10, <1>11, <1>12 DEF RowStep

\* So does every step of the rest of the node
LEMMA PassWorkStep ==
  ASSUME FiniteTable, IInv, SchedulerTypeOK, PendingUndated, OneWorker, PassWork, [DaemonNext]_daemonVars
  PROVE  PassWork'
PROOF
  <1> SUFFICES ASSUME Quiet', NEW v \in Workers PROVE PassOf(v)'
    BY Zenon DEF PassWork
  <1>q. /\ Quiet
        /\ PassOf(v)
        /\ \A w \in Workers : PassOf(w)
        /\ \A w \in Workers : pc[w] # "idle" <=> process = w /\ report = "running"
    BY Zenon, QuietStep DEF PassWork, OneWorker
  <1>types. /\ TypeOK
            /\ Holding
            /\ registry \in [Peers -> {"admission_requested", "active", "revoked"}]
            /\ pc \in [Workers -> PC]
            /\ state \in [Envelopes -> RowState]
            /\ failed \in [Workers -> SUBSET Peers]
            /\ cur \in [Workers -> Envelopes \cup {NoRow}]
    BY Zenon DEF IInv, TypeOK
  <1>idle. pc[v] = "idle" /\ pc'[v] = "idle" /\ failed'[v] = failed[v] => PassOf(v)'
    BY Zenon, <1>q DEF PassOf, Fresh, Listed
  <1> DEFINE kept == UNCHANGED <<pc, failed, state, cur, todo, registry>>
             calm == UNCHANGED <<wakeRequested, announce>>
             waking == wakeRequested' \/ announce'
  <1>0. kept /\ (calm \/ waking) => PassOf(v)'
    <2> SUFFICES ASSUME kept, calm \/ waking PROVE PassOf(v)'
      BY Zenon
    <2>1. /\ Listing(v)' = Listing(v)
          /\ \A p : HeldOut(v, p)' = HeldOut(v, p)
      BY ZenonT(30) DEF Listing, HeldOut
    <2> QED
      BY Zenon, <1>q, <2>1 DEF PassOf
  <1> USE DEF pass, flags, counts, worker, rows
  <1>1. ASSUME Command PROVE PassOf(v)'
    <2>1. /\ UNCHANGED <<pc, failed, cur, todo>>
          /\ announce' = TRUE
          /\ \A p \in Peers : registry[p] = "revoked" => registry'[p] = "revoked"
          /\ \A e \in Envelopes : state[e] # "absent" => state'[e] = state[e]
      BY Zenon, <1>types, <1>1
      DEF Command, SubmitTransaction, AuthorizeExisting, AcceptPeer, Persist
    <2>2. Listing(v)' = Listing(v)
      BY Zenon, <2>1 DEF Listing
    <2>3. \A p \in Peers : HeldOut(v, p) => HeldOut(v, p)'
      BY Zenon, <2>1, <2>2, HeldOutKept
    <2>4. pc[v] = "send" => cur[v] \in Envelopes
      BY Zenon, <1>types DEF Holding
    <2> QED
      BY Zenon, <1>q, <1>types, <2>1, <2>3, <2>4 DEF PassOf
  <1>2. ASSUME Wake PROVE kept /\ waking
    BY Zenon, <1>2 DEF Wake, vars
  <1>3. ASSUME NEW p \in Peers, RouteInstalled(p) PROVE kept /\ waking
    BY Zenon, <1>3 DEF RouteInstalled, vars
  <1>4. ASSUME Poll PROVE PassOf(v)'
    BY Zenon, <1>4, <1>q, <1>idle DEF Poll, vars
  <1>5. ASSUME TimerDue PROVE kept /\ calm
    BY Zenon, <1>5 DEF TimerDue, vars
  <1>6. ASSUME NEW w \in Workers, StartPass(w) PROVE PassOf(v)'
    <2>1. pc[v] = "idle" /\ pc'[v] \in {"idle", "prerequisites"} /\ failed'[v] = failed[v]
      BY Zenon, <1>q, <1>types, <1>6 DEF StartPass, BeginPass, Goto
    <2> QED
      BY Zenon, <1>q, <2>1 DEF PassOf, Fresh, Listed
  <1>7. ASSUME NEW w \in Workers, FinishPass(w) PROVE PassOf(v)'
    <2>1. pc[w] # "idle" /\ pc' = [pc EXCEPT ![w] = "idle"] /\ failed' = [failed EXCEPT ![w] = {}]
      BY Zenon, <1>7 DEF FinishPass, EndPass, Goto
    <2>2. pc'[v] = "idle" /\ failed'[v] = {}
      BY Zenon, <1>q, <1>types, <2>1 DEF PassOf, Fresh
    <2> QED
      BY Zenon, <2>2 DEF PassOf, Listed, Fresh
  <1>8. ASSUME DaemonRestart PROVE PassOf(v)'
    BY Zenon, <1>8, <1>idle, QuietStep DEF DaemonRestart
  <1>9. ASSUME NEW p \in Peers, LockForRevoke(p) \/ RevokeRefused(p), UNCHANGED scheduler
        PROVE  kept /\ calm
    BY Zenon, <1>9 DEF LockForRevoke, RevokeRefused, scheduler
  <1>10. ASSUME NEW p \in Peers, RevokePeer(p), UNCHANGED scheduler PROVE PassOf(v)'
    <2>1. /\ UNCHANGED <<pc, failed, cur, todo, wakeRequested, announce>>
          /\ lock[p] = "operator"
          /\ registry' = [registry EXCEPT ![p] = "revoked"]
          /\ \A e \in Envelopes : e[2] # p => state'[e] = state[e]
          /\ \A e \in Envelopes : e[2] = p => state'[e] # "pending"
          /\ \A e \in Envelopes : state'[e] = "pending" => state[e] = "pending"
      BY Zenon, <1>types, <1>10 DEF RevokePeer, RevokedRows, Live, scheduler
    <2>2. Listing(v)' = Listing(v)
      BY Zenon, <2>1 DEF Listing
    <2>3. \A r \in Peers \ {p} : HeldOut(v, r) => HeldOut(v, r)'
      <3> SUFFICES ASSUME NEW r \in Peers, r # p, HeldOut(v, r) PROVE HeldOut(v, r)'
        BY Zenon
      <3>1. Listing(v)' \subseteq Listing(v) /\ failed[v] \subseteq failed'[v]
        BY Zenon, <2>1, <2>2
      <3>2. \A b \in Envelopes : b[2] = r => state'[b] = state[b]
        BY Zenon, <2>1
      <3> QED
        BY Zenon, <3>1, <3>2, HeldOutKept
    <2>4. pc[v] = "send" => cur[v] \in Envelopes /\ cur[v][2] # p
      <3> SUFFICES ASSUME pc[v] = "send" PROVE cur[v] \in Envelopes /\ cur[v][2] # p
        BY Zenon
      <3>1. cur[v] \in Envelopes /\ lock[cur[v][2]] = v
        BY Zenon, <1>types DEF Holding
      <3>2. v # "operator"
        BY Zenon, QueueAssumption
      <3> QED
        BY Zenon, <2>1, <3>1, <3>2
    <2>5. pc'[v] \in Listed =>
            \A r \in failed'[v] : HeldOut(v, r)' \/ registry'[r] = "revoked"
      BY Zenon, <1>q, <1>types, <2>1, <2>3 DEF PassOf
    <2>6. pc'[v] \in Listed /\ ~ wakeRequested' /\ ~ announce' =>
            \A e \in Envelopes : state'[e] = "pending" => e \in Listing(v)' \/ HeldOut(v, e[2])'
      BY ZenonT(30), <1>q, <2>1, <2>2, <2>3, EnvelopeParts DEF PassOf
    <2> QED
      BY Zenon, <1>q, <2>1, <2>4, <2>5, <2>6 DEF PassOf
  <1>11. ASSUME NEW w \in Workers, RowStep(w), UNCHANGED scheduler PROVE PassOf(v)'
    <2>1. CASE v = w
      BY Zenon, <1>q, <1>11, <2>1, PassRow DEF scheduler
    <2>2. CASE v # w
      BY Zenon, <1>q, <1>types, <1>11, <1>idle, <2>2, RowStepMoves
    <2> QED
      BY Zenon, <2>1, <2>2
  <1>12. ASSUME Environment, UNCHANGED scheduler PROVE kept /\ calm
    BY Zenon, <1>12 DEF Environment, ForwardRoute, ForwardLate, RetryDue, LeaseExpires, scheduler
  <1>13. ASSUME UNCHANGED daemonVars PROVE kept /\ calm
    BY Zenon, <1>13 DEF daemonVars, vars, scheduler
  <1> HIDE DEF pass, flags, counts, worker, rows, kept, calm, waking
  <1> QED
    BY Zenon, <1>0, <1>1, <1>2, <1>3, <1>4, <1>5, <1>6, <1>7, <1>8, <1>9, <1>10, <1>11, <1>12, <1>13,
       QuietStep DEF DaemonNext, Unscheduled, Revocation

-----------------------------------------------------------------------------
(* The scheduler at rest                                                   *)

\* A worker that has reached the end of its listing and finds no deadline to
\* report leaves only rows of parked peers
LEMMA NothingLeft ==
  ASSUME IInv, NEW w \in Workers, PassOf(w), ~ wakeRequested, ~ announce,
         pc[w] = "next", todo[w] = <<>>, ~ NextOutboundAttempt
  PROVE  AllParked
PROOF
  <1>1. \A e \in Envelopes :
          state[e] \in InFlight \/ (state[e] = "retry_pending" /\ next[e] # "null") =>
            ParkedPeer(e[2])
    BY Zenon DEF NextOutboundAttempt, ParkedPeer
  <1>2. \A e \in Envelopes : state[e] = "retry_pending" /\ next[e] = "null" => ParkedPeer(e[2])
    <2> SUFFICES ASSUME NEW e \in Envelopes, state[e] = "retry_pending", next[e] = "null"
                 PROVE  ParkedPeer(e[2])
      BY Zenon
    <2>1. e[1] \in Transactions /\ e = <<e[1], e[2]>>
      BY Zenon, EnvelopeParts
    <2> QED
      BY Zenon, <2>1 DEF ParkedPeer, Parked
  <1>3. \A e \in Envelopes : state[e] = "retry_pending" => ParkedPeer(e[2])
    BY Zenon, <1>1, <1>2
  <1>4. Listing(w) = {}
    BY DEF Listing
  <1>5. pc[w] \in Listed
    BY Zenon DEF Listed, Fresh, PC
  <1>6. \A e \in Envelopes : state[e] = "pending" => ParkedPeer(e[2])
    <2> SUFFICES ASSUME NEW e \in Envelopes, state[e] = "pending" PROVE ParkedPeer(e[2])
      BY Zenon
    <2>1. HeldOut(w, e[2])
      BY Zenon, <1>4, <1>5 DEF PassOf
    <2>2. PICK b \in Envelopes : b[2] = e[2] /\ state[b] = "retry_pending"
      BY Zenon, <2>1 DEF HeldOut
    <2> QED
      BY Zenon, <1>3, <2>2
  <1> QED
    BY Zenon, <1>1, <1>3, <1>6 DEF AllParked, Live, InFlight

\* While no worker runs, a peer stays parked and no row is added unannounced
LEMMA RestedStep ==
  ASSUME IInv, SchedulerTypeOK, OneWorker, PassWork, Rested, [DaemonNext]_daemonVars
  PROVE  Rested'
PROOF
  <1> SUFFICES ASSUME Quiet', Asleep', ~ wakeRequested', ~ announce' PROVE AllParked'
    BY Zenon DEF Rested
  <1>q. /\ Quiet
        /\ \A w \in Workers : PassOf(w)
        /\ \A w \in Workers : pc[w] # "idle" <=> process = w /\ report = "running"
        /\ process = "none" <=> report = "none"
        /\ report # "failed"
    BY Zenon, QuietStep DEF PassWork, OneWorker
  <1>types. /\ TypeOK
            /\ state \in [Envelopes -> RowState]
            /\ process \in Workers \cup {"none"}
            /\ "none" \notin Workers
            /\ report \in {"none", "spawned", "running", "deadline", "nothing", "failed"}
    BY Zenon, SchedulerAssumption DEF SchedulerTypeOK, TypeOK
  <1> DEFINE rested == Asleep /\ ~ wakeRequested /\ ~ announce
             kept == UNCHANGED <<state, next>>
  <1>0. rested => AllParked
    BY Zenon, <1>q DEF Rested
  <1>k. rested /\ kept => AllParked'
    BY Zenon, <1>0 DEF AllParked, ParkedPeer, Parked
  <1> USE DEF pass, flags, counts, rows
  <1>1. ~ Command
    BY Zenon DEF Command
  <1>2. ~ Wake
    BY Zenon DEF Wake
  <1>3. ASSUME NEW p \in Peers PROVE ~ RouteInstalled(p)
    BY Zenon DEF RouteInstalled
  <1>4. ASSUME Poll PROVE rested /\ kept
    <2>1. ~ (wakeRequested \/ CollectedRun = "due")
      BY Zenon, <1>4, <1>types DEF Poll, Asleep
    <2>2. CollectedRun = "inf" /\ ~ wakeRequested /\ ~ announce
      BY Zenon, <1>4, <2>1 DEF Poll, Asleep
    <2>3. Asleep
      BY Zenon, <1>4, <1>q, <1>types, <2>2 DEF Poll, CollectedRun, Asleep
    <2> QED
      BY Zenon, <1>4, <2>2, <2>3 DEF Poll, vars
  <1>5. ~ TimerDue
    <2> SUFFICES ASSUME TimerDue PROVE FALSE
      BY Zenon
    <2>1. nextRun' = "due" /\ report' = report /\ nextRun = "waiting"
      BY Zenon DEF TimerDue
    <2>2. report = "nothing"
      BY Zenon, <2>1 DEF Asleep
    <2> QED
      BY Zenon, <1>q, <2>1, <2>2 DEF OneWorker
  <1>6. ASSUME NEW w \in Workers PROVE ~ StartPass(w)
    BY Zenon, <1>types DEF StartPass, Asleep
  <1>7. ASSUME NEW w \in Workers, FinishPass(w) PROVE AllParked'
    <2>1. /\ pc[w] = "next"
          /\ todo[w] = <<>>
          /\ UNCHANGED <<state, next>>
          /\ ~ wakeRequested
          /\ ~ announce
          /\ report' = IF process # w THEN report
                       ELSE IF NextOutboundAttempt THEN "deadline" ELSE "nothing"
          /\ process' = process
      BY Zenon, <1>7 DEF FinishPass, EndPass
    <2>2. process = w
      BY Zenon, <1>q, <2>1
    <2>3. ~ NextOutboundAttempt
      BY Zenon, <1>types, <2>1, <2>2 DEF Asleep
    <2>4. AllParked
      BY Zenon, <1>q, <2>1, <2>3, NothingLeft
    <2> QED
      BY Zenon, <2>1, <2>4 DEF AllParked, ParkedPeer, Parked
  <1>8. ~ DaemonRestart
    BY Zenon DEF DaemonRestart, Asleep
  <1>9. ASSUME UNCHANGED scheduler PROVE rested
    BY Zenon, <1>9 DEF scheduler, Asleep
  <1>10. ASSUME NEW p \in Peers, LockForRevoke(p) \/ RevokeRefused(p), UNCHANGED scheduler
         PROVE  kept
    BY Zenon, <1>10 DEF LockForRevoke, RevokeRefused
  <1>11. ASSUME NEW p \in Peers, RevokePeer(p), UNCHANGED scheduler PROVE AllParked'
    <2>1. \A e \in Envelopes : e[2] # p => state'[e] = state[e] /\ next'[e] = next[e]
      BY Zenon, <1>11 DEF RevokePeer, RevokedRows
    <2>2. \A e \in Envelopes : e[2] = p => state'[e] \notin Live
      BY Zenon, <1>11 DEF RevokePeer, RevokedRows, Live
    <2>3. ASSUME NEW e \in Envelopes, state'[e] \in Live PROVE ParkedPeer(e[2])'
      <3>1. e[2] # p /\ state[e] \in Live /\ e[2] \in Peers
        BY Zenon, <2>1, <2>2, <2>3, EnvelopeParts
      <3>2. PICK t \in Transactions : Parked(<<t, e[2]>>)
        BY Zenon, <1>0, <1>9, <1>11, <3>1 DEF AllParked, ParkedPeer
      <3>3. <<t, e[2]>> \in Envelopes /\ <<t, e[2]>>[2] # p
        BY Zenon, <3>1 DEF Envelopes
      <3>4. state'[<<t, e[2]>>] = state[<<t, e[2]>>] /\ next'[<<t, e[2]>>] = next[<<t, e[2]>>]
        BY Zenon, <2>1, <3>3
      <3> QED
        BY Zenon, <3>2, <3>4 DEF ParkedPeer, Parked
    <2> QED
      BY Zenon, <2>3 DEF AllParked
  <1>12. ASSUME NEW w \in Workers, RowStep(w), UNCHANGED scheduler PROVE FALSE
    <2>1. process = w /\ report = "running"
      BY Zenon, <1>q, <1>types, <1>12, RowStepMoves
    <2> QED
      BY Zenon, <1>9, <1>12, <1>types, <2>1 DEF Asleep
  <1>13. ASSUME Environment, UNCHANGED scheduler PROVE AllParked'
    <2>1. UNCHANGED state /\ \A e \in Envelopes : next[e] = "null" => next'[e] = "null"
      BY ZenonT(30), <1>13, <1>types DEF Environment, ForwardRoute, ForwardLate, RetryDue, LeaseExpires, TypeOK
    <2>2. AllParked
      BY Zenon, <1>0, <1>9, <1>13
    <2>3. ASSUME NEW e \in Envelopes, ParkedPeer(e[2]) PROVE ParkedPeer(e[2])'
      <3>1. PICK t \in Transactions : Parked(<<t, e[2]>>)
        BY Zenon, <2>3 DEF ParkedPeer
      <3>2. <<t, e[2]>> \in Envelopes
        BY Zenon, EnvelopeParts DEF Envelopes
      <3> QED
        BY Zenon, <2>1, <3>1, <3>2 DEF ParkedPeer, Parked
    <2> QED
      BY Zenon, <2>1, <2>2, <2>3 DEF AllParked
  <1>14. ASSUME UNCHANGED daemonVars PROVE kept /\ UNCHANGED scheduler
    BY Zenon, <1>14 DEF daemonVars, vars
  <1> HIDE DEF pass, flags, counts, rows, kept, rested
  <1> QED
    BY Zenon, <1>k, <1>1, <1>2, <1>3, <1>4, <1>5, <1>6, <1>7, <1>8, <1>9, <1>10, <1>11, <1>12, <1>13,
       <1>14, QuietStep, Zenon DEF DaemonNext, Unscheduled, Revocation

-----------------------------------------------------------------------------
(* The inductive invariant                                                 *)

\* DInv holds when the daemon starts with an empty queue
LEMMA InitDInv == DaemonInit => DInv
PROOF
  <1> SUFFICES ASSUME DaemonInit PROVE DInv
    BY Zenon
  <1>1. IInv /\ TypeOK
    BY Zenon, InitIInv DEF DaemonInit, IInv
  <1>2. SchedulerTypeOK
    <2>1. returns \in 0..MaxResumes /\ lost \in 0..MaxLostWakes /\ restarts \in 0..MaxRestarts
      BY SMTT(30), Zenon, QueueAssumption, SchedulerAssumption DEF DaemonInit
    <2> QED
      BY Zenon, <1>1, <2>1 DEF DaemonInit, SchedulerTypeOK
  <1>3. PendingUndated
    BY Zenon DEF DaemonInit, Init, PendingUndated
  <1>4. OneWorker
    BY Zenon, SchedulerAssumption DEF DaemonInit, Init, OneWorker
  <1>5. PassWork
    BY Zenon DEF DaemonInit, Init, PassWork, PassOf, Fresh, Listed, PC
  <1>6. Rested
    BY Zenon DEF DaemonInit, Rested, Asleep
  <1> QED
    BY Zenon, <1>1, <1>2, <1>3, <1>4, <1>5, <1>6 DEF DInv

\* DInv is preserved by every step of the node
LEMMA NextDInv ==
  ASSUME FiniteTable, DInv, [DaemonNext]_daemonVars
  PROVE  DInv'
PROOF
  <1>1. IInv' /\ SchedulerTypeOK'
    BY Zenon, DaemonIInv, SchedulerTypeStep DEF DInv
  <1>2. PendingUndated'
    <2>1. CASE [Next]_vars
      BY Zenon, <2>1, UndatedStep DEF DInv, IInv
    <2>2. CASE FailStart \/ DaemonRestart
      BY Zenon, <2>2 DEF DInv, PendingUndated, FailStart, DaemonRestart, rows
    <2> QED
      BY Zenon, <2>1, <2>2, DaemonSteps DEF DInv
  <1>3. OneWorker' /\ PassWork' /\ Rested'
    BY Zenon, OneWorkerStep, PassWorkStep, RestedStep DEF DInv
  <1> QED
    BY Zenon, <1>1, <1>2, <1>3 DEF DInv

-----------------------------------------------------------------------------
(* The table is finite.  The library comes with its own copy of the        *)
(* standard module FiniteSets, which says the same by its definitions.     *)

ListedBySeq(S) == \E seq \in Seq(S) : \A s \in S : \E n \in 1..Len(seq) : seq[n] = s

SizeOf(S) ==
  LET CS[T \in SUBSET S] == IF T = {} THEN 0 ELSE 1 + CS[T \ {CHOOSE x : x \in T}]
  IN  CS[S]

LEMMA StandardFiniteSets ==
  \A S : (IsFiniteSet(S) <=> ListedBySeq(S)) /\ Cardinality(S) = SizeOf(S)
  BY Zenon DEF IsFiniteSet, Cardinality, ListedBySeq, SizeOf

LOCAL INSTANCE FiniteSetTheorems

LEMMA LibraryFiniteSets ==
  \A S : (IsFiniteSet(S) <=> ListedBySeq(S)) /\ Cardinality(S) = SizeOf(S)
  BY Zenon DEF IsFiniteSet, Cardinality, ListedBySeq, SizeOf

LEMMA TableIsFinite == FiniteTable
PROOF
  <1>1. IsFiniteSet(Transactions)
    <2>1. 1 \in Int /\ LastTransaction \in Int
      BY QueueAssumption
    <2> QED
      BY Zenon, <2>1, FS_Interval DEF Transactions
  <1>2. IsFiniteSet(Envelopes)
    <2>1. IsFiniteSet(Peers)
      BY Zenon, QueueAssumption, StandardFiniteSets, LibraryFiniteSets
    <2> QED
      BY Zenon, <1>1, <2>1, FS_Product DEF Envelopes
  <1> SUFFICES ASSUME NEW S \in SUBSET Envelopes PROVE Counted(S)
    BY Zenon DEF FiniteTable
  <1> DEFINE n == Cardinality(S)
  <1>3. IsFiniteSet(S) /\ n \in Nat
    BY Zenon, <1>2, FS_Subset, FS_CardinalityType
  <1>4. ASSUME NEW q \in [1..n -> S], \A i, j \in 1..n : i < j => q[i] # q[j]
        PROVE  \A e \in S : \E i \in 1..n : q[i] = e
    <2> HIDE DEF n
    <2>1. \A i, j \in 1..n : q[i] = q[j] => i = j
      BY SMTT(30), <1>3, <1>4
    <2>2. q \in Injection(1..n, S)
      BY Zenon, <2>1 DEF Injection, IsInjective
    <2>3. IsFiniteSet(1..n) /\ Cardinality(1..n) = n
      BY SMTT(30), <1>3, FS_Interval
    <2>4. q \in Surjection(1..n, S)
      BY Zenon, <1>3, <2>2, <2>3, FS_Injection DEF n
    <2> QED
      BY Zenon, <2>4 DEF Surjection
  <1>5. \A q \in [1..n -> S] : (\A i, j \in 1..n : i < j => q[i] # q[j]) =>
                                 \A e \in S : \E i \in 1..n : q[i] = e
    <2> HIDE DEF n
    <2> QED
      BY Zenon, <1>4
  <1> QED
    <2>1. SizeOf(S) = n
      BY Zenon, LibraryFiniteSets
    <2> HIDE DEF n
    <2> QED
      BY SMTT(30), <1>3, <1>5, <2>1, StandardFiniteSets DEF Counted

-----------------------------------------------------------------------------
(* The theorems about the queue                                            *)

\* The inductive invariant holds in every reachable state of the queue.
THEOREM Invariance == Spec => []IInv
  <1>1. IInv /\ [Next]_vars => IInv'
    BY Zenon, NextIInv, TableIsFinite
  <1> QED
    BY <1>1, InitIInv, PTL DEF Spec

\* The rows, the workers and the locks always have the types of their columns
\* and variables.
THEOREM TypeCorrect == Spec => []TypeOK
  <1>1. IInv => TypeOK
    BY Zenon DEF IInv
  <1> QED
    BY <1>1, Invariance, PTL

\* However workers, revocations, crashes and expired claims interleave, a
\* revoked peer has no live row, and no worker has passed the authorization of
\* one (process_pending_outbound_envelopes against revoke_peer_admission).
THEOREM RevocationCloses == Spec => []RevokedPeerClosed
  <1>1. IInv => RevokedPeerClosed
    BY Zenon DEF IInv
  <1> QED
    BY <1>1, Invariance, PTL

\* Authorization, handoff and receipt happen under the lock of the peer: two
\* workers are never inside that boundary for the same peer, nor a worker and
\* the revocation.
THEOREM BoundaryHeld == Spec => []PeerBoundary
  <1>1. IInv => PeerBoundary
    BY Zenon DEF IInv, Holding, PeerBoundary, AtPeer
  <1> QED
    BY <1>1, Invariance, PTL

\* A row is marked sent only after its peer accepted it, whoever claimed it.
THEOREM SentAccepted == Spec => []SentWasAccepted
  <1>1. IInv => SentWasAccepted
    BY Zenon DEF IInv
  <1> QED
    BY <1>1, Invariance, PTL

\* No step moves a row out of sent or authorization_denied.
THEOREM Settled == Spec => SettledForever
  <1>1. IInv /\ [Next]_vars =>
          [\A e \in Envelopes : state[e] \in {"sent", "authorization_denied"} =>
             state'[e] = state[e]]_vars
    BY Zenon, RowChangeStep DEF IInv, RowMayChange
  <1> QED
    BY <1>1, Invariance, PTL DEF Spec, SettledForever

\* The envelopes table implements the abstract durable queue: for any number of
\* peers, workers, transactions, crashes and resumes, every step is a step of
\* DurableQueue or is invisible to it.
THEOREM QueueImplemented == Spec => ImplementsQueue
  <1>1. Init => Queue!QueueInit
    BY StageValue DEF Init, Queue!QueueInit, Queue!Rows, Envelopes, Revoked
  <1>2. IInv /\ [Next]_vars => [Queue!QueueNext]_(Queue!queueVars)
    BY Zenon, QueueStep DEF QueueMoves, QueueStutter
  <1> QED
    BY <1>1, <1>2, Invariance, PTL DEF Spec, ImplementsQueue, Queue!QueueSpec

-----------------------------------------------------------------------------
(* The theorems about the queue under its scheduler                        *)

\* The inductive invariant holds in every reachable state of the node.
THEOREM DaemonInvariance == DaemonSpec => []DInv
  <1>1. DInv /\ [DaemonNext]_daemonVars => DInv'
    BY ZenonT(30), NextDInv, TableIsFinite
  <1> QED
    BY <1>1, InitDInv, PTL DEF DaemonSpec

\* The scheduler's process, flags and counters have the types of their
\* variables, the queue's included.
THEOREM SchedulerTypeCorrect == DaemonSpec => []SchedulerTypeOK
  <1>1. DInv => SchedulerTypeOK
    BY Zenon DEF DInv
  <1> QED
    BY <1>1, DaemonInvariance, PTL

\* A scheduler without a worker, a wake and a timer has left no row behind but
\* those of parked peers, for any number of peers and transactions and however
\* commands, wakes, passes, revocations and restarts interleave.
THEOREM NoRowForgotten == DaemonSpec => []SleepsOnlyWhenDone
  <1>1. DInv => SleepsOnlyWhenDone
    BY Zenon DEF DInv, Rested, Quiet, Asleep, AllParked, SleepsOnlyWhenDone
  <1> QED
    BY <1>1, DaemonInvariance, PTL

\* The queue under the scheduler keeps the promise of the queue by itself:
\* killed processes and daemon restarts included, it implements DurableQueue.
THEOREM DaemonImplementsQueue == DaemonSpec => ImplementsQueue
  <1>1. DaemonInit => Queue!QueueInit
    BY StageValue DEF DaemonInit, Init, Queue!QueueInit, Queue!Rows, Envelopes, Revoked
  <1>2. DInv /\ [DaemonNext]_daemonVars => [Queue!QueueNext]_(Queue!queueVars)
    BY Zenon, DaemonQueueStep DEF DInv, QueueMoves, QueueStutter
  <1> QED
    BY <1>1, <1>2, DaemonInvariance, PTL DEF DaemonSpec, ImplementsQueue, Queue!QueueSpec

=============================================================================
