---------------------------- MODULE DurableQueue ----------------------------
(***************************************************************************)
(* What the outbound queue of a node promises, without workers, claims,    *)
(* leases, retries or locks.  A row is a transaction for a peer.  Once     *)
(* queued it stays until the peer has accepted it and it is marked sent,   *)
(* or until it is denied; both are final.  Closing a peer denies all that  *)
(* is queued for it and nothing is queued for it afterwards.  A peer may   *)
(* accept a row several times, and may do so after the row was denied.     *)
(***************************************************************************)
CONSTANTS Transactions, Peers

VARIABLES
  stage,     \* [row -> "absent", "queued", "sent" or "denied"]
  accepted,  \* rows the peer has accepted
  closed     \* peers that were closed

queueVars == <<stage, accepted, closed>>

Rows == Transactions \X Peers

Becomes(R, s) == stage' = [r \in Rows |-> IF r \in R THEN s ELSE stage[r]]

Waiting(p) == {r \in Rows : r[2] = p /\ stage[r] = "queued"}

QueueInit ==
  /\ stage = [r \in Rows |-> "absent"]
  /\ accepted = {}
  /\ closed = {}

Enqueue(R) ==
  /\ \A r \in R : stage[r] = "absent" /\ r[2] \notin closed
  /\ Becomes(R, "queued")
  /\ UNCHANGED <<accepted, closed>>

Accept(r) ==
  /\ stage[r] # "absent"
  /\ accepted' = accepted \cup {r}
  /\ UNCHANGED <<stage, closed>>

Send(r) ==
  /\ stage[r] = "queued"
  /\ r \in accepted
  /\ Becomes({r}, "sent")
  /\ UNCHANGED <<accepted, closed>>

Deny(r) ==
  /\ stage[r] = "queued"
  /\ Becomes({r}, "denied")
  /\ UNCHANGED <<accepted, closed>>

Close(p) ==
  /\ closed' = closed \cup {p}
  /\ Becomes(Waiting(p), "denied")
  /\ UNCHANGED accepted

QueueNext ==
  \/ \E R \in SUBSET Rows : Enqueue(R)
  \/ \E r \in Rows : Accept(r) \/ Send(r) \/ Deny(r)
  \/ \E p \in Peers : Close(p)

QueueSpec == QueueInit /\ [][QueueNext]_queueVars

=============================================================================
