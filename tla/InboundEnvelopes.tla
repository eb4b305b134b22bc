-------------------------- MODULE InboundEnvelopes --------------------------
(***************************************************************************)
(* The receiving side of one node: envelopes arrive from peers, the daemon *)
(* hands each one to a runtime process, and the runtime verifies, decodes, *)
(* localizes and commits the transaction it carries.  Local commands write *)
(* to the same transaction log.                                            *)
(*                                                                         *)
(* Each database connection of the runtime is one step, so that another    *)
(* runtime, a command or a revocation may act between two of them.  The    *)
(* two vocabulary upserts that precede a secret.set are one row.           *)
(***************************************************************************)
EXTENDS Naturals, Sequences

CONSTANTS
    Self,           \* the local node
    Peers,          \* the other nodes
    Runtimes,       \* inbound runtime processes that may overlap
    Secrets,        \* secret ids; each belongs to one service group
    Transactions,   \* transaction ids
    Origin,         \* the node that wrote a transaction
    Kind,           \* its transaction_type
    SecretOf,       \* the secret a set or delete is about
    Word,           \* the entry type and kind a transaction names
    Vocabulary,     \* the upsert that a local secret.set is written with
    Grant,          \* the secrets a peer is authorized for
    StorageMode,    \* storage mode of each node's datastore
    MaxKills,       \* bound on runtimes that are killed
    None

ASSUME InboundAssumption ==
    /\ Self \notin Peers
    /\ None \notin Transactions
    /\ MaxKills \in Nat
    /\ "plain" \notin Runtimes /\ "own" \notin Runtimes
    /\ Origin \in [Transactions -> Peers \cup {Self}]
    /\ Kind \in [Transactions -> {"secret.set", "secret.delete", "vocabulary"}]
    /\ SecretOf \in [Transactions -> Secrets]
    /\ Grant \in [Peers -> SUBSET Secrets]
    /\ StorageMode \in [Peers \cup {Self} -> {"encrypted", "plaintext"}]
    /\ Vocabulary \in [Transactions -> Transactions]
    /\ \A t \in {u \in Transactions : Origin[u] = Self /\ Kind[u] = "secret.set"} :
          /\ Origin[Vocabulary[t]] = Self
          /\ Kind[Vocabulary[t]] = "vocabulary"
          /\ Word[Vocabulary[t]] = Word[t]
          /\ \A u \in Transactions : Vocabulary[u] = Vocabulary[t] => u \in {t, Vocabulary[t]}

VARIABLES
    nodes,      \* nodes.state of each peer
    log,        \* the transactions table in rowid order
    secrets,    \* the secrets projection
    outbound,   \* envelopes queued: pairs of transaction and peer
    pc,         \* where each runtime is
    env,        \* the transaction of the envelope it was given
    copy,       \* the localized payload it is about to commit
    kills,      \* runtimes killed so far
    delivered   \* history: transactions a peer was told were delivered

vars == <<nodes, log, secrets, outbound, pc, env, copy, kills, delivered>>

Remote == {t \in Transactions : Origin[t] # Self}

LocalSets == {t \in Transactions : Origin[t] = Self /\ Kind[t] = "secret.set"}

IsSecret(t) == Kind[t] \in {"secret.set", "secret.delete"}

(***************************************************************************)
(* A stored payload is plaintext, a ciphertext made by a local command, or *)
(* a ciphertext made by one runtime: every encryption has a fresh nonce,   *)
(* and a runtime encrypts a transaction only while none is retained, so    *)
(* that the runtime's name tells the ciphertexts of a transaction apart.   *)
(***************************************************************************)
Payloads == {"plain", "own"} \cup Runtimes

Rows == [tx : Transactions, payload : Payloads]

Absent == [state |-> "absent", tx |-> None, created |-> None]

Projections ==
    [state : {"absent", "active", "deleted"},
     tx : Transactions \cup {None}, created : Transactions \cup {None}]

Retained(t) == \E i \in DOMAIN log : log[i].tx = t

RetainedPayload(t) == log[CHOOSE i \in DOMAIN log : log[i].tx = t].payload

\* The rows about one secret.
History(s) ==
    {i \in DOMAIN log : IsSecret(log[i].tx) /\ SecretOf[log[i].tx] = s}

\* The peer is admitted and the transaction is within its grant.
Permitted(p, t) ==
    /\ nodes[p] = "active"
    /\ Kind[t] = "vocabulary" \/ SecretOf[t] \in Grant[p]

\* A node with encrypted storage sends the fields rewrapped.
Rewrapped(t) == IsSecret(t) /\ StorageMode[Origin[t]] = "encrypted"

\* The payload's form is the one the local storage mode reads.
Storable(t, payload) ==
    IsSecret(t) => (payload = "plain") = (StorageMode[Self] = "plaintext")

\* The projection after one transaction: the last one applied wins, and the
\* creation time stays that of the first.
Projected(view, t) ==
    IF ~IsSecret(t) THEN view
    ELSE [view EXCEPT ![SecretOf[t]] =
            [state   |-> IF Kind[t] = "secret.set" THEN "active" ELSE "deleted",
             tx      |-> t,
             created |-> IF view[SecretOf[t]].state = "absent"
                         THEN t ELSE view[SecretOf[t]].created]]

\* The envelopes that a submission queues: only for transactions of this node.
Queued(t) ==
    {e \in {t} \X Peers : Origin[t] = Self /\ Permitted(e[2], t)}

Init ==
    /\ nodes \in [Peers -> {"admission_requested", "active"}]
    /\ log = <<>>
    /\ secrets = [s \in Secrets |-> Absent]
    /\ outbound = {}
    /\ pc = [r \in Runtimes |-> "idle"]
    /\ env = [r \in Runtimes |-> None]
    /\ copy = [r \in Runtimes |-> None]
    /\ kills = 0
    /\ delivered = {}
-----------------------------------------------------------------------------
(***************************************************************************)
(* The runtime.                                                            *)
(***************************************************************************)

\* A peer's envelope arrives, for the first time or again, and the daemon
\* starts a runtime for it.
Deliver(r, t) ==
    /\ pc[r] = "idle"
    /\ pc' = [pc EXCEPT ![r] = "verify"]
    /\ env' = [env EXCEPT ![r] = t]
    /\ UNCHANGED <<nodes, log, secrets, outbound, copy, kills, delivered>>

\* _verify_inbound_envelope_signature: the source is admitted.
Verify(r) ==
    /\ pc[r] = "verify"
    /\ pc' = [pc EXCEPT ![r] =
                IF nodes[Origin[env[r]]] = "active" THEN "localize" ELSE "rejected"]
    /\ UNCHANGED <<nodes, log, secrets, outbound, env, copy, kills, delivered>>

\* What localize_inbound_storage_payload returns, None when it raises.  The
\* retained payload is compared by decrypting it, whatever the storage mode is.
Localized(r, t) ==
    CASE ~Rewrapped(t) -> "plain"
      [] Rewrapped(t) /\ Retained(t) ->
            IF RetainedPayload(t) = "plain" THEN None ELSE RetainedPayload(t)
      [] Rewrapped(t) /\ ~Retained(t) ->
            IF StorageMode[Self] = "encrypted" THEN r ELSE "plain"

Localize(r) ==
    /\ pc[r] = "localize"
    /\ LET payload == Localized(r, env[r]) IN
          /\ pc' = [pc EXCEPT ![r] = IF payload = None THEN "rejected" ELSE "apply"]
          /\ copy' = [copy EXCEPT ![r] = payload]
    /\ UNCHANGED <<nodes, log, secrets, outbound, env, kills, delivered>>

\* A submission of a transaction the log does not have: insert, project, queue.
Commit(t, payload) ==
    /\ log' = Append(log, [tx |-> t, payload |-> payload])
    /\ secrets' = Projected(secrets, t)
    /\ outbound' = outbound \cup Queued(t)

\* Mutant: a duplicate is projected again.
SubmitReprojects(t, payload) ==
    IF Retained(t) THEN secrets' = Projected(secrets, t) /\ UNCHANGED <<log, outbound>>
    ELSE Commit(t, payload)

\* Mutant: a duplicate is inserted again.
SubmitAgain(t, payload) == Commit(t, payload)

\* submit_transaction under the remote policy: a duplicate changes nothing.
SubmitRemote(t, payload) ==
    IF Retained(t) THEN UNCHANGED <<log, secrets, outbound>> ELSE Commit(t, payload)

\* Mutant: the eligibility that was verified is taken to hold still.
AcceptedUnchecked(t, payload) ==
    IF Retained(t) THEN payload = RetainedPayload(t) ELSE Storable(t, payload)

\* What the commit demands: eligibility, read again in the same SQLite
\* transaction; the retained payload of a duplicate; a readable new payload.
Accepted(t, payload) ==
    /\ Permitted(Origin[t], t)
    /\ IF Retained(t) THEN payload = RetainedPayload(t) ELSE Storable(t, payload)

\* apply_inbound_transaction, one SQLite transaction.
Apply(r) ==
    /\ pc[r] = "apply"
    /\ \/ /\ Accepted(env[r], copy[r])
          /\ SubmitRemote(env[r], copy[r])
          /\ pc' = [pc EXCEPT ![r] = "applied"]
       \/ /\ ~Accepted(env[r], copy[r])
          /\ pc' = [pc EXCEPT ![r] = "rejected"]
          /\ UNCHANGED <<log, secrets, outbound>>
    /\ UNCHANGED <<nodes, env, copy, kills, delivered>>

\* Mutant: the exit code is not looked at.
AnswerAnyExit(r) ==
    /\ pc[r] \in {"applied", "rejected"}
    /\ delivered' = delivered \cup {env[r]}
    /\ pc' = [pc EXCEPT ![r] = "idle"]
    /\ env' = [env EXCEPT ![r] = None]
    /\ copy' = [copy EXCEPT ![r] = None]
    /\ UNCHANGED <<nodes, log, secrets, outbound, kills>>

\* Mutant: the failure of a killed runtime sticks to the ones after it.
AnswerAfterKill(r) ==
    /\ pc[r] \in {"applied", "rejected"}
    /\ delivered' = IF pc[r] = "applied" /\ kills = 0 THEN delivered \cup {env[r]} ELSE delivered
    /\ pc' = [pc EXCEPT ![r] = "idle"]
    /\ env' = [env EXCEPT ![r] = None]
    /\ copy' = [copy EXCEPT ![r] = None]
    /\ UNCHANGED <<nodes, log, secrets, outbound, kills>>

\* The daemon answers the peer with the runtime's exit code.
Answer(r) ==
    /\ pc[r] \in {"applied", "rejected"}
    /\ delivered' = IF pc[r] = "applied" THEN delivered \cup {env[r]} ELSE delivered
    /\ pc' = [pc EXCEPT ![r] = "idle"]
    /\ env' = [env EXCEPT ![r] = None]
    /\ copy' = [copy EXCEPT ![r] = None]
    /\ UNCHANGED <<nodes, log, secrets, outbound, kills>>

\* The runtime is killed by the 15 s timeout, finds the database locked, or
\* its answer is lost with the daemon; the peer is not told "delivered".
Kill(r) ==
    /\ pc[r] # "idle"
    /\ kills < MaxKills
    /\ kills' = kills + 1
    /\ pc' = [pc EXCEPT ![r] = "idle"]
    /\ env' = [env EXCEPT ![r] = None]
    /\ copy' = [copy EXCEPT ![r] = None]
    /\ UNCHANGED <<nodes, log, secrets, outbound, delivered>>
-----------------------------------------------------------------------------
(***************************************************************************)
(* Local commands, each one SQLite transaction.                            *)
(***************************************************************************)

OwnPayload == IF StorageMode[Self] = "encrypted" THEN "own" ELSE "plain"

\* The log after the rows of a secret.set: its vocabulary first.
SetRows(t) ==
    Append(Append(log, [tx |-> Vocabulary[t], payload |-> "plain"]),
           [tx |-> t, payload |-> OwnPayload])

\* _set_sqlite_secret with either policy; an import refuses an existing secret.
SetSecret(t, refuseExisting, propagate) ==
    /\ ~Retained(t)
    /\ refuseExisting => secrets[SecretOf[t]] = Absent /\ History(SecretOf[t]) = {}
    /\ log' = SetRows(t)
    /\ secrets' = Projected(secrets, t)
    /\ outbound' = IF propagate THEN outbound \cup Queued(Vocabulary[t]) \cup Queued(t)
                   ELSE outbound
    /\ UNCHANGED <<nodes, pc, env, copy, kills, delivered>>

\* set_sqlite_secret; import_sqlite_secret_for_sync is the same where it succeeds.
Set(t) == SetSecret(t, FALSE, TRUE)

\* import_sqlite_secret_local
ImportLocal(t) == SetSecret(t, TRUE, FALSE)

\* delete_sqlite_secret: only of an active secret.
Delete(t) ==
    /\ ~Retained(t)
    /\ secrets[SecretOf[t]].state = "active"
    /\ Commit(t, OwnPayload)
    /\ UNCHANGED <<nodes, pc, env, copy, kills, delivered>>

\* The row before a secret.set is the vocabulary it names.
Prerequisite(i) ==
    /\ i > 1
    /\ Kind[log[i - 1].tx] = "vocabulary"
    /\ Word[log[i - 1].tx] = Word[log[i].tx]

\* authorize_existing_sqlite_secret_for_sync: an active secret with a single
\* row; its vocabulary and the row are queued for the peers eligible now.
Authorize(s) ==
    /\ secrets[s].state = "active"
    /\ \E i \in History(s) :
          /\ History(s) = {i}
          /\ Kind[log[i].tx] = "secret.set"
          /\ Prerequisite(i)
          /\ outbound' = outbound \cup Queued(log[i - 1].tx) \cup Queued(log[i].tx)
    /\ UNCHANGED <<nodes, log, secrets, pc, env, copy, kills, delivered>>

\* The registry changes: a peer is accepted, or revoked.
Accept(p) ==
    /\ nodes[p] = "admission_requested"
    /\ nodes' = [nodes EXCEPT ![p] = "active"]
    /\ UNCHANGED <<log, secrets, outbound, pc, env, copy, kills, delivered>>

Revoke(p) ==
    /\ nodes[p] = "active"
    /\ nodes' = [nodes EXCEPT ![p] = "revoked"]
    /\ UNCHANGED <<log, secrets, outbound, pc, env, copy, kills, delivered>>
-----------------------------------------------------------------------------
RuntimeStep(r) == Verify(r) \/ Localize(r) \/ Apply(r) \/ Answer(r)

Next ==
    \/ \E r \in Runtimes : RuntimeStep(r) \/ Kill(r)
    \/ \E r \in Runtimes, t \in Remote : Deliver(r, t)
    \/ \E t \in LocalSets : Set(t) \/ ImportLocal(t)
    \/ \E t \in Transactions :
          Origin[t] = Self /\ Kind[t] = "secret.delete" /\ Delete(t)
    \/ \E s \in Secrets : Authorize(s)
    \/ \E p \in Peers : Accept(p) \/ Revoke(p)

Spec == Init /\ [][Next]_vars

\* A started runtime runs to its end and the daemon waits for it.
FairSpec == Spec /\ \A r \in Runtimes : WF_vars(RuntimeStep(r))
-----------------------------------------------------------------------------
(***************************************************************************)
(* Properties.                                                             *)
(***************************************************************************)

\* Types; a runtime has an envelope exactly while it runs, and a projected
\* secret has a transaction and a creation time (secrets_kit.backends.sqlite
\* .projections inserts both).
TypeOK ==
    /\ nodes \in [Peers -> {"admission_requested", "active", "revoked"}]
    /\ log \in Seq(Rows)
    /\ secrets \in [Secrets -> Projections]
    /\ \A s \in Secrets :
          /\ secrets[s].tx = None <=> secrets[s].state = "absent"
          /\ secrets[s].created = None <=> secrets[s].state = "absent"
    /\ outbound \subseteq Transactions \X Peers
    /\ pc \in [Runtimes -> {"idle", "verify", "localize", "apply", "applied", "rejected"}]
    /\ env \in [Runtimes -> Remote \cup {None}]
    /\ copy \in [Runtimes -> Payloads \cup {None}]
    /\ \A r \in Runtimes : pc[r] = "idle" <=> env[r] = None
    /\ kills \in 0 .. MaxKills
    /\ delivered \subseteq Remote

\* The log has at most one row for a transaction, however often and however
\* concurrently its envelope is delivered (submit_transaction).
AppliedOnce ==
    \A i, j \in DOMAIN log : log[i].tx = log[j].tx => i = j

\* The transactions of a log replayed in rowid order onto an empty projection.
ReplayOf(transactions) ==
    LET upTo[n \in 0 .. Len(transactions)] ==
          IF n = 0 THEN [s \in Secrets |-> Absent]
          ELSE Projected(upTo[n - 1], transactions[n].tx)
    IN  upTo[Len(transactions)]

Replayed == ReplayOf(log)

\* rebuild_secret_projections changes nothing: the projection that commands and
\* inbound runtimes maintain is the one a replay of the log gives.
RebuildIsIdentity == secrets = Replayed

\* A peer is told "delivered" only for a transaction this node keeps, so that
\* the peer may stop sending it (daemon _invoke_runtime and its answer).
DeliveredIsRetained == \A t \in delivered : Retained(t)

\* Every payload in the log has the form the node's storage mode reads, whatever
\* the storage mode of the peer that sent it (_validate_stored_payload).
OneStorageForm == \A i \in DOMAIN log : Storable(log[i].tx, log[i].payload)

\* A node queues envelopes only for its own transactions, although inbound
\* transactions are submitted with outbound generation on.
OnlyOwnForwarded == \A e \in outbound : Origin[e[1]] = Self

\* A secret written once, here, can be authorized for synchronisation: no
\* concurrent writer comes between the set and its vocabulary.
AuthorizationAvailable ==
    \A s \in Secrets : \A i \in History(s) :
       Origin[log[i].tx] = Self /\ Kind[log[i].tx] = "secret.set" => Prerequisite(i)

\* A remote transaction enters the log only in a state in which its origin is
\* admitted and granted it, even if the peer was revoked after the verification.
CommittedWhilePermitted ==
    [][\A t \in Remote : ~Retained(t) /\ Retained(t)' => Permitted(Origin[t], t)]_vars

\* An envelope whose transaction is already retained is not refused while its
\* origin is permitted: redelivery is answered "delivered".
RefusesNoDuplicate ==
    \A r \in Runtimes :
       pc[r] \in {"localize", "apply"} /\ pc'[r] = "rejected" =>
          ~(Retained(env[r]) /\ Permitted(Origin[env[r]], env[r]))

\* Whatever was killed or raced, a peer that stays permitted and keeps sending
\* an envelope is told "delivered" in the end.
RetriesSettle(T) ==
    \A t \in T :
       []<>(\E r \in Runtimes : pc[r] = "verify" /\ env[r] = t)
          /\ <>[]Permitted(Origin[t], t)
       => <>(t \in delivered)
=============================================================================
