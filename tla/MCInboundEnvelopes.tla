------------------------- MODULE MCInboundEnvelopes -------------------------
(***************************************************************************)
(* Small instances of InboundEnvelopes.  Peer "p" writes a set and a       *)
(* delete of secret "a" and the vocabulary of the set; the local node "n"  *)
(* writes the same secret, with its vocabulary, and deletes it.  "pother"  *)
(* is a set of a secret that "p" has no grant for, and "qset" comes from a *)
(* peer whose storage is plaintext.                                        *)
(*                                                                         *)
(* In one kind of behaviour two runtimes race on the set and the delete of *)
(* "p" and one of them may be killed; in the other a single runtime is     *)
(* given envelopes of every sort, one after the other.                     *)
(***************************************************************************)
EXTENDS InboundEnvelopes

CONSTANTS r1, r2

VARIABLE racing

inboundVars == <<vars, racing>>

MCOrigin ==
    [t \in Transactions |->
       CASE t \in {"pset", "pdel", "pvoc", "pother"} -> "p"
         [] t = "qset" -> "q"
         [] OTHER -> "n"]

MCKind ==
    [t \in Transactions |->
       CASE t \in {"pset", "pother", "qset", "nset"} -> "secret.set"
         [] t \in {"pdel", "ndel"} -> "secret.delete"
         [] t \in {"pvoc", "nvoc"} -> "vocabulary"]

MCSecretOf == [t \in Transactions |-> IF t = "pother" THEN "b" ELSE "a"]

MCWord ==
    [t \in Transactions |-> IF t \in {"nset", "nvoc"} THEN "password" ELSE "token"]

MCVocabulary == [t \in Transactions |-> IF t = "nset" THEN "nvoc" ELSE t]

MCGrant == [p \in Peers |-> {"a"}]

\* "q" has plaintext storage, all others encrypt.
EncryptedButQ ==
    [x \in Peers \cup {Self} |-> IF x = "q" THEN "plaintext" ELSE "encrypted"]

\* A receiver with plaintext storage among peers that encrypt theirs.
PlainReceiver ==
    [x \in Peers \cup {Self} |-> IF x = Self THEN "plaintext" ELSE "encrypted"]

Raced == {"pset", "pdel"}

\* Bounds: a race is about the envelopes of "p", and nothing is deleted here.
Bounded ==
    IF racing
    THEN /\ \A r \in Runtimes : env'[r] \in Raced \cup {None}
         /\ nodes'["q"] = "active"
         /\ ~Retained("ndel")'
    ELSE pc'[r2] = "idle" /\ kills' = 0

InboundInit ==
    /\ Init
    /\ racing \in BOOLEAN
    /\ racing => nodes["q"] = "active"

InboundSpec == InboundInit /\ [][Next /\ Bounded /\ UNCHANGED racing]_inboundVars

\* The bounds limit no action that fairness is assumed of.
InboundFairSpec == InboundSpec /\ \A r \in Runtimes : WF_vars(RuntimeStep(r))

\* RefusesNoDuplicate, where no other runtime commits the same transaction
\* between the localization and the commit of this one.
DuplicateAlone == [][~racing => RefusesNoDuplicate]_inboundVars

\* Whatever was killed or raced, a peer that stays permitted and keeps sending
\* an envelope is told "delivered" in the end.
RacedRetriesSettle == RetriesSettle(Raced)

=============================================================================
