---------------------------- MODULE PairingProofs ---------------------------
(***************************************************************************)
(* How two nodes become peers by a command: the invitation, the remote     *)
(* installation, and last the replay of the history both leave.  Each      *)
(* extends the admission commands, and its invariant the one of            *)
(* PeerAdmissionProofs.                                                    *)
(***************************************************************************)
EXTENDS PeerInvitation, RemoteInstall, PeerAdmissionProofs

-----------------------------------------------------------------------------
(***************************************************************************)
(* Proofs about PeerInvitation, for any number of commands of either       *)
(* operator, any interruptions and any admission commands in between.      *)
(*                                                                         *)
(* The argument is about revisions: what a command holds is the stored     *)
(* record or an older one (CopyOf), so that a save that the store accepts  *)
(* is a save of the stored record.  Then a staged decision never changes,  *)
(* and every frame, record and label of the session (SessionOrder,         *)
(* HoldsAt) says how far the two sides are.  What the admission module     *)
(* proves of the registries carries over: applying an invitation is at     *)
(* most four submissions.                                                  *)
(***************************************************************************)

Frames == {"offer", "join", "approve", "complete"}

Approvals == {ApproveDecision(c) : c \in Command}

\* At most one decision is staged
Stages == {{}} \cup {{tx} : tx \in Approvals}

RecordPhases == {"none", "created", "join_staged"} \cup OfferPhases \cup JoinPhases

SessionRecords == [rev : Nat, phase : RecordPhases, staged : Stages]

SourcePcs ==
    {"publish_offer", "save_offered", "stage_approve", "apply", "put_approve", "save_approved", "confirm"}

TargetPcs ==
    {"publish_join", "save_joined", "complete", "stage_complete", "apply", "configure",
     "put_complete", "save_complete"}

Pcs == {"idle"} \cup SourcePcs \cup TargetPcs

SessionTypes ==
    /\ record \in [Node -> SessionRecords]
    /\ DOMAIN mailbox = Frames
    /\ mailbox["approve"] \in Stages /\ mailbox["complete"] \in Stages
    /\ command \in [Command -> [pc : Pcs, record : SessionRecords]]
    /\ minted \in [Node -> [request : Nat, decision : Nat, revoke : Nat]]
    /\ pair = NoPair

\* A row of the state store that was never saved is empty
Unsaved(r) == (r.phase = "none" <=> r.rev = 0) /\ (r.rev = 0 => r.staged = {})

\* The copy a command holds is the stored record or an older one, and a decision
\* once staged stays
CopyOf(held, r) ==
    /\ held.rev <= r.rev
    /\ held.rev = r.rev => held = r
    /\ held.staged \subseteq r.staged

BeforeStaging == {"stage_approve", "stage_complete"}

AfterStaging ==
    {"apply", "put_approve", "save_approved", "confirm", "configure", "put_complete", "save_complete"}

\* The relay profile that the offer asks for and the target does not have yet
Waiting == {profile \in {"rss"} : include_rss /\ ~rssReady}

\* A command of node n at label pc with the record held, when the store has the
\* record r, the approval frame is approve, the two sides have recorded the
\* acceptances here and there, and waiting is what the target still waits for
HoldsAt(n, pc, held, r, approve, here, there, waiting) ==
    /\ pc # "idle" => pc \in IF n = Here THEN SourcePcs ELSE TargetPcs
    /\ CopyOf(held, r)
    /\ pc \in BeforeStaging => held.staged = {}
    /\ pc \in AfterStaging => held.staged # {}
    /\ pc = "stage_complete" => approve # {}
    /\ pc \in {"put_approve", "save_approved", "confirm"} => here # {}
    /\ pc \in {"configure", "put_complete", "save_complete"} => there # {}
    /\ pc \in {"put_complete", "save_complete"} => waiting = {}

CommandOK(c) ==
    HoldsAt(RunsAt[c], command[c].pc, command[c].record, record[RunsAt[c]], mailbox["approve"],
            Accepts(Here), Accepts(There), Waiting)

\* What each frame and each record of the session stands for
SessionOrder ==
    /\ \A n \in Node : Unsaved(record[n])
    /\ record[Here].phase \in {"approval_staged", "approved", "complete"} => record[Here].staged # {}
    /\ mailbox["approve"] \subseteq record[Here].staged
    /\ record[There].staged \subseteq mailbox["approve"]
    /\ mailbox["complete"] \subseteq record[There].staged
    /\ mailbox["approve"] # {} => Accepts(Here) # {}
    /\ mailbox["complete"] # {} => Accepts(There) # {} /\ Waiting = {}
    /\ record[Here].phase = "complete" => Accepts(There) # {} /\ Waiting = {}

\* Proofs signed by commands are not those of the session
Signed ==
    /\ \A tx \in inHand : tx.id \in Nat
    /\ \A n \in Node : \A tx \in deciding[n] : tx.id \in Nat

\* What the session has put in a history
OfSession(tx, staged, here) ==
    /\ tx.type = "accept" /\ tx.origin = Here /\ tx.id < 0 => tx \in staged
    /\ tx = JoinDecision => here # {}

SessionHistory ==
    \A n \in Node : \A i \in DOMAIN history[n] :
        OfSession(history[n][i], record[Here].staged, Accepts(Here))

SInv ==
    /\ SessionTypes /\ SessionOrder /\ Signed /\ SessionHistory
    /\ \A c \in Command : CommandOK(c)

-----------------------------------------------------------------------------
(* The session only goes forward                                           *)

\* Records are saved with a higher revision and keep what is staged; frames,
\* acceptances and the relay profile stay
Forward ==
    /\ \A n \in Node :
           \/ record'[n] = record[n]
           \/ record'[n].rev > record[n].rev /\ record[n].staged \subseteq record'[n].staged
    /\ mailbox["approve"] # {} => mailbox'["approve"] # {}
    /\ \A n \in Node : Accepts(n) # {} => Accepts(n)' # {}
    /\ Waiting = {} => Waiting' = {}

\* An older copy stays older
LEMMA CopyStays ==
    ASSUME NEW held \in SessionRecords, NEW r \in SessionRecords, NEW s \in SessionRecords,
           CopyOf(held, r), s = r \/ (s.rev > r.rev /\ r.staged \subseteq s.staged)
    PROVE  CopyOf(held, s)
  <1>1. held.rev \in Nat /\ r.rev \in Nat /\ s.rev \in Nat
    BY Zenon DEF SessionRecords
  <1> QED
    BY <1>1 DEF CopyOf

\* A command that does not move keeps what it has achieved
LEMMA AtRest ==
    ASSUME NEW n, NEW pc, NEW held \in SessionRecords, NEW r \in SessionRecords,
           NEW s \in SessionRecords, NEW approve, NEW here, NEW there, NEW waiting,
           NEW approve2, NEW here2, NEW there2, NEW waiting2,
           HoldsAt(n, pc, held, r, approve, here, there, waiting),
           s = r \/ (s.rev > r.rev /\ r.staged \subseteq s.staged),
           approve # {} => approve2 # {}, here # {} => here2 # {}, there # {} => there2 # {},
           waiting = {} => waiting2 = {}
    PROVE  HoldsAt(n, pc, held, s, approve2, here2, there2, waiting2)
  <1>1. CopyOf(held, s)
    BY Zenon, CopyStays DEF HoldsAt
  <1> QED
    BY Zenon, <1>1 DEF HoldsAt

\* What a command holds where it moves to
Arrives(c, pc, held) ==
    HoldsAt(RunsAt[c], pc, held, record'[RunsAt[c]], mailbox'["approve"], Accepts(Here)',
            Accepts(There)', Waiting')

\* Every command is in order after a step of one of them
LEMMA CommandsKept ==
    ASSUME SInv, Forward, record' \in [Node -> SessionRecords],
           NEW c \in Command, NEW pc \in Pcs, NEW held \in SessionRecords, Moves(c, pc, held),
           Arrives(c, pc, held)
    PROVE  /\ command' \in [Command -> [pc : Pcs, record : SessionRecords]]
           /\ \A d \in Command : CommandOK(d)'
  <1>1. /\ command \in [Command -> [pc : Pcs, record : SessionRecords]]
        /\ record \in [Node -> SessionRecords]
    BY Zenon DEF SInv, SessionTypes
  <1>2. command' = [command EXCEPT ![c] = [pc |-> pc, record |-> held]]
    BY Zenon DEF Moves
  <1>3. command' \in [Command -> [pc : Pcs, record : SessionRecords]]
    BY Zenon, <1>1, <1>2
  <1>4. command'[c].pc = pc /\ command'[c].record = held
    BY Zenon, <1>1, <1>2
  <1>5. ASSUME NEW d \in Command
        PROVE  HoldsAt(RunsAt[d], command'[d].pc, command'[d].record, record'[RunsAt[d]],
                       mailbox'["approve"], Accepts(Here)', Accepts(There)', Waiting')
    <2>1. CASE d = c
      BY Zenon, <1>4, <2>1 DEF Arrives
    <2>2. CASE d # c
      <3>1. command'[d] = command[d] /\ command[d].record \in SessionRecords
        BY Zenon, <1>1, <1>2, <2>2
      <3>2. RunsAt[d] \in Node /\ Here \in Node /\ There \in Node
        BY Zenon, InvitationAssumption, TwoNodes
      <3>3. record[RunsAt[d]] \in SessionRecords /\ record'[RunsAt[d]] \in SessionRecords
        BY Zenon, <1>1, <3>2
      <3>4. HoldsAt(RunsAt[d], command[d].pc, command[d].record, record[RunsAt[d]],
                    mailbox["approve"], Accepts(Here), Accepts(There), Waiting)
        BY Zenon DEF SInv, CommandOK
      <3>5. \/ record'[RunsAt[d]] = record[RunsAt[d]]
            \/ /\ record'[RunsAt[d]].rev > record[RunsAt[d]].rev
               /\ record[RunsAt[d]].staged \subseteq record'[RunsAt[d]].staged
        BY Zenon, <3>2 DEF Forward
      <3>6. /\ mailbox["approve"] # {} => mailbox'["approve"] # {}
            /\ Accepts(Here) # {} => Accepts(Here)' # {}
            /\ Accepts(There) # {} => Accepts(There)' # {}
            /\ Waiting = {} => Waiting' = {}
        BY Zenon, <3>2 DEF Forward
      <3> QED
        BY ZenonT(30), <3>1, <3>3, <3>4, <3>5, <3>6, AtRest
    <2> QED
      BY Zenon, <2>1, <2>2
  <1> QED
    BY Zenon, <1>3, <1>5 DEF CommandOK

\* Without a new transaction the histories have what they had
LEMMA HistoryKept ==
    ASSUME SInv, Forward, UNCHANGED history, record' \in [Node -> SessionRecords]
    PROVE  SessionHistory'
  <1>1. record[Here].staged \subseteq record'[Here].staged /\ (Accepts(Here) # {} => Accepts(Here)' # {})
    BY Zenon, TwoNodes DEF Forward
  <1>2. ASSUME NEW n \in Node, NEW i \in DOMAIN history[n]
        PROVE  OfSession(history[n][i], record'[Here].staged, Accepts(Here)')
    <2>1. OfSession(history[n][i], record[Here].staged, Accepts(Here))
      BY Zenon DEF SInv, SessionHistory
    <2> QED
      BY Zenon, <1>1, <2>1 DEF OfSession
  <1> QED
    BY Zenon, <1>2 DEF SessionHistory, OfSession, JoinDecision, OfferRequest

\* The rest of the state that the session's own steps leave alone
Apart == UNCHANGED <<admissionVars, include_rss>>

\* Apart from the session nothing is signed or recorded
LEMMA ApartKeeps ==
    ASSUME SInv, Apart
    PROVE  /\ Signed'
           /\ minted' \in [Node -> [request : Nat, decision : Nat, revoke : Nat]] /\ pair' = NoPair
           /\ UNCHANGED history
           /\ \A n \in Node : Accepts(n)' = Accepts(n)
  <1>1. UNCHANGED <<inHand, deciding, minted, pair, history>>
    BY Zenon DEF Apart, admissionVars
  <1>2. Signed /\ SessionTypes
    BY Zenon DEF SInv
  <1>3. Signed'
    BY Zenon, <1>1, <1>2 DEF Signed
  <1> QED
    BY Zenon, <1>1, <1>2, <1>3 DEF SessionTypes, Accepts

\* A step that moves a command, and may configure the relay profile
LEMMA ReadyKeeps ==
    ASSUME SInv, Apart, UNCHANGED <<record, mailbox>>, Waiting = {} => Waiting' = {},
           NEW c \in Command, NEW pc \in Pcs, NEW held \in SessionRecords, Moves(c, pc, held),
           HoldsAt(RunsAt[c], pc, held, record[RunsAt[c]], mailbox["approve"], Accepts(Here),
                   Accepts(There), Waiting')
    PROVE  SInv'
  <1>1. /\ Signed' /\ UNCHANGED history
        /\ minted' \in [Node -> [request : Nat, decision : Nat, revoke : Nat]] /\ pair' = NoPair
        /\ \A n \in Node : Accepts(n)' = Accepts(n)
    BY Zenon, ApartKeeps
  <1>2. Here \in Node /\ There \in Node /\ Accepts(Here)' = Accepts(Here) /\ Accepts(There)' = Accepts(There)
    BY Zenon, <1>1, TwoNodes
  <1>4. Forward
    BY Zenon, <1>1 DEF Forward
  <1>5. SessionTypes /\ SessionOrder
    BY Zenon DEF SInv
  <1>6. record' \in [Node -> SessionRecords]
    BY Zenon, <1>5 DEF SessionTypes
  <1>7. Arrives(c, pc, held)
    BY Zenon, <1>2 DEF Arrives
  <1>8. /\ command' \in [Command -> [pc : Pcs, record : SessionRecords]]
        /\ \A d \in Command : CommandOK(d)'
    BY Zenon, <1>4, <1>6, <1>7, CommandsKept
  <1>9. SessionTypes'
    BY Zenon, <1>1, <1>5, <1>8 DEF SessionTypes
  <1>10. SessionOrder'
    BY Zenon, <1>2, <1>5 DEF SessionOrder
  <1> QED
    BY Zenon, <1>1, <1>4, <1>6, <1>8, <1>9, <1>10, HistoryKept DEF SInv

\* A step that only moves a command
LEMMA MoveKeeps ==
    ASSUME SInv, Apart, UNCHANGED <<record, mailbox, rssReady>>,
           NEW c \in Command, NEW pc \in Pcs, NEW held \in SessionRecords, Moves(c, pc, held),
           HoldsAt(RunsAt[c], pc, held, record[RunsAt[c]], mailbox["approve"], Accepts(Here),
                   Accepts(There), Waiting)
    PROVE  SInv'
  <1>1. Waiting' = Waiting
    BY Zenon DEF Apart, Waiting
  <1> QED
    BY Zenon, <1>1, ReadyKeeps

\* A record saved with the next revision
Save(n, phase, staged) ==
    record' = [record EXCEPT ![n] = [rev |-> record[n].rev + 1, phase |-> phase, staged |-> staged]]

\* What may be saved: nothing that was staged is replaced, and each phase is
\* saved when what it stands for has happened
MaySave(n, phase, staged) ==
    /\ phase \in RecordPhases \ {"none"} /\ staged \in Stages
    /\ staged = record[n].staged \/ record[n].staged = {}
    /\ n = Here /\ phase \in {"approval_staged", "approved", "complete"} => staged # {}
    /\ n = Here /\ phase = "complete" => Accepts(There) # {} /\ Waiting = {}
    /\ n = There => staged \subseteq mailbox["approve"]

\* A step that saves a record
LEMMA SaveKeeps ==
    ASSUME SInv, Apart, UNCHANGED <<mailbox, rssReady>>,
           NEW c \in Command, NEW n \in Node, n = RunsAt[c], NEW phase, NEW staged,
           Save(n, phase, staged), MaySave(n, phase, staged),
           NEW pc \in Pcs, NEW held \in SessionRecords, Moves(c, pc, held),
           HoldsAt(n, pc, held, record'[n], mailbox["approve"], Accepts(Here), Accepts(There), Waiting)
    PROVE  SInv'
  <1>1. /\ Signed' /\ UNCHANGED history
        /\ minted' \in [Node -> [request : Nat, decision : Nat, revoke : Nat]] /\ pair' = NoPair
        /\ \A m \in Node : Accepts(m)' = Accepts(m)
    BY Zenon, ApartKeeps
  <1>2. /\ Here \in Node /\ There \in Node /\ Here # There
        /\ Accepts(Here)' = Accepts(Here) /\ Accepts(There)' = Accepts(There)
    BY Zenon, <1>1, TwoNodes
  <1>3. Waiting' = Waiting
    BY Zenon DEF Apart, Waiting
  <1>4. SessionTypes /\ SessionOrder
    BY Zenon DEF SInv
  <1> DEFINE r == [rev |-> record[n].rev + 1, phase |-> phase, staged |-> staged]
  <1>5. record \in [Node -> SessionRecords] /\ record[n] \in SessionRecords /\ record[n].rev \in Nat
    BY Zenon, <1>4 DEF SessionTypes, SessionRecords
  <1>6. r \in SessionRecords /\ r.rev = record[n].rev + 1 /\ r.phase = phase /\ r.staged = staged
    BY <1>5 DEF SessionRecords, MaySave
  <1>7. record' = [record EXCEPT ![n] = r]
    BY Zenon DEF Save
  <1> HIDE DEF r
  <1>8. /\ record' \in [Node -> SessionRecords]
        /\ record'[n] = r /\ \A m \in Node \ {n} : record'[m] = record[m]
    BY Zenon, <1>5, <1>6, <1>7
  <1>9. record[n].staged \subseteq staged
    BY Zenon DEF MaySave
  <1>10. Forward
    <2>1. r.rev > record[n].rev /\ record[n].staged \subseteq r.staged
      BY <1>5, <1>6, <1>9
    <2> QED
      BY Zenon, <1>1, <1>3, <1>8, <2>1 DEF Forward
  <1>11. Arrives(c, pc, held)
    BY Zenon, <1>2, <1>3 DEF Arrives
  <1>12. /\ command' \in [Command -> [pc : Pcs, record : SessionRecords]]
         /\ \A d \in Command : CommandOK(d)'
    BY Zenon, <1>8, <1>10, <1>11, CommandsKept
  <1>13. SessionTypes'
    BY Zenon, <1>1, <1>4, <1>8, <1>12 DEF SessionTypes
  <1>14. Unsaved(r)
    BY <1>5, <1>6 DEF Unsaved, MaySave
  <1>15. \A m \in Node : Unsaved(record'[m])
    BY Zenon, <1>4, <1>8, <1>14 DEF SessionOrder
  <1>16. CASE n = Here
    <2>1. record'[Here] = r /\ record'[There] = record[There]
      BY Zenon, <1>2, <1>8, <1>16
    <2>2. /\ phase \in {"approval_staged", "approved", "complete"} => staged # {}
          /\ phase = "complete" => Accepts(There) # {} /\ Waiting = {}
      BY Zenon, <1>16 DEF MaySave
    <2>3. mailbox["approve"] \subseteq staged
      BY ZenonT(30), <1>4, <1>9, <1>16 DEF SessionOrder
    <2> QED
      <3>1. SessionOrder'
        BY ZenonT(30), <1>2, <1>3, <1>4, <1>6, <1>15, <2>1, <2>2, <2>3 DEF SessionOrder
      <3> QED
        BY Zenon, <1>1, <1>8, <1>10, <1>12, <1>13, <3>1, HistoryKept DEF SInv
  <1>17. CASE n # Here
    <2>1. n = There /\ record'[There] = r /\ record'[Here] = record[Here]
      BY SMTT(30), <1>2, <1>8, <1>17, AdmissionAssumption
    <2>2. staged \subseteq mailbox["approve"] /\ mailbox["complete"] \subseteq staged
      BY Zenon, <1>4, <1>9, <2>1 DEF SessionOrder, MaySave
    <2> QED
      <3>1. SessionOrder'
        BY Zenon, <1>2, <1>3, <1>4, <1>6, <1>15, <2>1, <2>2 DEF SessionOrder
      <3> QED
        BY Zenon, <1>1, <1>8, <1>10, <1>12, <1>13, <3>1, HistoryKept DEF SInv
  <1> QED
    BY Zenon, <1>16, <1>17

\* A step that writes a frame to the mailbox
LEMMA StoreKeeps ==
    ASSUME SInv, Apart, UNCHANGED <<record, rssReady>>,
           NEW stage \in Frames, NEW frame, Stored(stage, frame),
           stage = "approve" => frame \in record[Here].staged /\ Accepts(Here) # {},
           stage = "complete" => /\ frame \in record[There].staged
                                 /\ Accepts(There) # {} /\ Waiting = {},
           NEW c \in Command, NEW pc \in Pcs, NEW held \in SessionRecords, Moves(c, pc, held),
           HoldsAt(RunsAt[c], pc, held, record[RunsAt[c]], mailbox["approve"], Accepts(Here),
                   Accepts(There), Waiting)
    PROVE  SInv'
  <1>1. /\ Signed' /\ UNCHANGED history
        /\ minted' \in [Node -> [request : Nat, decision : Nat, revoke : Nat]] /\ pair' = NoPair
        /\ \A n \in Node : Accepts(n)' = Accepts(n)
    BY Zenon, ApartKeeps
  <1>2. Here \in Node /\ There \in Node /\ Accepts(Here)' = Accepts(Here) /\ Accepts(There)' = Accepts(There)
    BY Zenon, <1>1, TwoNodes
  <1>3. Waiting' = Waiting
    BY Zenon DEF Apart, Waiting
  <1>4. SessionTypes /\ SessionOrder
    BY Zenon DEF SInv
  <1>5. /\ DOMAIN mailbox' = Frames /\ mailbox'[stage] = {frame}
        /\ mailbox[stage] = {} \/ mailbox[stage] = {frame}
        /\ \A f \in Frames \ {stage} : mailbox'[f] = mailbox[f]
    BY Zenon, <1>4 DEF SessionTypes, Stored
  <1>6. \A f \in Frames : mailbox[f] \subseteq mailbox'[f] /\ (mailbox[f] # {} => mailbox'[f] = mailbox[f])
    BY Zenon, <1>5
  <1>7. "approve" \in Frames /\ "complete" \in Frames
    BY Zenon DEF Frames
  <1>8. \A n \in Node : record[n].staged \in Stages
    BY Zenon, <1>4 DEF SessionTypes, SessionRecords
  <1>9. /\ mailbox'["approve"] = mailbox["approve"]
           \/ (mailbox'["approve"] = record[Here].staged /\ Accepts(Here) # {})
        /\ mailbox'["complete"] = mailbox["complete"]
           \/ (mailbox'["complete"] = record[There].staged /\ Accepts(There) # {} /\ Waiting = {})
    <2>1. \A n \in Node : frame \in record[n].staged => record[n].staged = {frame}
      BY Zenon, <1>8 DEF Stages
    <2> QED
      BY Zenon, <1>2, <1>5, <1>7, <2>1
  <1>10. Forward
    BY Zenon, <1>1, <1>3, <1>6, <1>7 DEF Forward
  <1>11. record' \in [Node -> SessionRecords]
    BY Zenon, <1>4 DEF SessionTypes
  <1>12. Arrives(c, pc, held)
    <2>1. mailbox["approve"] # {} => mailbox'["approve"] # {}
      BY Zenon, <1>6, <1>7
    <2> QED
      BY Zenon, <1>2, <1>3, <2>1 DEF Arrives, HoldsAt
  <1>13. /\ command' \in [Command -> [pc : Pcs, record : SessionRecords]]
         /\ \A d \in Command : CommandOK(d)'
    BY Zenon, <1>10, <1>11, <1>12, CommandsKept
  <1>14. SessionTypes'
    BY Zenon, <1>1, <1>2, <1>4, <1>5, <1>8, <1>9, <1>13 DEF SessionTypes
  <1>15. SessionOrder'
    <2>1. mailbox'["approve"] \subseteq record[Here].staged /\ record[There].staged \subseteq mailbox'["approve"]
      BY Zenon, <1>4, <1>6, <1>7, <1>9 DEF SessionOrder
    <2>2. mailbox'["complete"] \subseteq record[There].staged
      BY Zenon, <1>4, <1>9 DEF SessionOrder
    <2> QED
      BY Zenon, <1>2, <1>3, <1>4, <1>9, <2>1, <2>2 DEF SessionOrder
  <1> QED
    BY Zenon, <1>1, <1>10, <1>11, <1>13, <1>14, <1>15, HistoryKept DEF SInv

-----------------------------------------------------------------------------
(* The steps of the commands                                               *)

\* What is known of a command before its step
LEMMA Known ==
    ASSUME SInv, NEW c \in Command
    PROVE  /\ RunsAt[c] \in Node /\ record[RunsAt[c]] \in SessionRecords
           /\ command[c].pc \in Pcs /\ command[c].record \in SessionRecords
           /\ CopyOf(command[c].record, record[RunsAt[c]])
           /\ HoldsAt(RunsAt[c], command[c].pc, command[c].record, record[RunsAt[c]],
                      mailbox["approve"], Accepts(Here), Accepts(There), Waiting)
  <1>1. SessionTypes /\ CommandOK(c)
    BY Zenon DEF SInv
  <1>2. RunsAt[c] \in Node
    BY Zenon, InvitationAssumption
  <1> QED
    BY Zenon, <1>1, <1>2 DEF SessionTypes, CommandOK, HoldsAt

\* The empty record is a copy of every record, and a record of itself
LEMMA Copies ==
    ASSUME SInv, NEW n \in Node
    PROVE  /\ NoRecord \in SessionRecords /\ NoRecord.staged = {}
           /\ CopyOf(NoRecord, record[n])
           /\ \A r \in SessionRecords : CopyOf(r, r)
  <1>1. NoRecord \in SessionRecords /\ NoRecord.staged = {} /\ NoRecord.rev = 0
    BY Zenon DEF NoRecord, SessionRecords, RecordPhases, Stages
  <1>2. record[n] \in SessionRecords /\ Unsaved(record[n])
    BY Zenon DEF SInv, SessionTypes, SessionOrder
  <1>3. record[n].rev = 0 => record[n] = NoRecord
    BY Zenon, <1>2 DEF Unsaved, SessionRecords, NoRecord
  <1>4. \A r \in SessionRecords : CopyOf(r, r) /\ r.rev \in Nat
    BY DEF CopyOf, SessionRecords
  <1> QED
    BY SMTT(30), <1>1, <1>2, <1>3, <1>4 DEF CopyOf

\* A command that ends leaves the session as it is
LEMMA EndKeeps ==
    ASSUME SInv, Apart, UNCHANGED <<record, mailbox, rssReady>>, NEW c \in Command, Ends(c)
    PROVE  SInv'
  <1>1. RunsAt[c] \in Node
    BY Zenon, Known
  <1>2. NoRecord \in SessionRecords /\ CopyOf(NoRecord, record[RunsAt[c]])
    BY Zenon, <1>1, Copies
  <1>3. HoldsAt(RunsAt[c], "idle", NoRecord, record[RunsAt[c]], mailbox["approve"], Accepts(Here),
                Accepts(There), Waiting)
    BY Zenon, <1>2 DEF HoldsAt, BeforeStaging, AfterStaging
  <1>4. Moves(c, "idle", NoRecord) /\ "idle" \in Pcs
    BY Zenon DEF Ends, Pcs
  <1> QED
    BY Zenon, <1>2, <1>3, <1>4, MoveKeeps

\* A save that is accepted is a save of the stored record
LEMMA SavedIs ==
    ASSUME SInv, NEW c \in Command, NEW old \in SessionRecords, CopyOf(old, record[RunsAt[c]]),
           NEW phase, NEW staged, NEW next,
           SaveOrEnd(c, [rev |-> old.rev, phase |-> phase, staged |-> staged], next)
    PROVE  \/ /\ old = record[RunsAt[c]]
              /\ Save(RunsAt[c], phase, staged)
              /\ Moves(c, next, record'[RunsAt[c]])
           \/ UNCHANGED record /\ Ends(c)
  <1> DEFINE n == RunsAt[c]
             held == [rev |-> old.rev, phase |-> phase, staged |-> staged]
             stored == [held EXCEPT !.rev = @ + 1]
  <1>1. stored = [rev |-> old.rev + 1, phase |-> phase, staged |-> staged] /\ held.rev = old.rev
    OBVIOUS
  <1>2. \/ CanSave(n, held.rev) /\ record' = [record EXCEPT ![n] = stored] /\ Moves(c, next, stored)
        \/ UNCHANGED record /\ Ends(c)
    BY Zenon DEF SaveOrEnd
  <1> HIDE DEF held, stored
  <1>3. CASE CanSave(n, held.rev) /\ record' = [record EXCEPT ![n] = stored] /\ Moves(c, next, stored)
    <2>1. old = record[n]
      BY Zenon, <1>1, <1>3 DEF CanSave, CopyOf
    <2>2. record'[n] = stored
      BY Zenon, <1>3, Known DEF SInv, SessionTypes
    <2> QED
      BY Zenon, <1>1, <1>3, <2>1, <2>2 DEF Save
  <1> QED
    BY Zenon, <1>2, <1>3

\* Changing the phase of a record
LEMMA RecordUpdate ==
    ASSUME NEW r \in SessionRecords, NEW phase
    PROVE  /\ [r EXCEPT !.phase = phase] = [rev |-> r.rev, phase |-> phase, staged |-> r.staged]
           /\ r.staged \in Stages
  BY SMTT(30) DEF SessionRecords

\* Where a command is after it has saved a phase
AfterPhase(n, next, staged) ==
    \/ next = "idle"
    \/ next = "complete" /\ n = There
    \/ next = "confirm" /\ n = Here /\ staged # {} /\ Accepts(Here) # {}

LEMMA AfterPhaseHolds ==
    ASSUME NEW n, NEW next, NEW held, NEW r, CopyOf(held, r), AfterPhase(n, next, held.staged)
    PROVE  /\ next \in Pcs
           /\ HoldsAt(n, next, held, r, mailbox["approve"], Accepts(Here), Accepts(There), Waiting)
  <1>1. Here # There
    BY Zenon, TwoNodes
  <1> QED
    BY Zenon, <1>1 DEF AfterPhase, HoldsAt, BeforeStaging, AfterStaging, Pcs, SourcePcs, TargetPcs

\* Saving a phase, or passing it by
LEMMA PhaseKeeps ==
    ASSUME SInv, NEW c \in Command, NEW pc, NEW phase, NEW passed, NEW next,
           SavePhase(c, pc, phase, passed, next),
           phase \in RecordPhases \ {"none"},
           RunsAt[c] = Here => /\ phase # "complete"
                               /\ phase \in {"approval_staged", "approved"} => command[c].record.staged # {},
           AfterPhase(RunsAt[c], next, command[c].record.staged)
    PROVE  SInv'
  <1> DEFINE n == RunsAt[c]
             old == command[c].record
  <1>1. /\ n \in Node /\ record[n] \in SessionRecords /\ old \in SessionRecords
        /\ CopyOf(old, record[n])
    BY Zenon, Known
  <1>2. Apart /\ UNCHANGED <<mailbox, rssReady>>
    BY Zenon DEF SavePhase, Apart
  <1>3. CASE Moves(c, next, old) /\ UNCHANGED record
    <2>1. /\ next \in Pcs
          /\ HoldsAt(n, next, old, record[n], mailbox["approve"], Accepts(Here), Accepts(There), Waiting)
      BY Zenon, <1>1, AfterPhaseHolds
    <2> HIDE DEF n, old
    <2> QED
      BY Zenon, <1>1, <1>2, <1>3, <2>1, MoveKeeps DEF n
  <1>4. CASE SaveOrEnd(c, [old EXCEPT !.phase = phase], next)
    <2>1. SaveOrEnd(c, [rev |-> old.rev, phase |-> phase, staged |-> old.staged], next)
      BY Zenon, <1>1, <1>4, RecordUpdate
    <2>2. \/ old = record[n] /\ Save(n, phase, old.staged) /\ Moves(c, next, record'[n])
          \/ UNCHANGED record /\ Ends(c)
      BY Zenon, <1>1, <2>1, SavedIs
    <2>3. CASE UNCHANGED record /\ Ends(c)
      BY Zenon, <1>2, <2>3, EndKeeps
    <2>4. CASE old = record[n] /\ Save(n, phase, old.staged) /\ Moves(c, next, record'[n])
      <3>1. old.staged \in Stages
        BY Zenon, <1>1, RecordUpdate
      <3>2. MaySave(n, phase, old.staged)
        <4>1. n = There => old.staged \subseteq mailbox["approve"]
          BY Zenon, <2>4 DEF SInv, SessionOrder
        <4> QED
          BY Zenon, <2>4, <3>1, <4>1 DEF MaySave
      <3>3. record'[n] \in SessionRecords /\ record'[n].staged = old.staged
        BY SMTT(30), <1>1, <2>4, <3>1 DEF Save, SInv, SessionTypes, SessionRecords
      <3>4. CopyOf(record'[n], record'[n])
        BY Zenon, <1>1, <3>3, Copies
      <3>5. /\ next \in Pcs
            /\ HoldsAt(n, next, record'[n], record'[n], mailbox["approve"], Accepts(Here),
                       Accepts(There), Waiting)
        BY Zenon, <3>3, <3>4, AfterPhaseHolds
      <3> HIDE DEF n, old
      <3> QED
        BY Zenon, <1>1, <1>2, <2>4, <3>2, <3>3, <3>5, SaveKeeps DEF n
    <2> QED
      BY Zenon, <2>2, <2>3, <2>4
  <1> QED
    BY Zenon, <1>3, <1>4 DEF SavePhase

LEMMA SavesPhase ==
    ASSUME SInv, NEW c \in Command,
           SaveOffered(c) \/ SaveJoined(c) \/ SaveComplete(c) \/ SaveApproved(c)
    PROVE  SInv'
  <1> DEFINE n == RunsAt[c]
             old == command[c].record
  <1>1. /\ n \in Node
        /\ HoldsAt(n, command[c].pc, old, record[n], mailbox["approve"], Accepts(Here), Accepts(There), Waiting)
    BY Zenon, Known
  <1>2. Here # There /\ (n # Here => n = There)
    BY SMTT(30), <1>1, TwoNodes, AdmissionAssumption
  <1>3. CASE SaveOffered(c)
    <2>1. SavePhase(c, "save_offered", "offered", OfferPhases, "idle")
      BY Zenon, <1>3 DEF SaveOffered
    <2>2. "offered" \in RecordPhases \ {"none"} /\ AfterPhase(n, "idle", old.staged)
      BY Zenon DEF RecordPhases, OfferPhases, AfterPhase
    <2> QED
      BY Zenon, <2>1, <2>2, PhaseKeeps
  <1>4. CASE SaveJoined(c)
    <2>1. SavePhase(c, "save_joined", "joined", JoinPhases, "complete") /\ command[c].pc = "save_joined"
      BY Zenon, <1>4 DEF SaveJoined, SavePhase, At
    <2>2. n = There
      BY Zenon, <1>1, <1>2, <2>1 DEF HoldsAt, SourcePcs
    <2>3. "joined" \in RecordPhases \ {"none"} /\ AfterPhase(n, "complete", old.staged)
      BY Zenon, <2>2 DEF RecordPhases, JoinPhases, AfterPhase
    <2> QED
      BY Zenon, <1>2, <2>1, <2>2, <2>3, PhaseKeeps
  <1>5. CASE SaveComplete(c)
    <2>1. SavePhase(c, "save_complete", "complete", {"complete"}, "idle") /\ command[c].pc = "save_complete"
      BY Zenon, <1>5 DEF SaveComplete, SavePhase, At
    <2>2. n # Here
      BY Zenon, <1>1, <1>2, <2>1 DEF HoldsAt, SourcePcs
    <2>3. "complete" \in RecordPhases \ {"none"} /\ AfterPhase(n, "idle", old.staged)
      BY Zenon DEF RecordPhases, JoinPhases, AfterPhase
    <2> QED
      BY Zenon, <2>1, <2>2, <2>3, PhaseKeeps
  <1>6. CASE SaveApproved(c)
    <2>1. SavePhase(c, "save_approved", "approved", {"approved", "complete"}, "confirm")
          /\ command[c].pc = "save_approved"
      BY Zenon, <1>6 DEF SaveApproved, SavePhase, At
    <2>2. n = Here /\ old.staged # {} /\ Accepts(Here) # {}
      BY Zenon, <1>1, <2>1 DEF HoldsAt, TargetPcs, AfterStaging
    <2>3. "approved" \in RecordPhases \ {"none"} /\ AfterPhase(n, "confirm", old.staged)
      BY Zenon, <2>2 DEF RecordPhases, OfferPhases, AfterPhase
    <2> QED
      BY Zenon, <2>1, <2>2, <2>3, PhaseKeeps
  <1> QED
    BY Zenon, <1>3, <1>4, <1>5, <1>6

\* A command that starts
LEMMA StartKeeps ==
    ASSUME SInv, NEW c \in Command, ResumeInvite(c) \/ ResumeJoin(c)
    PROVE  SInv'
  <1>1. Apart /\ UNCHANGED <<record, mailbox, rssReady>>
    BY Zenon DEF ResumeInvite, ResumeJoin, Apart
  <1>2. RunsAt[c] \in Node /\ NoRecord \in SessionRecords /\ CopyOf(NoRecord, record[RunsAt[c]])
    BY Zenon, Known, Copies
  <1>3. PICK pc \in {"publish_offer", "publish_join"} :
          /\ Moves(c, pc, NoRecord)
          /\ IF pc = "publish_offer" THEN RunsAt[c] = Here ELSE RunsAt[c] = There
    BY Zenon DEF ResumeInvite, ResumeJoin
  <1>4. HoldsAt(RunsAt[c], pc, NoRecord, record[RunsAt[c]], mailbox["approve"], Accepts(Here),
                Accepts(There), Waiting)
    BY Zenon, <1>2, <1>3, TwoNodes DEF HoldsAt, BeforeStaging, AfterStaging, SourcePcs, TargetPcs
  <1>5. pc \in Pcs
    BY Zenon DEF Pcs, SourcePcs, TargetPcs
  <1> QED
    BY Zenon, <1>1, <1>2, <1>3, <1>4, <1>5, MoveKeeps

\* A session that is created or joined
LEMMA CreateKeeps ==
    ASSUME SInv, NEW c \in Command, Invite(c) \/ Join(c)
    PROVE  SInv'
  <1> DEFINE n == RunsAt[c]
  <1>1. Apart /\ UNCHANGED <<mailbox, rssReady>>
    BY Zenon DEF Invite, Join, Apart
  <1>2. n \in Node /\ NoRecord \in SessionRecords /\ NoRecord.staged = {} /\ CopyOf(NoRecord, record[n])
    BY Zenon, Known, Copies
  <1>3. record[n].phase = "none"
    BY Zenon DEF Invite, Join
  <1>4. record[n].rev = 0 /\ record[n].staged = {}
    BY Zenon, <1>2, <1>3 DEF SInv, SessionOrder, Unsaved
  <1>5. PICK pc \in {"publish_offer", "publish_join"}, phase \in {"created", "join_staged"} :
          /\ Moves(c, pc, NoRecord)
          /\ record' = [record EXCEPT ![n] = [rev |-> 1, phase |-> phase, staged |-> {}]]
          /\ IF pc = "publish_offer" THEN n = Here ELSE n = There
    BY Zenon DEF Invite, Join
  <1>6. Save(n, phase, {})
    BY SMTT(30), <1>4, <1>5 DEF Save
  <1>7. MaySave(n, phase, {})
    BY Zenon, <1>4 DEF MaySave, RecordPhases, Stages
  <1>8. record'[n].rev = 1 /\ record'[n].staged = {}
    BY Zenon, <1>2, <1>5 DEF SInv, SessionTypes
  <1>9. CopyOf(NoRecord, record'[n])
    BY SMTT(30), <1>8 DEF CopyOf, NoRecord
  <1>10. HoldsAt(n, pc, NoRecord, record'[n], mailbox["approve"], Accepts(Here), Accepts(There), Waiting)
    BY Zenon, <1>2, <1>5, <1>9, TwoNodes DEF HoldsAt, BeforeStaging, AfterStaging, SourcePcs, TargetPcs
  <1>11. pc \in Pcs
    BY Zenon DEF Pcs, SourcePcs, TargetPcs
  <1> HIDE DEF n
  <1> QED
    BY ZenonT(30), <1>1, <1>2, <1>5, <1>6, <1>7, <1>10, <1>11, SaveKeeps DEF n

\* A command that reads its record and goes on with it
LEMMA ReadKeeps ==
    ASSUME SInv, NEW c \in Command, CompleteReads(c) \/ ApproveReads(c)
    PROVE  SInv'
  <1> DEFINE n == RunsAt[c]
             r == record[n]
  <1>1. Apart /\ UNCHANGED <<record, mailbox, rssReady>>
    BY Zenon DEF CompleteReads, ApproveReads, Apart
  <1>2. n \in Node /\ r \in SessionRecords /\ CopyOf(r, r)
    BY Zenon, Known, Copies
  <1>3. Here # There /\ (n # Here => n = There)
    BY SMTT(30), <1>2, TwoNodes, AdmissionAssumption
  <1>4. /\ CompleteReads(c) => n = There /\ mailbox["approve"] # {}
        /\ ApproveReads(c) => n = Here
    <2>1. command[c].pc = "complete" => n # Here
      BY Zenon, Known DEF HoldsAt, SourcePcs
    <2> QED
      BY Zenon, <1>3, <2>1 DEF CompleteReads, ApproveReads, At
  <1>5. PICK pc \in {"stage_complete", "stage_approve", "apply"} :
          /\ Moves(c, pc, r)
          /\ pc = "apply" => r.staged # {}
          /\ pc # "apply" => r.staged = {}
          /\ pc = "stage_complete" => n = There /\ mailbox["approve"] # {}
          /\ pc = "stage_approve" => n = Here
    BY Zenon, <1>4 DEF CompleteReads, ApproveReads
  <1> HIDE DEF r
  <1>6. HoldsAt(n, pc, r, r, mailbox["approve"], Accepts(Here), Accepts(There), Waiting)
    BY Zenon, <1>2, <1>3, <1>5 DEF HoldsAt, BeforeStaging, AfterStaging, SourcePcs, TargetPcs
  <1>7. pc \in Pcs
    BY Zenon DEF Pcs, SourcePcs, TargetPcs
  <1> QED
    BY ZenonT(30), <1>1, <1>2, <1>5, <1>6, <1>7, MoveKeeps DEF r

\* The decision is staged in the record that was read
LEMMA StageKeeps ==
    ASSUME SInv, NEW c \in Command, StageApprove(c) \/ StageComplete(c)
    PROVE  SInv'
  <1> DEFINE n == RunsAt[c]
             old == command[c].record
  <1>1. Apart /\ UNCHANGED <<mailbox, rssReady>>
    BY Zenon DEF StageApprove, StageComplete, Apart
  <1>2. /\ n \in Node /\ record[n] \in SessionRecords /\ old \in SessionRecords
        /\ CopyOf(old, record[n])
        /\ HoldsAt(n, command[c].pc, old, record[n], mailbox["approve"], Accepts(Here), Accepts(There), Waiting)
    BY Zenon, Known
  <1>3. Here # There /\ (n # Here => n = There)
    BY SMTT(30), <1>2, TwoNodes, AdmissionAssumption
  <1>4. PICK phase \in {"approval_staged", "completion_staged"}, staged \in Stages :
          /\ SaveOrEnd(c, [rev |-> old.rev, phase |-> phase, staged |-> staged], "apply")
          /\ staged # {} /\ old.staged = {}
          /\ phase = "approval_staged" => n = Here
          /\ phase = "completion_staged" => n = There /\ staged = mailbox["approve"]
    <2>1. CASE StageApprove(c)
      <3>1. n = Here /\ old.staged = {}
        BY Zenon, <1>2, <2>1 DEF StageApprove, At, HoldsAt, TargetPcs, BeforeStaging
      <3>2. {ApproveDecision(c)} \in Stages
        BY Zenon DEF Stages, Approvals
      <3> QED
        BY Zenon, <2>1, <3>1, <3>2 DEF StageApprove
    <2>2. CASE StageComplete(c)
      <3>1. n = There /\ old.staged = {} /\ mailbox["approve"] # {}
        BY Zenon, <1>2, <1>3, <2>2 DEF StageComplete, At, HoldsAt, SourcePcs, BeforeStaging
      <3>2. mailbox["approve"] \in Stages
        BY Zenon DEF SInv, SessionTypes
      <3> QED
        BY Zenon, <2>2, <3>1, <3>2 DEF StageComplete
    <2> QED
      BY Zenon, <2>1, <2>2
  <1>5. \/ old = record[n] /\ Save(n, phase, staged) /\ Moves(c, "apply", record'[n])
        \/ UNCHANGED record /\ Ends(c)
    BY Zenon, <1>2, <1>4, SavedIs
  <1>6. CASE UNCHANGED record /\ Ends(c)
    BY Zenon, <1>1, <1>6, EndKeeps
  <1>7. CASE old = record[n] /\ Save(n, phase, staged) /\ Moves(c, "apply", record'[n])
    <2>1. MaySave(n, phase, staged)
      <3>1. phase \in RecordPhases \ {"none"} /\ phase # "approved" /\ phase # "complete"
        BY Zenon, <1>4 DEF RecordPhases, OfferPhases, JoinPhases
      <3>2. record[n].staged = {} /\ (n = There => staged \subseteq mailbox["approve"])
        BY Zenon, <1>3, <1>4, <1>7
      <3> QED
        BY Zenon, <1>4, <3>1, <3>2 DEF MaySave
    <2>2. record'[n] \in SessionRecords /\ record'[n].staged = staged
      <3>. DEFINE saved == [rev |-> record[n].rev + 1, phase |-> phase, staged |-> staged]
      <3>1. record[n].rev \in Nat
        BY Zenon, <1>2 DEF SessionRecords
      <3>2. phase \in RecordPhases
        BY Zenon, <1>4 DEF RecordPhases, OfferPhases, JoinPhases
      <3>3. saved \in SessionRecords /\ saved.staged = staged
        BY SMTT(30), <3>1, <3>2 DEF SessionRecords
      <3>4. n \in DOMAIN record
        BY Zenon, <1>2 DEF SInv, SessionTypes
      <3>5. record'[n] = saved
        BY Zenon, <1>7, <3>4 DEF Save
      <3>. QED BY Zenon, <3>3, <3>5
    <2>3. CopyOf(record'[n], record'[n])
      BY Zenon, <1>2, <2>2, Copies
    <2>4. HoldsAt(n, "apply", record'[n], record'[n], mailbox["approve"], Accepts(Here), Accepts(There), Waiting)
      BY Zenon, <1>4, <2>2, <2>3 DEF HoldsAt, BeforeStaging, AfterStaging, SourcePcs, TargetPcs
    <2>5. "apply" \in Pcs
      BY Zenon DEF Pcs, SourcePcs
    <2> HIDE DEF n, old
    <2> QED
      BY ZenonT(30), <1>1, <1>2, <1>7, <2>1, <2>2, <2>4, <2>5, SaveKeeps DEF n
  <1> QED
    BY Zenon, <1>5, <1>6, <1>7

\* A frame is published
LEMMA PublishKeeps ==
    ASSUME SInv, NEW c \in Command, PublishOffer(c) \/ PublishJoin(c)
    PROVE  SInv'
  <1> DEFINE n == RunsAt[c]
             r == record[n]
  <1>1. Apart /\ UNCHANGED <<record, rssReady>>
    BY Zenon DEF PublishOffer, PublishJoin, Apart
  <1>2. /\ n \in Node /\ r \in SessionRecords /\ CopyOf(r, r)
        /\ HoldsAt(n, command[c].pc, command[c].record, r, mailbox["approve"], Accepts(Here), Accepts(There), Waiting)
    BY Zenon, Known, Copies
  <1>3. Here # There /\ (n # Here => n = There)
    BY SMTT(30), <1>2, TwoNodes, AdmissionAssumption
  <1>4. /\ PublishOffer(c) => n = Here
        /\ PublishJoin(c) => n = There
    BY Zenon, <1>2, <1>3 DEF PublishOffer, PublishJoin, At, HoldsAt, SourcePcs, TargetPcs
  <1>5. PICK pc \in {"save_offered", "save_joined"}, stage \in {"offer", "join"},
               frame \in {OfferRequest, JoinRequest} :
          /\ Moves(c, pc, r) /\ Stored(stage, frame)
          /\ IF pc = "save_offered" THEN n = Here ELSE n = There
    BY Zenon, <1>4 DEF PublishOffer, PublishJoin
  <1> HIDE DEF r
  <1>6. HoldsAt(n, pc, r, r, mailbox["approve"], Accepts(Here), Accepts(There), Waiting)
    BY Zenon, <1>2, <1>3, <1>5 DEF HoldsAt, BeforeStaging, AfterStaging, SourcePcs, TargetPcs
  <1>7. pc \in Pcs /\ stage \in Frames /\ stage # "approve" /\ stage # "complete"
    BY Zenon DEF Pcs, SourcePcs, TargetPcs, Frames
  <1> QED
    BY Zenon, <1>1, <1>2, <1>5, <1>6, <1>7, StoreKeeps DEF r

\* The staged decision is published, or acknowledged
LEMMA PutKeeps ==
    ASSUME SInv, NEW c \in Command, PutApprove(c) \/ PutComplete(c)
    PROVE  SInv'
  <1> DEFINE n == RunsAt[c]
             old == command[c].record
             frame == CHOOSE tx \in old.staged : TRUE
  <1>1. Apart /\ UNCHANGED <<record, rssReady>>
    BY ZenonT(30) DEF PutApprove, PutComplete, PutFrame, Apart
  <1>2. /\ n \in Node /\ record[n] \in SessionRecords /\ old \in SessionRecords
        /\ CopyOf(old, record[n])
        /\ HoldsAt(n, command[c].pc, old, record[n], mailbox["approve"], Accepts(Here), Accepts(There), Waiting)
    BY Zenon, Known
  <1>3. Here # There /\ (n # Here => n = There)
    BY <1>2, TwoNodes, AdmissionAssumption
  <1>4. CASE PutApprove(c)
    <2>1. /\ command[c].pc = "put_approve" /\ Stored("approve", frame) /\ Moves(c, "save_approved", old)
      BY Zenon, <1>4 DEF PutApprove, PutFrame, At
    <2>2. n = Here /\ old.staged # {} /\ Accepts(Here) # {}
      BY Zenon, <1>2, <2>1 DEF HoldsAt, TargetPcs, AfterStaging
    <2>3. frame \in record[Here].staged
      BY Zenon, <1>2, <2>2 DEF CopyOf
    <2> HIDE DEF frame, old
    <2>4. HoldsAt(n, "save_approved", old, record[n], mailbox["approve"], Accepts(Here), Accepts(There), Waiting)
      BY Zenon, <1>2, <2>2 DEF HoldsAt, BeforeStaging, AfterStaging, SourcePcs
    <2>5. "save_approved" \in Pcs /\ "approve" \in Frames
      BY Zenon DEF Pcs, SourcePcs, Frames
    <2> HIDE DEF n
    <2> QED
      BY ZenonT(30), <1>1, <1>2, <2>1, <2>2, <2>3, <2>4, <2>5, StoreKeeps DEF n
  <1>5. CASE PutComplete(c)
    <2>1. /\ command[c].pc = "put_complete" /\ Stored("complete", frame) /\ Moves(c, "save_complete", old)
      BY Zenon, <1>5 DEF PutComplete, PutFrame, At
    <2>2. n = There /\ old.staged # {} /\ Accepts(There) # {} /\ Waiting = {}
      BY Zenon, <1>2, <1>3, <2>1 DEF HoldsAt, SourcePcs, AfterStaging
    <2>3. frame \in record[There].staged
      BY Zenon, <1>2, <2>2 DEF CopyOf
    <2> HIDE DEF frame, old
    <2>4. HoldsAt(n, "save_complete", old, record[n], mailbox["approve"], Accepts(Here), Accepts(There), Waiting)
      BY Zenon, <1>2, <1>3, <2>2 DEF HoldsAt, BeforeStaging, AfterStaging, TargetPcs
    <2>5. "save_complete" \in Pcs /\ "complete" \in Frames
      BY Zenon DEF Pcs, TargetPcs, Frames
    <2> HIDE DEF n
    <2> QED
      BY Zenon, <1>1, <1>2, <2>1, <2>2, <2>3, <2>4, <2>5, StoreKeeps DEF n
  <1> QED
    BY Zenon, <1>4, <1>5

\* The source reads the acknowledgment and closes the session
LEMMA ConfirmKeeps ==
    ASSUME SInv, NEW c \in Command, Confirm(c)
    PROVE  SInv'
  <1> DEFINE n == RunsAt[c]
             r == record[n]
  <1>1. Apart /\ UNCHANGED <<mailbox, rssReady>>
    BY Zenon DEF Confirm, Apart
  <1>2. /\ n \in Node /\ r \in SessionRecords /\ CopyOf(r, r)
        /\ HoldsAt(n, command[c].pc, command[c].record, r, mailbox["approve"], Accepts(Here), Accepts(There), Waiting)
    BY Zenon, Known, Copies
  <1>3. n = Here
    BY Zenon, <1>2 DEF Confirm, At, HoldsAt, TargetPcs
  <1>4. mailbox["complete"] = r.staged /\ r.phase \in {"approved", "complete"}
    BY Zenon, <1>3 DEF Confirm
  <1>5. r.staged # {}
    BY Zenon, <1>3, <1>4 DEF SInv, SessionOrder
  <1>6. Accepts(There) # {} /\ Waiting = {}
    BY Zenon, <1>4, <1>5 DEF SInv, SessionOrder
  <1>7. CASE Ends(c) /\ UNCHANGED record
    BY Zenon, <1>1, <1>7, EndKeeps
  <1>8. CASE SaveOrEnd(c, [record[Here] EXCEPT !.phase = "complete"], "idle")
    <2>1. SaveOrEnd(c, [rev |-> r.rev, phase |-> "complete", staged |-> r.staged], "idle")
      BY Zenon, <1>2, <1>3, <1>8, RecordUpdate
    <2>2. \/ Save(n, "complete", r.staged) /\ Moves(c, "idle", record'[n])
          \/ UNCHANGED record /\ Ends(c)
      BY Zenon, <1>2, <2>1, SavedIs
    <2>3. CASE UNCHANGED record /\ Ends(c)
      BY Zenon, <1>1, <2>3, EndKeeps
    <2>4. CASE Save(n, "complete", r.staged) /\ Moves(c, "idle", record'[n])
      <3>1. r.staged \in Stages
        BY Zenon, <1>2, RecordUpdate
      <3>2. MaySave(n, "complete", r.staged)
        BY Zenon, <1>3, <1>5, <1>6, <3>1, TwoNodes DEF MaySave, RecordPhases, OfferPhases
      <3>3. record'[n] \in SessionRecords
        BY SMTT(30), <1>2, <2>4, <3>1 DEF Save, SInv, SessionTypes, SessionRecords, RecordPhases, OfferPhases
      <3>4. CopyOf(record'[n], record'[n])
        BY Zenon, <1>2, <3>3, Copies
      <3>5. HoldsAt(n, "idle", record'[n], record'[n], mailbox["approve"], Accepts(Here), Accepts(There), Waiting)
        BY Zenon, <3>4 DEF HoldsAt, BeforeStaging, AfterStaging
      <3>6. "idle" \in Pcs
        BY Zenon DEF Pcs
      <3> HIDE DEF n, r
      <3> QED
        BY ZenonT(30), <1>1, <1>2, <2>4, <3>2, <3>3, <3>5, <3>6, SaveKeeps DEF n
    <2> QED
      BY Zenon, <2>2, <2>3, <2>4
  <1> QED
    BY Zenon, <1>3, <1>7, <1>8 DEF Confirm

\* The target's relay profile is configured
LEMMA ConfigureKeeps ==
    ASSUME SInv, NEW c \in Command, ConfigureTarget(c)
    PROVE  SInv'
  <1> DEFINE n == RunsAt[c]
             old == command[c].record
  <1>1. Apart /\ UNCHANGED <<record, mailbox>> /\ Moves(c, "put_complete", old)
    BY Zenon DEF ConfigureTarget, Apart
  <1>2. Waiting' = {}
    BY Zenon DEF ConfigureTarget, Waiting
  <1>3. /\ old \in SessionRecords /\ command[c].pc = "configure"
        /\ HoldsAt(n, "configure", old, record[n], mailbox["approve"], Accepts(Here), Accepts(There), Waiting)
    BY Zenon, Known DEF ConfigureTarget, At
  <1>4. n # Here
    BY Zenon, <1>3 DEF HoldsAt, SourcePcs
  <1> HIDE DEF old, n
  <1>5. HoldsAt(n, "put_complete", old, record[n], mailbox["approve"], Accepts(Here), Accepts(There), Waiting')
    BY Zenon, <1>2, <1>3, <1>4 DEF HoldsAt, BeforeStaging, AfterStaging, TargetPcs
  <1>6. "put_complete" \in Pcs
    BY Zenon DEF Pcs, TargetPcs
  <1> QED
    BY Zenon, <1>1, <1>2, <1>3, <1>5, <1>6, ReadyKeeps DEF n

\* Every step of a command but the one that applies the admission leaves the
\* registries alone and keeps the session in order
LEMMA SessionStepKeeps ==
    ASSUME SInv, NEW c \in Command,
           \/ Invite(c) \/ OperatorResumes(c) \/ Interrupt(c)
           \/ CommandStep(c) /\ ~ApplyAdmission(c)
    PROVE  SInv' /\ UNCHANGED admissionVars
  <1>1. CASE Invite(c) \/ Join(c)
    BY Zenon, <1>1, CreateKeeps DEF Invite, Join
  <1>2. CASE ResumeInvite(c) \/ ResumeJoin(c)
    BY Zenon, <1>2, StartKeeps DEF ResumeInvite, ResumeJoin
  <1>3. CASE CompleteReads(c) \/ ApproveReads(c)
    BY Zenon, <1>3, ReadKeeps DEF CompleteReads, ApproveReads
  <1>4. CASE StageApprove(c) \/ StageComplete(c)
    BY Zenon, <1>4, StageKeeps DEF StageApprove, StageComplete
  <1>5. CASE PublishOffer(c) \/ PublishJoin(c)
    BY Zenon, <1>5, PublishKeeps DEF PublishOffer, PublishJoin
  <1>6. CASE PutApprove(c) \/ PutComplete(c)
    BY Zenon, <1>6, PutKeeps DEF PutApprove, PutComplete, PutFrame
  <1>7. CASE Confirm(c)
    BY Zenon, <1>7, ConfirmKeeps DEF Confirm
  <1>8. CASE ConfigureTarget(c)
    BY Zenon, <1>8, ConfigureKeeps DEF ConfigureTarget
  <1>9. CASE SaveOffered(c) \/ SaveJoined(c) \/ SaveComplete(c) \/ SaveApproved(c)
    BY Zenon, <1>9, SavesPhase DEF SaveOffered, SaveJoined, SaveComplete, SaveApproved, SavePhase
  <1>10. CASE CommandFails(c) \/ Interrupt(c)
    <2>1. Apart /\ UNCHANGED <<record, mailbox, rssReady>> /\ Ends(c)
      BY Zenon, <1>10 DEF CommandFails, Interrupt, Apart
    <2> QED
      BY Zenon, <2>1, EndKeeps DEF Apart
  <1> QED
    BY ZenonT(30), <1>1, <1>2, <1>3, <1>4, <1>5, <1>6, <1>7, <1>8, <1>9, <1>10 DEF OperatorResumes, CommandStep

-----------------------------------------------------------------------------
(* Applying the admission                                                  *)

\* What is known of a registry row and a history together
StoreOK(n, row, h) ==
    /\ row \in RegistryRows /\ IsSeq(h) /\ \A i \in DOMAIN h : h[i].node \in Node
    /\ RowShape(row) /\ GroupsAccepted(row, h, n) /\ GrantedBy(row, h, n) /\ DecidedOnce(row, h, n)
    /\ ReplayInv(row, h, n)

\* g goes on from h with transactions of T
GoesOn(h, g, T) ==
    /\ \A i \in DOMAIN h : i \in DOMAIN g /\ g[i] = h[i]
    /\ \A i \in DOMAIN g : i \in DOMAIN h \/ g[i] \in T

Has(h, tx) == \E i \in DOMAIN h : h[i] = tx

\* A submission that is accepted keeps a store in order
LEMMA StoreSubmits ==
    ASSUME NumbersHaveFirst, NEW n \in Node, NEW row, NEW h, NEW tx, NEW policy, StoreOK(n, row, h),
           Legal(n, tx, policy), policy = "local" => Projects(row, tx)
    PROVE  /\ StoreOK(n, RowAfter(n, row, tx, policy), Append(h, tx))
           /\ GoesOn(h, Append(h, tx), {tx}) /\ Has(Append(h, tx), tx)
  <1> DEFINE g == Append(h, tx)
             next == RowAfter(n, row, tx, policy)
  <1>1. row \in RegistryRows /\ IsSeq(h) /\ \A i \in DOMAIN h : h[i].node \in Node
    BY Zenon DEF StoreOK
  <1>2. /\ IsSeq(g) /\ Len(h) \in Nat /\ DOMAIN h = 1..Len(h) /\ DOMAIN g = 1..(Len(h) + 1)
        /\ (\A i \in DOMAIN h : g[i] = h[i]) /\ g[Len(h) + 1] = tx
    BY SMTT(30), <1>1, Appended
  <1>3. next \in RegistryRows
    BY Zenon, <1>1, RowAfterType
  <1>4. /\ RowShape(next) /\ GroupsAccepted(next, g, n)
        /\ GrantedBy(next, g, n) /\ DecidedOnce(next, g, n)
    BY Zenon, <1>1, SubmissionKeeps DEF StoreOK
  <1>5. ReplayInv(next, g, n)
    <2>1. CASE policy = "local"
      <3>1. next = Projected(row, tx) /\ Projects(row, tx)
        BY Zenon, <2>1 DEF RowAfter
      <3>2. tx.type \in {"request", "revoke"} \cup Decision /\ (tx.type = "request" => tx.origin # n)
        BY Zenon, <2>1 DEF Legal, Decision
      <3>3. ReplayInv(row, h, n)
        BY Zenon DEF StoreOK
      <3> QED
        BY Zenon, <1>1, <3>1, <3>2, <3>3, ReplayKept
    <2>2. CASE policy # "local"
      <3>1. tx.node = n
        BY Zenon, <2>2 DEF Legal
      <3>2. Len(h) + 1 \in DOMAIN g /\ g[Len(h) + 1] = tx
        BY SMTT(30), <1>2
      <3> HIDE DEF g, next
      <3> QED
        BY Zenon, <3>1, <3>2 DEF ReplayInv
    <2> QED
      BY Zenon, <2>1, <2>2
  <1> HIDE DEF g, next
  <1>6. \A i \in DOMAIN g : i \in DOMAIN h \/ g[i] = tx
    BY SMTT(30), <1>2
  <1>7. DOMAIN h \subseteq DOMAIN g /\ Len(h) + 1 \in DOMAIN g
    BY SMTT(30), <1>2
  <1>8. \A i \in DOMAIN g : g[i].node \in Node
    BY Zenon, <1>1, <1>2, <1>6 DEF Legal
  <1>9. StoreOK(n, next, g)
    BY Zenon, <1>2, <1>3, <1>4, <1>5, <1>8 DEF StoreOK
  <1>10. GoesOn(h, g, {tx}) /\ Has(g, tx)
    BY Zenon, <1>2, <1>6, <1>7 DEF GoesOn, Has
  <1> QED
    BY Zenon, <1>9, <1>10 DEF g, next

\* One proof of the invitation: recorded already, or submitted
LEMMA SubmitNextKeeps ==
    ASSUME NumbersHaveFirst, NEW n \in Node, NEW seen, NEW proof, seen.ok => StoreOK(n, seen.row, seen.log),
           Legal(n, proof.tx, proof.policy), SubmitNext(n, seen, proof).ok
    PROVE  LET next == SubmitNext(n, seen, proof)
           IN  /\ seen.ok /\ StoreOK(n, next.row, next.log)
               /\ GoesOn(seen.log, next.log, {proof.tx}) /\ Has(next.log, proof.tx)
  <1> DEFINE next == SubmitNext(n, seen, proof)
  <1>1. CASE ~seen.ok \/ Has(seen.log, proof.tx)
    <2>1. next = seen
      BY Zenon, <1>1 DEF SubmitNext, Has
    <2>2. GoesOn(seen.log, seen.log, {proof.tx})
      BY Zenon DEF GoesOn
    <2> QED
      BY Zenon, <1>1, <2>1, <2>2
  <1>2. CASE seen.ok /\ ~Has(seen.log, proof.tx)
    <2> DEFINE fits == proof.policy = "local" => Projects(seen.row, proof.tx)
    <2>1. next = [ok  |-> fits, row |-> RowAfter(n, seen.row, proof.tx, proof.policy),
                  log |-> Append(seen.log, proof.tx)]
      BY Zenon, <1>2 DEF SubmitNext, Has
    <2> HIDE DEF fits
    <2>2. /\ next.row = RowAfter(n, seen.row, proof.tx, proof.policy)
          /\ next.log = Append(seen.log, proof.tx)
          /\ next.ok = fits
      BY <2>1
    <2>3. proof.policy = "local" => Projects(seen.row, proof.tx)
      BY Zenon, <2>2 DEF fits
    <2>4. StoreOK(n, seen.row, seen.log)
      BY Zenon, <1>2
    <2> QED
      BY Zenon, <1>2, <2>2, <2>3, <2>4, StoreSubmits
  <1> QED
    BY Zenon, <1>1, <1>2

\* Histories that go on twice
LEMMA GoesOnTwice ==
    ASSUME NEW h, NEW g, NEW k, NEW S, NEW T, GoesOn(h, g, S), GoesOn(g, k, T)
    PROVE  GoesOn(h, k, S \cup T)
  BY Zenon DEF GoesOn

LEMMA HasStill ==
    ASSUME NEW g, NEW k, NEW T, NEW tx, GoesOn(g, k, T), Has(g, tx)
    PROVE  Has(k, tx)
  BY Zenon DEF GoesOn, Has

\* The proofs of the session, as the admission module sees them
LEMMA SessionProofs ==
    ASSUME NEW approval \in Approvals
    PROVE  /\ OfferRequest.type = "request" /\ OfferRequest.origin = Here /\ OfferRequest.node = Here
           /\ JoinRequest.type = "request" /\ JoinRequest.origin = There /\ JoinRequest.node = There
           /\ JoinDecision.type = "accept" /\ JoinDecision.origin = There /\ JoinDecision.node = Here
           /\ JoinDecision.scope = PairScope /\ JoinDecision.id = -1
           /\ approval.type = "accept" /\ approval.origin = Here /\ approval.node = There
           /\ approval.scope = PairScope /\ approval.id < 0
           /\ PairScope \in Scopes
  <1>1. PairScope \in Scopes
    <2>1. {PairGroup} \in (SUBSET Group) \ {{}}
      BY Zenon, AdmissionAssumption
    <2> QED
      BY Zenon, <2>1 DEF PairScope, Scopes
  <1>2. PICK c \in Command : approval = ApproveDecision(c)
    BY Zenon DEF Approvals
  <1>3. c \in Nat \ {0}
    BY Zenon, InvitationAssumption
  <1>4. -c < 0
    BY SMTT(30), <1>3
  <1> QED
    BY Zenon, <1>1, <1>2, <1>4 DEF OfferRequest, JoinRequest, JoinDecision, ApproveDecision, RequestProof, DecisionProof

\* The session's own transactions
Of(approval) == {OfferRequest, JoinRequest, JoinDecision, approval}

LEMMA ProofsAre ==
    ASSUME NEW n \in Node, NEW held, NEW approval \in Approvals, held.staged = {approval},
           NEW k \in 1..4
    PROVE  /\ Legal(n, Proofs(n, held)[k].tx, Proofs(n, held)[k].policy)
           /\ Proofs(n, held)[k].tx \in Of(approval)
           /\ k = 3 => Proofs(n, held)[k].tx = IF n = Here THEN approval ELSE JoinDecision
  <1>1. (CHOOSE tx \in held.staged : TRUE) = approval
    BY Zenon
  <1>2. Here # There /\ Here \in Node /\ There \in Node /\ (n # Here => n = There)
    BY ZenonT(30), TwoNodes, AdmissionAssumption
  <1>3. k = 1 \/ k = 2 \/ k = 3 \/ k = 4
    BY SMTT(30)
  <1>4. CASE n = Here
    <2>1. Proofs(n, held) =
            <<[tx |-> OfferRequest, policy |-> "outbound_request"], [tx |-> JoinRequest, policy |-> "local"],
              [tx |-> approval, policy |-> "local"], [tx |-> JoinDecision, policy |-> "inbound_decision"]>>
      BY Zenon, <1>1, <1>4 DEF Proofs
    <2> QED
      <3>1. Legal(n, OfferRequest, "outbound_request") /\ Legal(n, JoinRequest, "local")
        BY Zenon, <1>2, <1>4, SessionProofs DEF Legal
      <3>4. Legal(n, approval, "local") /\ Legal(n, JoinDecision, "inbound_decision")
        BY Zenon, <1>2, <1>4, SessionProofs DEF Legal, Decision
      <3>2. {OfferRequest, JoinRequest, approval, JoinDecision} \subseteq Of(approval)
        BY Zenon DEF Of
      <3>3. /\ Proofs(n, held)[1].tx = OfferRequest /\ Proofs(n, held)[1].policy = "outbound_request"
            /\ Proofs(n, held)[2].tx = JoinRequest /\ Proofs(n, held)[2].policy = "local"
            /\ Proofs(n, held)[3].tx = approval /\ Proofs(n, held)[3].policy = "local"
            /\ Proofs(n, held)[4].tx = JoinDecision /\ Proofs(n, held)[4].policy = "inbound_decision"
        BY SMTT(30), <2>1
      <3>. QED BY ZenonT(30), <1>3, <1>4, <3>1, <3>2, <3>3, <3>4
  <1>5. CASE n # Here
    <2>1. Proofs(n, held) =
            <<[tx |-> JoinRequest, policy |-> "outbound_request"], [tx |-> OfferRequest, policy |-> "local"],
              [tx |-> JoinDecision, policy |-> "local"], [tx |-> approval, policy |-> "inbound_decision"]>>
      BY Zenon, <1>1, <1>5 DEF Proofs
    <2> QED
      <3>1. Legal(n, JoinRequest, "outbound_request") /\ Legal(n, OfferRequest, "local")
        BY Zenon, <1>2, <1>5, SessionProofs DEF Legal
      <3>4. Legal(n, JoinDecision, "local") /\ Legal(n, approval, "inbound_decision")
        BY Zenon, <1>2, <1>5, SessionProofs DEF Legal, Decision
      <3>2. {JoinRequest, OfferRequest, JoinDecision, approval} \subseteq Of(approval)
        BY Zenon DEF Of
      <3>3. /\ Proofs(n, held)[1].tx = JoinRequest /\ Proofs(n, held)[1].policy = "outbound_request"
            /\ Proofs(n, held)[2].tx = OfferRequest /\ Proofs(n, held)[2].policy = "local"
            /\ Proofs(n, held)[3].tx = JoinDecision /\ Proofs(n, held)[3].policy = "local"
            /\ Proofs(n, held)[4].tx = approval /\ Proofs(n, held)[4].policy = "inbound_decision"
        BY <2>1
      <3>. QED BY Zenon, <1>3, <1>5, <3>1, <3>2, <3>3, <3>4
  <1> QED
    BY Zenon, <1>4, <1>5

\* apply_invitation_admission, when no proof is refused
LEMMA OutcomeKeeps ==
    ASSUME NumbersHaveFirst, NEW n \in Node, NEW held, NEW approval \in Approvals, held.staged = {approval},
           StoreOK(n, registry[n], history[n]), Outcome(n, held).ok
    PROVE  /\ StoreOK(n, Outcome(n, held).row, Outcome(n, held).log)
           /\ GoesOn(history[n], Outcome(n, held).log, Of(approval))
           /\ Has(Outcome(n, held).log, IF n = Here THEN approval ELSE JoinDecision)
  <1> DEFINE p(k) == Proofs(n, held)[k]
             none == [ok |-> TRUE, row |-> registry[n], log |-> history[n]]
             one == SubmitNext(n, none, p(1))
             two == SubmitNext(n, one, p(2))
             three == SubmitNext(n, two, p(3))
             four == SubmitNext(n, three, p(4))
             T == Of(approval)
  <1>1. Outcome(n, held) = four
    BY Zenon DEF Outcome
  <1>2. \A k \in 1..4 : Legal(n, p(k).tx, p(k).policy) /\ p(k).tx \in T
    BY Zenon, ProofsAre
  <1>3. p(3).tx = IF n = Here THEN approval ELSE JoinDecision
    BY SMTT(30), ProofsAre
  <1>4. 1 \in 1..4 /\ 2 \in 1..4 /\ 3 \in 1..4 /\ 4 \in 1..4
    BY SMTT(30)
  <1>5. none.ok /\ StoreOK(n, none.row, none.log) /\ none.log = history[n]
    BY Zenon
  <1> HIDE DEF none, p, T
  <1>6. one.ok => StoreOK(n, one.row, one.log) /\ GoesOn(history[n], one.log, {p(1).tx})
    BY Zenon, <1>2, <1>4, <1>5, SubmitNextKeeps
  <1> HIDE DEF one
  <1>7. two.ok => one.ok /\ StoreOK(n, two.row, two.log) /\ GoesOn(one.log, two.log, {p(2).tx})
    BY Zenon, <1>2, <1>4, <1>6, SubmitNextKeeps
  <1> HIDE DEF two
  <1>8. three.ok => /\ two.ok /\ StoreOK(n, three.row, three.log)
                    /\ GoesOn(two.log, three.log, {p(3).tx}) /\ Has(three.log, p(3).tx)
    BY Zenon, <1>2, <1>4, <1>7, SubmitNextKeeps
  <1> HIDE DEF three
  <1>9. four.ok => /\ three.ok /\ StoreOK(n, four.row, four.log) /\ GoesOn(three.log, four.log, {p(4).tx})
    BY Zenon, <1>2, <1>4, <1>8, SubmitNextKeeps
  <1> HIDE DEF four
  <1>10. one.ok /\ two.ok /\ three.ok /\ four.ok
    BY Zenon, <1>1, <1>7, <1>8, <1>9
  <1>11. Has(four.log, p(3).tx)
    BY Zenon, <1>8, <1>9, <1>10, HasStill
  <1>12. GoesOn(history[n], four.log, (({p(1).tx} \cup {p(2).tx}) \cup {p(3).tx}) \cup {p(4).tx})
    <2>1. GoesOn(history[n], two.log, {p(1).tx} \cup {p(2).tx})
      BY Zenon, <1>6, <1>7, <1>10, GoesOnTwice
    <2>2. GoesOn(history[n], three.log, ({p(1).tx} \cup {p(2).tx}) \cup {p(3).tx})
      BY Zenon, <1>8, <1>10, <2>1, GoesOnTwice
    <2> QED
      BY Zenon, <1>9, <1>10, <2>2, GoesOnTwice
  <1>13. GoesOn(history[n], four.log, T)
    BY Zenon, <1>2, <1>4, <1>12 DEF GoesOn
  <1> QED
    BY Zenon, <1>1, <1>3, <1>9, <1>10, <1>11, <1>13 DEF T

-----------------------------------------------------------------------------
(* Steps that add to the histories                                         *)

\* What is known of the whole state
IInv == AInv /\ (\A n \in Node : ReplayInv(registry[n], history[n], n)) /\ SInv

\* Acceptances that are recorded stay recorded
LEMMA AcceptsStay ==
    ASSUME NEW n, \A i \in DOMAIN history[n] : i \in DOMAIN history'[n] /\ history'[n][i] = history[n][i]
    PROVE  Accepts(n) \subseteq Accepts(n)'
  BY Zenon DEF Accepts

\* The session stays in order when the histories grow by what belongs to it, or
\* by what commands outside it signed
LEMMA GrowthKeeps ==
    ASSUME SInv, Signed', UNCHANGED <<record, mailbox, include_rss, rssReady, pair>>,
           minted' \in [Node -> [request : Nat, decision : Nat, revoke : Nat]],
           \A n \in Node : \A i \in DOMAIN history[n] :
               i \in DOMAIN history'[n] /\ history'[n][i] = history[n][i],
           \A n \in Node : \A i \in DOMAIN history'[n] :
               i \in DOMAIN history[n] \/ OfSession(history'[n][i], record[Here].staged, Accepts(Here)'),
           \/ UNCHANGED command
           \/ \E c \in Command, pc \in Pcs, held \in SessionRecords :
                  Moves(c, pc, held) /\ Arrives(c, pc, held)
    PROVE  SInv'
  <1>1. SessionTypes /\ SessionOrder /\ SessionHistory /\ \A c \in Command : CommandOK(c)
    BY Zenon DEF SInv
  <1>2. Here \in Node /\ There \in Node
    BY Zenon, TwoNodes
  <1>3. \A n \in Node : Accepts(n) \subseteq Accepts(n)'
    BY Zenon, AcceptsStay
  <1>4. \A n \in Node : Accepts(n) # {} => Accepts(n)' # {}
    BY Zenon, <1>3
  <1>5. Waiting' = Waiting
    BY Zenon DEF Waiting
  <1>6. Forward
    BY Zenon, <1>4, <1>5 DEF Forward
  <1>7. record' \in [Node -> SessionRecords]
    BY Zenon, <1>1 DEF SessionTypes
  <1>8. /\ command' \in [Command -> [pc : Pcs, record : SessionRecords]]
        /\ \A d \in Command : CommandOK(d)'
    <2>1. CASE UNCHANGED command
      <3>1. ASSUME NEW d \in Command
            PROVE  HoldsAt(RunsAt[d], command[d].pc, command[d].record, record[RunsAt[d]],
                           mailbox["approve"], Accepts(Here)', Accepts(There)', Waiting)
        <4>1. /\ command[d].record \in SessionRecords /\ record[RunsAt[d]] \in SessionRecords
              /\ HoldsAt(RunsAt[d], command[d].pc, command[d].record, record[RunsAt[d]],
                         mailbox["approve"], Accepts(Here), Accepts(There), Waiting)
          BY Zenon, Known
        <4>2. /\ Accepts(Here) # {} => Accepts(Here)' # {}
              /\ Accepts(There) # {} => Accepts(There)' # {}
          BY Zenon, <1>2, <1>4
        <4> QED
          BY Zenon, <4>1, <4>2 DEF HoldsAt
      <3> QED
        BY Zenon, <1>1, <1>5, <2>1, <3>1 DEF CommandOK, SessionTypes
    <2>2. ASSUME NEW c \in Command, NEW pc \in Pcs, NEW held \in SessionRecords,
                 Moves(c, pc, held), Arrives(c, pc, held)
          PROVE  /\ command' \in [Command -> [pc : Pcs, record : SessionRecords]]
                 /\ \A d \in Command : CommandOK(d)'
      BY Zenon, <1>6, <1>7, <2>2, CommandsKept
    <2> QED
      BY Zenon, <2>1, <2>2
  <1>9. SessionTypes'
    BY Zenon, <1>1, <1>8 DEF SessionTypes
  <1>10. SessionOrder'
    BY Zenon, <1>1, <1>2, <1>4, <1>5 DEF SessionOrder
  <1>11. ASSUME NEW n \in Node, NEW i \in DOMAIN history'[n]
         PROVE  OfSession(history'[n][i], record[Here].staged, Accepts(Here)')
    <2>1. CASE i \in DOMAIN history[n]
      <3>1. OfSession(history[n][i], record[Here].staged, Accepts(Here)) /\ history'[n][i] = history[n][i]
        BY Zenon, <1>1, <2>1 DEF SessionHistory
      <3> QED
        BY Zenon, <1>2, <1>4, <3>1 DEF OfSession
    <2> QED
      BY Zenon, <2>1
  <1>12. SessionHistory'
    BY Zenon, <1>11 DEF SessionHistory, OfSession, JoinDecision, OfferRequest
  <1> QED
    BY Zenon, <1>8, <1>9, <1>10, <1>12 DEF SInv

\* What the two sides have recorded when a command applies the admission
LEMMA Admits ==
    ASSUME SInv, NEW c \in Command, At(c, "apply")
    PROVE  \E approval \in Approvals :
               /\ command[c].record.staged = {approval}
               /\ approval \in record[Here].staged
               /\ RunsAt[c] # Here => Accepts(Here) # {}
  <1> DEFINE n == RunsAt[c]
             old == command[c].record
  <1>1. /\ n \in Node /\ old \in SessionRecords /\ CopyOf(old, record[n])
        /\ HoldsAt(n, command[c].pc, old, record[n], mailbox["approve"], Accepts(Here), Accepts(There), Waiting)
    BY Zenon, Known
  <1>2. old.staged # {} /\ old.staged \in Stages /\ old.staged \subseteq record[n].staged
    BY Zenon, <1>1 DEF At, HoldsAt, AfterStaging, SessionRecords, CopyOf
  <1>3. PICK approval \in Approvals : old.staged = {approval}
    BY Zenon, <1>2 DEF Stages
  <1>4. n # Here => n = There
    BY SMTT(60), <1>1, TwoNodes, AdmissionAssumption
  <1>5. SessionOrder
    BY Zenon DEF SInv
  <1>6. approval \in record[Here].staged /\ (n # Here => Accepts(Here) # {})
    BY Zenon, <1>2, <1>3, <1>4, <1>5 DEF SessionOrder
  <1> QED
    BY Zenon, <1>3, <1>6

\* Where a command is once the admission is applied
LEMMA AppliedHolds ==
    ASSUME SInv, NEW c \in Command, At(c, "apply"), NEW here, NEW there,
           RunsAt[c] = Here => here # {}, RunsAt[c] # Here => there # {}
    PROVE  /\ AfterApply(RunsAt[c]) \in Pcs
           /\ HoldsAt(RunsAt[c], AfterApply(RunsAt[c]), command[c].record, record[RunsAt[c]],
                      mailbox["approve"], here, there, Waiting)
  <1> DEFINE n == RunsAt[c]
             old == command[c].record
  <1>1. HoldsAt(n, "apply", old, record[n], mailbox["approve"], Accepts(Here), Accepts(There), Waiting)
    BY Zenon, Known DEF At
  <1>2. CopyOf(old, record[n]) /\ old.staged # {}
    BY Zenon, <1>1 DEF HoldsAt, AfterStaging
  <1> HIDE DEF old, n
  <1>3. /\ AfterApply(n) \in Pcs
        /\ (n = Here => here # {}) /\ (n # Here => there # {})
        => HoldsAt(n, AfterApply(n), old, record[n], mailbox["approve"], here, there, Waiting)
    BY Zenon, <1>2 DEF AfterApply, HoldsAt, BeforeStaging, AfterStaging, SourcePcs, TargetPcs
  <1>4. AfterApply(n) \in Pcs
    BY Zenon DEF AfterApply, Pcs, SourcePcs, TargetPcs
  <1> QED
    BY Zenon, <1>3, <1>4 DEF n, old

\* Applying the admission of an invitation
LEMMA ApplyKeeps ==
    ASSUME NumbersHaveFirst, IInv, NEW c \in Command, ApplyAdmission(c)
    PROVE  IInv'
  <1> DEFINE n == RunsAt[c]
             old == command[c].record
             result == Outcome(n, old)
  <1>0. SInv /\ AInv /\ At(c, "apply") /\ \A m \in Node : ReplayInv(registry[m], history[m], m)
    BY Zenon DEF IInv, ApplyAdmission
  <1>1. n \in Node /\ old \in SessionRecords
    BY Zenon, <1>0, Known
  <1>2. PICK approval \in Approvals :
          old.staged = {approval} /\ approval \in record[Here].staged /\ (n # Here => Accepts(Here) # {})
    BY Zenon, <1>0, Admits
  <1>3. UNCHANGED <<inHand, deciding, minted, pair, record, mailbox, include_rss, rssReady>>
    BY Zenon DEF ApplyAdmission
  <1>4. /\ \A m \in Node : StoreOK(m, registry[m], history[m])
        /\ registry \in [Node -> RegistryRows] /\ DOMAIN history = Node
    <2>1. Stores /\ \A m \in Node : RowInv(m)
      BY Zenon, <1>0 DEF AInv
    <2> QED
      BY Zenon, <1>0, <2>1 DEF Stores, RowInv, StoreOK
  <1>5. CASE /\ UNCHANGED <<registry, history>>
             /\ Ends(c) \/ (Moves(c, AfterApply(n), old) /\ Retained(registry[n]))
    <2>1. Apart /\ UNCHANGED admissionVars
      BY Zenon, <1>3, <1>5 DEF Apart, admissionVars
    <2>2. AInv' /\ \A m \in Node : ReplayInv(registry'[m], history'[m], m)
      BY Zenon, <1>0, <1>5, <2>1, AdmissionStep
    <2>3. SInv'
      <3>1. CASE Ends(c)
        BY Zenon, <1>0, <1>3, <2>1, <3>1, EndKeeps
      <3>2. CASE Moves(c, AfterApply(n), old) /\ Retained(registry[n])
        <4>1. Accepts(n) # {}
          <5>1. registry[n].state = "active" /\ registry[n].mode # "none"
            BY Zenon, <3>2 DEF Retained, EligibleFor, SynchronizationEligible
          <5>2. GrantedBy(registry[n], history[n], n)
            BY Zenon, <1>1, <1>4 DEF StoreOK
          <5> QED
            BY Zenon, <5>1, <5>2 DEF GrantedBy, Accepts
        <4>2. (n = Here => Accepts(Here) # {}) /\ (n # Here => Accepts(There) # {})
          BY SMTT(30), <1>1, <4>1, TwoNodes, AdmissionAssumption
        <4>3. /\ AfterApply(n) \in Pcs
              /\ HoldsAt(n, AfterApply(n), old, record[n], mailbox["approve"], Accepts(Here), Accepts(There), Waiting)
          BY Zenon, <1>0, <4>2, AppliedHolds
        <4> HIDE DEF n, old
        <4> QED
          BY Zenon, <1>0, <1>1, <1>3, <2>1, <3>2, <4>3, MoveKeeps DEF n
      <3> QED
        BY Zenon, <1>5, <3>1, <3>2
    <2> QED
      BY Zenon, <2>2, <2>3 DEF IInv
  <1>6. CASE /\ result.ok
             /\ registry' = [registry EXCEPT ![n] = result.row]
             /\ history' = [history EXCEPT ![n] = result.log]
             /\ Moves(c, AfterApply(n), old)
    <2>1. /\ StoreOK(n, result.row, result.log)
          /\ GoesOn(history[n], result.log, Of(approval))
          /\ Has(result.log, IF n = Here THEN approval ELSE JoinDecision)
      BY Zenon, <1>1, <1>2, <1>4, <1>6, OutcomeKeeps
    <2>2. result.row \in RegistryRows
      BY Zenon, <2>1 DEF StoreOK
    <2> HIDE DEF result
    <2>3. /\ registry' \in [Node -> RegistryRows] /\ DOMAIN history' = Node
          /\ registry'[n] = result.row /\ history'[n] = result.log
          /\ \A m \in Node \ {n} : registry'[m] = registry[m] /\ history'[m] = history[m]
      BY Zenon, <1>1, <1>4, <1>6, <2>2
    <2>4. \A m \in Node : StoreOK(m, registry'[m], history'[m])
      BY Zenon, <1>4, <2>1, <2>3
    <2>5. /\ Stores' /\ (\A m \in Node : RowInv(m)')
          /\ \A m \in Node : ReplayInv(registry'[m], history'[m], m)
      BY Zenon, <2>3, <2>4 DEF Stores, RowInv, StoreOK
    <2>6. ProofsHeld' /\ Pairing' /\ Shown'
      <3>1. ProofsHeld /\ Pairing
        BY Zenon, <1>0 DEF AInv
      <3>2. pair = NoPair /\ pair.step = 0 /\ Len(PairCalls) = 10
        BY Zenon, <1>0 DEF SInv, SessionTypes, NoPair, PairCalls
      <3>3. ProofsHeld' /\ Pairing'
        BY Zenon, <1>3, <3>1 DEF ProofsHeld, Pairing
      <3>4. Shown'
        BY SMTT(30), <1>3, <3>2 DEF Shown
      <3> QED
        BY Zenon, <3>3, <3>4
    <2>7. AInv'
      BY Zenon, <2>5, <2>6 DEF AInv
    <2>8. \A m \in Node : \A i \in DOMAIN history[m] : i \in DOMAIN history'[m] /\ history'[m][i] = history[m][i]
      BY ZenonT(30), <2>1, <2>3 DEF GoesOn
    <2>9. Accepts(n)' # {} /\ (n # Here => n = There)
      <3>. DEFINE own == IF n = Here THEN approval ELSE JoinDecision
      <3>1. n # Here => n = There
        BY SMTT(30), <1>1, TwoNodes, AdmissionAssumption
      <3>2. own.type = "accept" /\ own.origin = n
        BY Zenon, <3>1, SessionProofs
      <3>. HIDE DEF own
      <3>3. PICK i \in DOMAIN result.log : result.log[i] = own
        BY Zenon, <2>1 DEF Has, own
      <3>4. i \in Accepts(n)'
        BY Zenon, <2>3, <3>2, <3>3 DEF Accepts
      <3>. QED BY Zenon, <3>1, <3>4
    <2>10. Here \in Node /\ Accepts(Here) \subseteq Accepts(Here)'
      BY Zenon, <2>8, AcceptsStay, TwoNodes
    <2>11. Accepts(Here)' # {} /\ (n # Here => Accepts(There)' # {})
      BY Zenon, <1>2, <2>9, <2>10
    <2>12. \A tx \in Of(approval) : OfSession(tx, record[Here].staged, Accepts(Here)')
      BY SMTT(30), <1>2, <2>11, SessionProofs, TwoNodes DEF Of, OfSession
    <2>13. \A m \in Node : \A i \in DOMAIN history'[m] :
              i \in DOMAIN history[m] \/ OfSession(history'[m][i], record[Here].staged, Accepts(Here)')
      BY Zenon, <2>1, <2>3, <2>12 DEF GoesOn
    <2>14. /\ AfterApply(n) \in Pcs
           /\ HoldsAt(n, AfterApply(n), old, record[n], mailbox["approve"], Accepts(Here)', Accepts(There)', Waiting)
      BY Zenon, <1>0, <2>11, AppliedHolds
    <2>15. Waiting' = Waiting
      BY Zenon, <1>3 DEF Waiting
    <2>16. Arrives(c, AfterApply(n), old)
      BY Zenon, <1>3, <2>14, <2>15 DEF Arrives
    <2>17. Signed' /\ minted' \in [Node -> [request : Nat, decision : Nat, revoke : Nat]]
      BY Zenon, <1>0, <1>3 DEF SInv, Signed, SessionTypes
    <2> HIDE DEF n, old
    <2>18. SInv'
      BY ZenonT(30), <1>0, <1>1, <1>3, <1>6, <2>8, <2>13, <2>14, <2>16, <2>17, GrowthKeeps
    <2> QED
      BY Zenon, <2>5, <2>7, <2>18 DEF IInv
  <1> QED
    BY Zenon, <1>5, <1>6 DEF ApplyAdmission

\* What an admission command signs and stores is not of the session
Outside ==
    /\ Signed'
    /\ minted' \in [Node -> [request : Nat, decision : Nat, revoke : Nat]] /\ pair' = pair
    /\ \/ UNCHANGED history
       \/ \E n \in Node : \E tx : tx.id \in Nat /\ history' = [history EXCEPT ![n] = Append(@, tx)]

LEMMA MintKeeps ==
    ASSUME minted \in [Node -> [request : Nat, decision : Nat, revoke : Nat]], NEW n \in Node,
           Mint(n, "request") \/ Mint(n, "decision") \/ Mint(n, "revoke")
    PROVE  /\ minted' \in [Node -> [request : Nat, decision : Nat, revoke : Nat]]
           /\ minted[n].request \in Nat /\ minted[n].decision \in Nat /\ minted[n].revoke \in Nat
  <1>1. minted[n] \in [request : Nat, decision : Nat, revoke : Nat]
    BY Zenon
  <1>2. CASE Mint(n, "request")
    BY SMTT(30), <1>1, <1>2 DEF Mint
  <1>3. CASE Mint(n, "decision")
    BY SMTT(30), <1>1, <1>3 DEF Mint
  <1>4. CASE Mint(n, "revoke")
    BY SMTT(30), <1>1, <1>4 DEF Mint
  <1> QED
    BY Zenon, <1>1, <1>2, <1>3, <1>4

LEMMA CommandsOutside ==
    ASSUME Signed, SessionTypes, ProofsHeld, PeerCommands
    PROVE  Outside
  <1>0. /\ minted \in [Node -> [request : Nat, decision : Nat, revoke : Nat]]
        /\ \A tx \in inHand : tx.id \in Nat
        /\ \A n \in Node : \A tx \in deciding[n] : tx.id \in Nat
        /\ DOMAIN deciding = Node
    BY Zenon DEF Signed, SessionTypes, ProofsHeld
  <1>1. ASSUME NEW n \in Node, PeerRequest(n) PROVE Outside
    <2>1. PICK tx : tx = RequestProof(n, minted[n].request) /\ Submitted(n, tx, "outbound_request")
                    /\ Mint(n, "request") /\ inHand' = inHand \cup {tx} /\ UNCHANGED <<deciding, pair>>
      BY Zenon, <1>1 DEF PeerRequest
    <2>2. tx.id \in Nat /\ minted' \in [Node -> [request : Nat, decision : Nat, revoke : Nat]]
      BY Zenon, <1>0, <2>1, MintKeeps DEF RequestProof
    <2>3. Signed'
      BY Zenon, <1>0, <2>1, <2>2 DEF Signed
    <2> QED
      BY Zenon, <2>1, <2>2, <2>3 DEF Outside, Submitted
  <1>2. ASSUME NEW n \in Node, NEW tx \in inHand, PeerImportRequest(n, tx) \/ PeerImportDecision(n, tx)
        PROVE  Outside
    <2>1. /\ UNCHANGED <<inHand, deciding, minted, pair>>
          /\ history' = [history EXCEPT ![n] = Append(@, tx)]
      BY Zenon, <1>2 DEF PeerImportRequest, PeerImportDecision, Submitted
    <2>2. Signed'
      BY Zenon, <1>0, <2>1 DEF Signed
    <2> QED
      BY Zenon, <1>0, <2>1, <2>2 DEF Outside
  <1>3. ASSUME NEW n \in Node, NEW type, NEW scope, SignDecision(n, type, scope) PROVE Outside
    <2>1. PICK tx : /\ tx = DecisionProof(n, type, PendingRequest(n), scope, minted[n].decision)
                    /\ deciding' = [deciding EXCEPT ![n] = @ \cup {tx}]
                    /\ Mint(n, "decision") /\ UNCHANGED <<registry, history, inHand, pair>>
      BY Zenon, <1>3 DEF SignDecision
    <2>2. tx.id \in Nat /\ minted' \in [Node -> [request : Nat, decision : Nat, revoke : Nat]]
      BY Zenon, <1>0, <2>1, MintKeeps DEF DecisionProof
    <2>3. Signed'
      BY Zenon, <1>0, <2>1, <2>2 DEF Signed
    <2> QED
      BY Zenon, <2>1, <2>2, <2>3 DEF Outside
  <1>4. ASSUME NEW n \in Node, NEW tx \in deciding[n], SubmitDecision(n, tx) PROVE Outside
    <2>1. /\ deciding' = [deciding EXCEPT ![n] = @ \ {tx}] /\ UNCHANGED <<minted, pair>>
          /\ \/ history' = [history EXCEPT ![n] = Append(@, tx)] /\ inHand' = inHand \cup {tx}
             \/ UNCHANGED <<history, inHand>>
      BY Zenon, <1>4 DEF SubmitDecision, Submitted
    <2>2. Signed'
      BY Zenon, <1>0, <2>1 DEF Signed
    <2> QED
      BY Zenon, <1>0, <2>1, <2>2 DEF Outside
  <1>5. ASSUME NEW n \in Node, NEW comment \in BOOLEAN, PeerRevoke(n, comment) PROVE Outside
    <2>1. PICK tx : tx = RevokeProof(n, comment, minted[n].revoke) /\ Submitted(n, tx, "local")
                    /\ Mint(n, "revoke") /\ UNCHANGED <<inHand, deciding, pair>>
      BY Zenon, <1>5 DEF PeerRevoke
    <2>2. tx.id \in Nat /\ minted' \in [Node -> [request : Nat, decision : Nat, revoke : Nat]]
      BY Zenon, <1>0, <2>1, MintKeeps DEF RevokeProof
    <2>3. Signed'
      BY Zenon, <1>0, <2>1 DEF Signed
    <2> QED
      BY Zenon, <2>1, <2>2, <2>3 DEF Outside, Submitted
  <1> QED
    BY Zenon, <1>1, <1>2, <1>3, <1>4, <1>5 DEF PeerCommands

\* Admission commands of either operator run in between
LEMMA MeanwhileKeeps ==
    ASSUME NumbersHaveFirst, IInv, AdmissionMeanwhile
    PROVE  IInv'
  <1>0. SInv /\ AInv /\ \A m \in Node : ReplayInv(registry[m], history[m], m)
    BY Zenon DEF IInv
  <1>1. PeerCommands /\ UNCHANGED <<record, mailbox, command, include_rss, rssReady>>
    BY Zenon DEF AdmissionMeanwhile, invitationOnly
  <1>2. AInv'
    BY Zenon, <1>0, <1>1, AdmissionStep DEF AdmissionNext
  <1>3. \A m \in Node : ReplayInv(registry'[m], history'[m], m)
    <2>1. StoresMove
      BY Zenon, <1>0, <1>1, StoreMoves DEF AdmissionNext
    <2> QED
      BY Zenon, <1>0, <2>1, ReplaysKept DEF AInv
  <1>4. Outside
    BY Zenon, <1>0, <1>1, CommandsOutside DEF AInv, SInv
  <1>5. \A m \in Node : \A i \in DOMAIN history[m] : i \in DOMAIN history'[m] /\ history'[m][i] = history[m][i]
    <2>1. ASSUME NEW n \in Node, NEW tx, history' = [history EXCEPT ![n] = Append(@, tx)]
          PROVE  \A m \in Node : \A i \in DOMAIN history[m] :
                     i \in DOMAIN history'[m] /\ history'[m][i] = history[m][i]
      <3>1. /\ history'[n] = Append(history[n], tx) /\ IsSeq(history[n])
            /\ \A m \in Node \ {n} : history'[m] = history[m]
        BY Zenon, <1>0, <2>1 DEF AInv, Stores
      <3>2. \A i \in DOMAIN history[n] : i \in DOMAIN history'[n] /\ history'[n][i] = history[n][i]
        BY SMTT(30), <3>1, Appended
      <3> QED
        BY Zenon, <3>1, <3>2
    <2> QED
      BY Zenon, <1>4, <2>1 DEF Outside
  <1>6. \A m \in Node : \A i \in DOMAIN history'[m] :
            i \in DOMAIN history[m] \/ OfSession(history'[m][i], record[Here].staged, Accepts(Here)')
    <2>1. ASSUME NEW n \in Node, NEW tx, tx.id \in Nat, history' = [history EXCEPT ![n] = Append(@, tx)]
          PROVE  \A m \in Node : \A i \in DOMAIN history'[m] :
                     i \in DOMAIN history[m] \/ OfSession(history'[m][i], record[Here].staged, Accepts(Here)')
      <3>1. /\ history'[n] = Append(history[n], tx) /\ IsSeq(history[n])
            /\ \A m \in Node \ {n} : history'[m] = history[m]
        BY Zenon, <1>0, <2>1 DEF AInv, Stores
      <3>2. \A i \in DOMAIN history'[n] : i \in DOMAIN history[n] \/ history'[n][i] = tx
        BY SMTT(30), <3>1, Appended
      <3>3. JoinDecision.id = -1
        BY Zenon DEF JoinDecision, DecisionProof
      <3>4. tx # JoinDecision
        <4>1. -1 \notin Nat
          OBVIOUS
        <4> QED
          BY Zenon, <2>1, <3>3, <4>1
      <3>5. OfSession(tx, record[Here].staged, Accepts(Here)')
        <4>1. ~(tx.id < 0)
          BY <2>1
        <4> QED
          BY Zenon, <3>4, <4>1 DEF OfSession
      <3> QED
        BY Zenon, <3>1, <3>2, <3>5
    <2> QED
      BY Zenon, <1>4, <2>1 DEF Outside
  <1>7. SInv'
    BY Zenon, <1>0, <1>1, <1>4, <1>5, <1>6, GrowthKeeps DEF Outside
  <1> QED
    BY Zenon, <1>2, <1>3, <1>7 DEF IInv

-----------------------------------------------------------------------------
(* The theorems                                                            *)

\* A step that changes nothing but the deadline
LEMMA RestKeeps ==
    ASSUME IInv, UNCHANGED <<admissionVars, record, mailbox, command, include_rss, rssReady>>
    PROVE  IInv'
  <1>0. SInv /\ AInv /\ \A m \in Node : ReplayInv(registry[m], history[m], m)
    BY Zenon DEF IInv
  <1>1. UNCHANGED <<registry, history, inHand, deciding, minted, pair>>
    BY Zenon DEF admissionVars
  <1>2. AInv'
    BY Zenon, <1>0, AdmissionStep
  <1>3. Accepts(Here)' = Accepts(Here) /\ Accepts(There)' = Accepts(There) /\ Waiting' = Waiting
    BY Zenon, <1>1 DEF Accepts, Waiting
  <1>4. Signed' /\ minted' \in [Node -> [request : Nat, decision : Nat, revoke : Nat]]
    BY Zenon, <1>0, <1>1 DEF SInv, Signed, SessionTypes
  <1>5. SInv'
    BY Zenon, <1>0, <1>1, <1>4, GrowthKeeps
  <1> QED
    BY Zenon, <1>0, <1>1, <1>2, <1>5 DEF IInv

\* Before any command
LEMMA SessionStart ==
    ASSUME NumbersHaveFirst, InvitationInit
    PROVE  IInv
  <1>1. AInv /\ \A n \in Node : ReplayInv(registry[n], history[n], n)
    BY Zenon, AdmissionStart, ReplayInit DEF InvitationInit
  <1>2. /\ record = [n \in Node |-> NoRecord] /\ mailbox = [stage \in Frames |-> {}]
        /\ command = [c \in Command |-> NoCommand]
        /\ history = [n \in Node |-> <<>>] /\ inHand = {} /\ deciding = [n \in Node |-> {}]
        /\ minted = [n \in Node |-> [request |-> 0, decision |-> 0, revoke |-> 0]] /\ pair = NoPair
    BY Zenon DEF InvitationInit, AdmissionInit, Frames
  <1>3. /\ NoRecord \in SessionRecords /\ NoRecord.rev = 0 /\ NoRecord.phase = "none" /\ NoRecord.staged = {}
        /\ CopyOf(NoRecord, NoRecord)
    BY SMTT(30) DEF NoRecord, SessionRecords, RecordPhases, Stages, CopyOf
  <1>4. Here \in Node /\ There \in Node /\ \A c \in Command : RunsAt[c] \in Node
    BY Zenon, TwoNodes, InvitationAssumption
  <1>5. SessionTypes
    <2>1. {} \in Stages /\ "approve" \in Frames /\ "complete" \in Frames
      BY Zenon DEF Stages, Frames
    <2>2. command \in [Command -> [pc : Pcs, record : SessionRecords]]
      BY Zenon, <1>2, <1>3 DEF NoCommand, Pcs
    <2> QED
      BY Zenon, <1>2, <1>3, <2>1, <2>2 DEF SessionTypes
  <1>6. SessionOrder
    BY Zenon, <1>2, <1>3, <1>4 DEF SessionOrder, Unsaved, Frames
  <1>7. Signed /\ SessionHistory
    BY SMTT(30), <1>2 DEF Signed, SessionHistory
  <1>8. ASSUME NEW c \in Command PROVE CommandOK(c)
    <2>1. command[c].pc = "idle" /\ command[c].record = NoRecord /\ record[RunsAt[c]] = NoRecord
      BY Zenon, <1>2, <1>4 DEF NoCommand
    <2> QED
      BY Zenon, <1>3, <2>1 DEF CommandOK, HoldsAt, BeforeStaging, AfterStaging
  <1> QED
    BY Zenon, <1>1, <1>5, <1>6, <1>7, <1>8 DEF IInv, SInv

\* The proofs of an invitation leave a settled row as it is
LEMMA SubmitNextSettled ==
    ASSUME NEW n, NEW seen, NEW proof, Legal(n, proof.tx, proof.policy), SubmitNext(n, seen, proof).ok
    PROVE  seen.ok /\ (Settled(seen.row) => SubmitNext(n, seen, proof).row = seen.row)
  <1> DEFINE next == SubmitNext(n, seen, proof)
  <1>1. CASE ~seen.ok \/ Has(seen.log, proof.tx)
    BY Zenon, <1>1 DEF SubmitNext, Has
  <1>2. CASE seen.ok /\ ~Has(seen.log, proof.tx)
    <2> DEFINE fits == proof.policy = "local" => Projects(seen.row, proof.tx)
    <2>1. next = [ok  |-> fits, row |-> RowAfter(n, seen.row, proof.tx, proof.policy),
                  log |-> Append(seen.log, proof.tx)]
      BY Zenon, <1>2 DEF SubmitNext, Has
    <2> HIDE DEF fits
    <2>2. next.row = RowAfter(n, seen.row, proof.tx, proof.policy) /\ next.ok = fits
      BY <2>1
    <2>3. proof.policy = "local" => Projects(seen.row, proof.tx)
      BY Zenon, <2>2 DEF fits
    <2> QED
      BY Zenon, <1>2, <2>2, <2>3, SettledRefuses
  <1> QED
    BY Zenon, <1>1, <1>2

LEMMA OutcomeSettled ==
    ASSUME NEW n \in Node, NEW held, NEW approval \in Approvals, held.staged = {approval},
           Outcome(n, held).ok, Settled(registry[n])
    PROVE  Outcome(n, held).row = registry[n]
  <1> DEFINE p(k) == Proofs(n, held)[k]
             none == [ok |-> TRUE, row |-> registry[n], log |-> history[n]]
             one == SubmitNext(n, none, p(1))
             two == SubmitNext(n, one, p(2))
             three == SubmitNext(n, two, p(3))
             four == SubmitNext(n, three, p(4))
  <1>1. Outcome(n, held) = four
    BY Zenon DEF Outcome
  <1>2. \A k \in 1..4 : Legal(n, p(k).tx, p(k).policy)
    BY Zenon, ProofsAre
  <1>3. 1 \in 1..4 /\ 2 \in 1..4 /\ 3 \in 1..4 /\ 4 \in 1..4
    BY SMTT(30)
  <1>4. none.row = registry[n]
    BY Zenon
  <1> HIDE DEF none, p
  <1>5. one.ok => Settled(one.row) /\ one.row = registry[n]
    BY Zenon, <1>2, <1>3, <1>4, SubmitNextSettled
  <1> HIDE DEF one
  <1>6. two.ok => Settled(two.row) /\ two.row = registry[n]
    BY ZenonT(30), <1>2, <1>3, <1>5, SubmitNextSettled
  <1> HIDE DEF two
  <1>7. three.ok => Settled(three.row) /\ three.row = registry[n]
    BY ZenonT(30), <1>2, <1>3, <1>6, SubmitNextSettled
  <1> HIDE DEF three
  <1>8. four.ok => four.row = registry[n]
    BY ZenonT(30), <1>2, <1>3, <1>7, SubmitNextSettled
  <1> QED
    BY Zenon, <1>1, <1>8

-----------------------------------------------------------------------------
(***************************************************************************)
(* The remote installation, for any settings and any number of failed      *)
(* calls.  Its invariant is the one above and, past pair_installed_peer,   *)
(* that the nodes are paired: what the pairing established is never taken  *)
(* back but by a revocation, which is on record.                           *)
(***************************************************************************)

\* Where the command stands once pair_installed_peer has returned
PairedPcs == {"enroll", "token", "bundle", "report", "handoff",
              "waitHere", "showHere", "waitThere", "showThere"}

\* A command that runs has no outcome yet; past the pairing the nodes are paired
Running ==
    /\ \E pc, pairs, outcome : install = [pc |-> pc, pairs |-> pairs, outcome |-> outcome]
    /\ install.pc # "idle" => install.outcome = "none"
    /\ install.pc \in PairedPcs => Paired

RInv == AInv /\ Running

\* Whatever the installation does to the admissions is an admission command
LEMMA InstallAdmits ==
    ASSUME [InstallNext]_installVars
    PROVE  [AdmissionNext]_admissionVars
PROOF
  <1>1. CASE UNCHANGED installVars
    BY Zenon, <1>1 DEF installVars
  <1>2. CASE Revocation
    <2>1. PICK n \in Node : PeerRevoke(n, FALSE)
      BY Zenon, <1>2 DEF Revocation
    <2> QED
      BY Zenon, <2>1 DEF AdmissionNext, PeerCommands
  <1>3. CASE BeginPairing \/ PairingCall \/ PairingStops
    <2>1. PairStart \/ PairCall \/ PairStops
      BY Zenon, <1>3 DEF BeginPairing, PairingCall, PairingStops
    <2> QED
      BY Zenon, <2>1 DEF AdmissionNext
  <1>4. CASE ~(UNCHANGED installVars) /\ ~Revocation /\ ~(BeginPairing \/ PairingCall \/ PairingStops)
    <2>1. AdmissionsKept
      BY Zenon, <1>4 DEF InstallNext, InstallSteps, VerifyRoutes, InstallCommand, SharedLoopback,
         RemoteReceipt, FetchInstaller, RunRemoteInstaller, ReadRssStatus, IssueToken, SendBundle,
         AwaitEnrollment, HandoffCandidates, WaitRoute, ConfirmRoute, DaemonRedeems, RssMovesOn,
         RouteBinds, RouteDrops
    <2> QED
      BY Zenon, <2>1 DEF AdmissionsKept
  <1> QED
    BY Zenon, <1>1, <1>2, <1>3, <1>4

\* Nodes that are paired stay so
LEMMA PairedKept ==
    ASSUME AInv, [InstallNext]_installVars, Paired
    PROVE  Paired'
PROOF
  <1>1. StoresMove
    BY Zenon, InstallAdmits, StoreMoves
  <1>2. ASSUME NEW n \in Node
        PROVE  /\ registry'[n].groups = registry[n].groups
               /\ SynchronizationEligible(registry'[n]) \/ Revokes(n)' # {}
    BY Zenon, <1>1, AdmissionKept DEF Paired
  <1> QED
    BY Zenon, <1>2, TwoNodes DEF Paired, SynchronizationEligible

\* The four things a step can do to the command
LEMMA Turns ==
    ASSUME RInv, [InstallNext]_installVars,
           \/ UNCHANGED install
           \/ \E outcome : EndInstall(outcome)
           \/ \E pc : /\ InstallTo(pc) /\ install.pc # "idle"
                      /\ pc \in PairedPcs => install.pc \in PairedPcs \/ Paired
           \/ \E pc, pairs : /\ install' = [pc |-> pc, pairs |-> pairs, outcome |-> "none"]
                             /\ pc \notin PairedPcs
    PROVE  Running'
PROOF
  <1>1. PICK pc0, pairs0, outcome0 :
          install = [pc |-> pc0, pairs |-> pairs0, outcome |-> outcome0]
    BY Zenon DEF RInv, Running
  <1>2. Paired => Paired'
    BY Zenon, PairedKept DEF RInv
  <1>3. /\ install.pc # "idle" => install.outcome = "none"
        /\ install.pc \in PairedPcs => Paired
    BY Zenon DEF RInv, Running
  <1>4. CASE UNCHANGED install
    BY Zenon, <1>1, <1>2, <1>3, <1>4 DEF Running
  <1>5. ASSUME NEW outcome, EndInstall(outcome) PROVE Running'
    <2>1. install' = [pc |-> "idle", pairs |-> pairs0, outcome |-> outcome]
      BY Zenon, <1>1, <1>5 DEF EndInstall
    <2>2. "idle" \notin PairedPcs
      BY Zenon DEF PairedPcs
    <2> QED
      BY Zenon, <2>1, <2>2 DEF Running
  <1>6. ASSUME NEW pc, InstallTo(pc), install.pc # "idle",
               pc \in PairedPcs => install.pc \in PairedPcs \/ Paired
        PROVE  Running'
    <2>1. install' = [pc |-> pc, pairs |-> pairs0, outcome |-> outcome0]
      BY Zenon, <1>1, <1>6 DEF InstallTo
    <2>2. outcome0 = "none"
      BY Zenon, <1>1, <1>3, <1>6
    <2> QED
      BY Zenon, <1>2, <1>3, <1>6, <2>1, <2>2 DEF Running
  <1>7. ASSUME NEW pc, NEW pairs, install' = [pc |-> pc, pairs |-> pairs, outcome |-> "none"],
               pc \notin PairedPcs
        PROVE  Running'
    BY Zenon, <1>7 DEF Running
  <1> QED
    BY Zenon, <1>4, <1>5, <1>6, <1>7

\* Every step does one of them
LEMMA RunningKept ==
    ASSUME RInv, [InstallNext]_installVars
    PROVE  Running'
PROOF
  <1>1. CASE SharedLoopback
    <2>1. \/ InstallTo("receipt") /\ install.pc # "idle"
          \/ InstallTo("pair") /\ install.pc # "idle"
          \/ EndInstall("failed")
      BY Zenon, <1>1 DEF SharedLoopback, InstallAt
    <2>2. "receipt" \notin PairedPcs /\ "pair" \notin PairedPcs
      BY Zenon DEF PairedPcs
    <2> QED
      BY Zenon, <2>1, <2>2, Turns
  <1>2. CASE RemoteReceipt \/ FetchInstaller
    <2>1. \/ InstallTo("pair") /\ install.pc # "idle"
          \/ InstallTo("download") /\ install.pc # "idle"
          \/ InstallTo("run") /\ install.pc # "idle"
          \/ EndInstall("failed")
      BY Zenon, <1>2 DEF RemoteReceipt, FetchInstaller, InstallAt
    <2>2. "download" \notin PairedPcs /\ "pair" \notin PairedPcs /\ "run" \notin PairedPcs
      BY Zenon DEF PairedPcs
    <2> QED
      BY Zenon, <2>1, <2>2, Turns
  <1>3. CASE RunRemoteInstaller
    <2>1. (InstallTo("pair") /\ install.pc # "idle") \/ (\E outcome : EndInstall(outcome))
      BY Zenon, <1>3 DEF RunRemoteInstaller, InstallAt
    <2>2. "pair" \notin PairedPcs
      BY Zenon DEF PairedPcs
    <2> QED
      BY Zenon, <2>1, <2>2, Turns
  <1>4. CASE BeginPairing
    <2>1. /\ install.pc = "pair" /\ PairStart
          /\ \/ InstallTo("pairing")
             \/ pair'.outcome = "preserved" /\ InstallTo("enroll")
             \/ EndInstall("failed")
      BY Zenon, <1>4 DEF BeginPairing, InstallAt
    <2>2. "pairing" \notin PairedPcs /\ "pair" # "idle"
      BY Zenon DEF PairedPcs
    <2>3. pair'.outcome = "preserved" => Preserved
      BY Zenon, <2>1 DEF PairStart, NoPair
    <2> QED
      BY Zenon, <2>1, <2>2, <2>3, PreservedIsPaired, Turns
  <1>5. CASE PairingCall
    <2>1. /\ install.pc = "pairing" /\ PairCall
          /\ (pair'.outcome = "complete" /\ InstallTo("enroll")) \/ UNCHANGED install
      BY Zenon, <1>5 DEF PairingCall, InstallAt
    <2>2. "pairing" # "idle" /\ "complete" # "none"
      BY Zenon
    <2>3. pair'.outcome = "complete" => Paired
      BY Zenon, <2>1, <2>2, CompletedIsPaired DEF RInv
    <2> QED
      BY Zenon, <2>1, <2>2, <2>3, Turns
  <1>6. CASE PairingStops
    BY Zenon, <1>6, Turns DEF PairingStops
  <1>7. CASE ReadRssStatus \/ IssueToken \/ SendBundle \/ AwaitEnrollment \/ HandoffCandidates
    <2>1. /\ install.pc \in {"enroll", "token", "bundle", "report", "handoff"}
          /\ \/ \E pc : InstallTo(pc)
             \/ \E outcome : EndInstall(outcome)
      BY Zenon, <1>7 DEF ReadRssStatus, IssueToken, SendBundle, AwaitEnrollment,
         HandoffCandidates, InstallAt
    <2>2. install.pc # "idle" /\ install.pc \in PairedPcs
      BY Zenon, <2>1 DEF PairedPcs
    <2> QED
      BY Zenon, <2>1, <2>2, Turns
  <1>8. CASE VerifyRoutes
    <2>1. /\ install.pc \in {"waitHere", "showHere", "waitThere", "showThere"}
          /\ \/ \E pc : InstallTo(pc)
             \/ \E outcome : EndInstall(outcome)
      BY Zenon, <1>8 DEF VerifyRoutes, WaitRoute, ConfirmRoute, InstallAt
    <2>2. install.pc # "idle" /\ install.pc \in PairedPcs
      BY Zenon, <2>1 DEF PairedPcs
    <2> QED
      BY Zenon, <2>1, <2>2, Turns
  <1>9. ASSUME NEW pairs \in BOOLEAN, InstallCommand(pairs) PROVE Running'
    <2>1. install' = [pc |-> IF pairs THEN "shared" ELSE "download", pairs |-> pairs, outcome |-> "none"]
      BY Zenon, <1>9 DEF InstallCommand
    <2>2. (IF pairs THEN "shared" ELSE "download") \notin PairedPcs
      BY Zenon DEF PairedPcs
    <2> QED
      BY Zenon, <2>1, <2>2, Turns
  <1>10. CASE \/ DaemonRedeems \/ RssMovesOn \/ Revocation
              \/ \E n \in Node : RouteBinds(n) \/ RouteDrops(n)
              \/ UNCHANGED installVars
    <2>1. UNCHANGED install
      BY Zenon, <1>10 DEF DaemonRedeems, RssMovesOn, Revocation, RouteBinds, RouteDrops,
         installVars, remoteVars
    <2> QED
      BY Zenon, <2>1, Turns
  <1> QED
    BY ZenonT(30), <1>1, <1>2, <1>3, <1>4, <1>5, <1>6, <1>7, <1>8, <1>9, <1>10 DEF InstallNext, InstallSteps

LEMMA InstallInvariance == InstallSpec => []RInv
PROOF
  <1>1. InstallInit => RInv
    <2> SUFFICES ASSUME InstallInit PROVE RInv
      BY Zenon
    <2>1. AInv
      BY Zenon, AdmissionStart DEF InstallInit
    <2>2. install = [pc |-> "idle", pairs |-> FALSE, outcome |-> "none"]
      BY Zenon DEF InstallInit, NoInstall
    <2>3. Running
      BY Zenon, <2>2 DEF Running, PairedPcs
    <2> QED
      BY Zenon, <2>1, <2>3 DEF RInv
  <1>2. RInv /\ [InstallNext]_installVars => RInv'
    <2> SUFFICES ASSUME RInv, [InstallNext]_installVars PROVE RInv'
      BY Zenon
    <2>1. AInv'
      BY Zenon, InstallAdmits, AdmissionStep DEF RInv
    <2> QED
      BY Zenon, <2>1, RunningKept DEF RInv
  <1> QED
    BY <1>1, <1>2, PTL DEF InstallSpec

\* A token is paid for by a failure, but for the one whose enrollment is under way
TokensPaid ==
    /\ tokens \in Nat /\ trouble \in Nat
    /\ tokens <= trouble + 1
    /\ tokens > trouble => install.pc # "token" /\ (BundleAccepted => install.pc = "bundle")

DeviceTyped ==
    /\ setting \in Settings
    /\ device \in [software : {"none", "matching", "shared"},
                   rss : {"none", "pending", "expired", "enrolled", "foreign"}]
    /\ route \in [Node -> BOOLEAN]
    /\ install.outcome \in {"none", "done", "failed"}

\* How a step turns the command, for the fields of the record
LEMMA TurnedFields ==
    ASSUME Running
    PROVE  /\ \A outcome : EndInstall(outcome) =>
                /\ install'.pc = "idle" /\ install'.outcome = outcome
                /\ install'.pairs = install.pairs
           /\ \A pc : InstallTo(pc) =>
                /\ install'.pc = pc /\ install'.outcome = install.outcome
                /\ install'.pairs = install.pairs
PROOF
  <1>1. PICK pc0, pairs0, outcome0 :
          install = [pc |-> pc0, pairs |-> pairs0, outcome |-> outcome0]
    BY Zenon DEF Running
  <1>2. ASSUME NEW outcome, EndInstall(outcome)
        PROVE  /\ install'.pc = "idle" /\ install'.outcome = outcome
               /\ install'.pairs = install.pairs
    <2>1. install' = [pc |-> "idle", pairs |-> pairs0, outcome |-> outcome]
      BY Zenon, <1>1, <1>2 DEF EndInstall
    <2> QED
      BY Zenon, <1>1, <2>1
  <1>3. ASSUME NEW pc, InstallTo(pc)
        PROVE  /\ install'.pc = pc /\ install'.outcome = install.outcome
               /\ install'.pairs = install.pairs
    <2>1. install' = [pc |-> pc, pairs |-> pairs0, outcome |-> outcome0]
      BY Zenon, <1>1, <1>3 DEF InstallTo
    <2> QED
      BY Zenon, <1>1, <2>1
  <1> QED
    BY Zenon, <1>2, <1>3

\* The only way a pairing command succeeds
LEMMA DoneAtTheEnd ==
    ASSUME RInv, [InstallNext]_installVars, install.pairs, install.pc # "idle",
           install'.outcome = "done"
    PROVE  install.pc = "showThere" /\ route[There]
PROOF
  <1>1. install.outcome = "none" /\ "none" # "done" /\ "failed" # "done"
    BY Zenon DEF RInv, Running
  <1>2. Running
    BY Zenon DEF RInv
  <1>3. \A pc : ~InstallTo(pc)
    BY Zenon, <1>1, <1>2, TurnedFields
  <1>4. ~EndInstall("failed")
    BY Zenon, <1>1, <1>2, TurnedFields
  <1>5. ~UNCHANGED install
    BY Zenon, <1>1
  <1>6. ~(\/ SharedLoopback \/ RemoteReceipt \/ FetchInstaller \/ RunRemoteInstaller
          \/ BeginPairing \/ PairingCall \/ PairingStops)
    BY Zenon, <1>3, <1>4, <1>5 DEF SharedLoopback, RemoteReceipt, FetchInstaller,
       RunRemoteInstaller, BeginPairing, PairingCall, PairingStops
  <1>7. ~(\/ ReadRssStatus \/ IssueToken \/ SendBundle \/ AwaitEnrollment \/ HandoffCandidates)
    BY Zenon, <1>3, <1>4 DEF ReadRssStatus, IssueToken, SendBundle, AwaitEnrollment,
       HandoffCandidates
  <1>8. ~(\/ DaemonRedeems \/ RssMovesOn \/ Revocation
          \/ \E n \in Node : RouteBinds(n) \/ RouteDrops(n) \/ UNCHANGED installVars)
    BY Zenon, <1>5 DEF DaemonRedeems, RssMovesOn, Revocation, RouteBinds, RouteDrops,
       installVars, remoteVars
  <1>9. \A pairs \in BOOLEAN : ~InstallCommand(pairs)
    BY Zenon DEF InstallCommand, InstallAt
  <1>10. VerifyRoutes
    BY Zenon, <1>5, <1>6, <1>7, <1>8, <1>9 DEF InstallNext, InstallSteps, installVars, remoteVars
  <1>11. "waitThere" # "end"
    BY Zenon
  <1> QED
    BY Zenon, <1>3, <1>4, <1>10, <1>11 DEF VerifyRoutes, WaitRoute, ConfirmRoute, InstallAt

\* The remote account, the routes and the outcome keep their types
LEMMA DeviceKept ==
    ASSUME RInv, DeviceTyped, [InstallNext]_installVars
    PROVE  DeviceTyped'
PROOF
  <1> DEFINE Sw == {"none", "matching", "shared"}
             Rs == {"none", "pending", "expired", "enrolled", "foreign"}
  <1>1. device \in [software : Sw, rss : Rs] /\ "matching" \in Sw
        /\ {"pending", "expired", "enrolled", "foreign"} \subseteq Rs
    BY Zenon DEF DeviceTyped
  <1>2. /\ \A sw \in Sw : [device EXCEPT !.software = sw] \in [software : Sw, rss : Rs]
        /\ \A rs \in Rs : [device EXCEPT !.rss = rs] \in [software : Sw, rss : Rs]
        /\ device.software \in Sw
    BY Zenon, <1>1
  <1> HIDE DEF Sw, Rs
  <1>3. device' \in [software : Sw, rss : Rs]
    <2>1. CASE RunRemoteInstaller
      BY Zenon, <1>1, <1>2, <2>1 DEF RunRemoteInstaller
    <2>2. CASE SendBundle
      <3>1. device' = device \/ device' = [device EXCEPT !.rss = "pending"]
        BY Zenon, <2>2 DEF SendBundle
      <3> QED
        BY Zenon, <1>1, <1>2, <3>1
    <2>3. CASE DaemonRedeems \/ RssMovesOn
      BY Zenon, <1>1, <1>2, <2>3 DEF DaemonRedeems, RssMovesOn
    <2>4. CASE ~RunRemoteInstaller /\ ~SendBundle /\ ~DaemonRedeems /\ ~RssMovesOn
      <3>1. UNCHANGED device
        BY Zenon, <2>4 DEF InstallNext, InstallSteps, VerifyRoutes, InstallCommand, SharedLoopback,
           RemoteReceipt, FetchInstaller, BeginPairing, PairingCall, PairingStops, ReadRssStatus,
           IssueToken, AwaitEnrollment, HandoffCandidates, WaitRoute, ConfirmRoute, Revocation,
           RouteBinds, RouteDrops, installVars, remoteVars
      <3> QED
        BY Zenon, <1>1, <3>1
    <2> QED
      BY Zenon, <2>1, <2>2, <2>3, <2>4
  <1>4. UNCHANGED setting
    BY Zenon DEF InstallNext, InstallSteps, VerifyRoutes, InstallCommand, SharedLoopback,
       RemoteReceipt, FetchInstaller, RunRemoteInstaller, BeginPairing, PairingCall, PairingStops,
       ReadRssStatus, IssueToken, SendBundle, AwaitEnrollment, HandoffCandidates, WaitRoute,
       ConfirmRoute, DaemonRedeems, RssMovesOn, Revocation, RouteBinds, RouteDrops,
       installVars, remoteVars
  <1>5. route' \in [Node -> BOOLEAN]
    <2>1. \/ UNCHANGED route
          \/ \E n \in Node : \E b \in BOOLEAN : route' = [route EXCEPT ![n] = b]
      BY Zenon DEF InstallNext, InstallSteps, VerifyRoutes, InstallCommand, SharedLoopback,
         RemoteReceipt, FetchInstaller, RunRemoteInstaller, BeginPairing, PairingCall, PairingStops,
         ReadRssStatus, IssueToken, SendBundle, AwaitEnrollment, HandoffCandidates, WaitRoute,
         ConfirmRoute, DaemonRedeems, RssMovesOn, Revocation, RouteBinds, RouteDrops,
         installVars, remoteVars
    <2>2. route \in [Node -> BOOLEAN]
      BY Zenon DEF DeviceTyped
    <2> QED
      BY Zenon, <2>1, <2>2
  <1>6. install'.outcome \in {"none", "done", "failed"}
    <2>1. \/ UNCHANGED install
          \/ \E pc : InstallTo(pc)
          \/ EndInstall("failed") \/ EndInstall("done")
          \/ \E pc, pairs : install' = [pc |-> pc, pairs |-> pairs, outcome |-> "none"]
      BY Zenon DEF InstallNext, InstallSteps, VerifyRoutes, InstallCommand, SharedLoopback,
         RemoteReceipt, FetchInstaller, RunRemoteInstaller, BeginPairing, PairingCall, PairingStops,
         ReadRssStatus, IssueToken, SendBundle, AwaitEnrollment, HandoffCandidates, WaitRoute,
         ConfirmRoute, DaemonRedeems, RssMovesOn, Revocation, RouteBinds, RouteDrops,
         installVars, remoteVars
    <2>2. Running /\ install.outcome \in {"none", "done", "failed"}
      BY Zenon DEF RInv, DeviceTyped
    <2>3. ASSUME NEW pc, NEW pairs, install' = [pc |-> pc, pairs |-> pairs, outcome |-> "none"]
          PROVE  install'.outcome = "none"
      BY Zenon, <2>3
    <2>4. \/ install'.outcome = install.outcome
          \/ install'.outcome = "failed" \/ install'.outcome = "done" \/ install'.outcome = "none"
      BY Zenon, <2>1, <2>2, <2>3, TurnedFields
    <2> QED
      BY Zenon, <2>2, <2>4
  <1> QED
    BY Zenon, <1>3, <1>4, <1>5, <1>6 DEF DeviceTyped, Sw, Rs

\* Two counters of which at most the second grows
LEMMA CountersKept ==
    ASSUME TokensPaid, UNCHANGED tokens, NoTrouble \/ SpendTrouble,
           NoTrouble => /\ install'.pc = "token" =>
                              install.pc = "token" \/ (BundleAccepted /\ install.pc # "bundle")
                        /\ BundleAccepted' /\ install'.pc # "bundle" =>
                              BundleAccepted /\ install.pc # "bundle"
    PROVE  TokensPaid'
  BY DEF TokensPaid, NoTrouble, SpendTrouble

\* At most one token more than there were failures
LEMMA TokensKept ==
    ASSUME RInv, TokensPaid, DeviceTyped, [InstallNext]_installVars
    PROVE  TokensPaid'
PROOF
  <1>0. Running /\ device \in [software : {"none", "matching", "shared"},
                   rss : {"none", "pending", "expired", "enrolled", "foreign"}]
    BY Zenon DEF RInv, DeviceTyped
  <1>1. CASE IssueToken
    <2>1. /\ install.pc = "token" /\ UNCHANGED device
          /\ \/ tokens' = tokens + 1 /\ InstallTo("bundle") /\ NoTrouble
             \/ tokens' \in {tokens, tokens + 1} /\ EndInstall("failed") /\ SpendTrouble
      BY Zenon, <1>1 DEF IssueToken, InstallAt
    <2>2. tokens <= trouble /\ tokens \in Nat /\ trouble \in Nat
      BY <2>1 DEF TokensPaid
    <2>3. \/ tokens' = tokens + 1 /\ install'.pc = "bundle" /\ trouble' = trouble
          \/ tokens' \in {tokens, tokens + 1} /\ trouble' = trouble + 1
      BY Zenon, <1>0, <2>1, TurnedFields DEF NoTrouble, SpendTrouble
    <2> QED
      BY <2>2, <2>3 DEF TokensPaid
  <1>2. CASE ~IssueToken
    <2>1. UNCHANGED tokens
      BY Zenon, <1>2 DEF InstallNext, InstallSteps, VerifyRoutes, InstallCommand, SharedLoopback,
         RemoteReceipt, FetchInstaller, RunRemoteInstaller, BeginPairing, PairingCall, PairingStops,
         ReadRssStatus, SendBundle, AwaitEnrollment, HandoffCandidates, WaitRoute,
         ConfirmRoute, DaemonRedeems, RssMovesOn, Revocation, RouteBinds, RouteDrops,
         installVars, remoteVars
    <2>2. NoTrouble \/ SpendTrouble
      BY Zenon, <1>2 DEF InstallNext, InstallSteps, VerifyRoutes, InstallCommand, SharedLoopback,
         RemoteReceipt, FetchInstaller, RunRemoteInstaller, BeginPairing, PairingCall, PairingStops,
         ReadRssStatus, SendBundle, AwaitEnrollment, HandoffCandidates, WaitRoute,
         ConfirmRoute, DaemonRedeems, RssMovesOn, Revocation, RouteBinds, RouteDrops,
         installVars, remoteVars, NoTrouble
    <2>3. SpendTrouble => ~NoTrouble
      BY DEF SpendTrouble, NoTrouble, TokensPaid
    <2>4. \A pc : InstallTo(pc) => install'.pc = pc
      BY Zenon, <1>0, TurnedFields
    <2>5. \A outcome : EndInstall(outcome) => install'.pc = "idle"
      BY Zenon, <1>0, TurnedFields
    <2>6. "idle" # "token" /\ "idle" # "bundle"
      BY Zenon
    <2>7. CASE ReadRssStatus
      <3>1. /\ install.pc = "enroll" /\ UNCHANGED device
            /\ \/ EndInstall("failed") \/ InstallTo("handoff") \/ InstallTo("report")
               \/ InstallTo("token") /\ BundleAccepted
        BY Zenon, <2>7 DEF ReadRssStatus, InstallAt, BundleAccepted
      <3>2. /\ install.pc # "bundle" /\ BundleAccepted' = BundleAccepted
            /\ install'.pc = "token" => BundleAccepted
        <4>1. install'.pc \in {"idle", "handoff", "report"} \/ BundleAccepted
          BY Zenon, <2>4, <2>5, <3>1
        <4> QED
          BY Zenon, <3>1, <4>1 DEF BundleAccepted
      <3> QED
        BY Zenon, <2>1, <2>2, <3>2, CountersKept
    <2>8. CASE SendBundle /\ NoTrouble
      <3>1. /\ install.pc = "bundle"
            /\ \/ device' = [device EXCEPT !.rss = "pending"] /\ InstallTo("report")
               \/ ~BundleAccepted /\ EndInstall("failed") /\ UNCHANGED device
        BY Zenon, <2>3, <2>8 DEF SendBundle, InstallAt
      <3>2. install'.pc # "token" /\ ~BundleAccepted'
        <4>1. install'.pc = "idle" \/ install'.pc = "report"
          BY Zenon, <2>4, <2>5, <3>1
        <4>2. ~BundleAccepted'
          BY Zenon, <1>0, <3>1 DEF BundleAccepted
        <4> QED
          BY Zenon, <4>1, <4>2
      <3> QED
        BY Zenon, <2>1, <2>2, <3>2, CountersKept
    <2>9. CASE SpendTrouble
      BY Zenon, <2>1, <2>3, <2>9, CountersKept
    <2>10. CASE DaemonRedeems
      <3>1. ~BundleAccepted' /\ UNCHANGED install
        BY Zenon, <1>0, <2>10 DEF DaemonRedeems, BundleAccepted
      <3> QED
        BY Zenon, <2>1, <2>2, <3>1, CountersKept
    <2>11. CASE RunRemoteInstaller
      <3>1. /\ install.pc = "run"
            /\ InstallTo("pair") \/ EndInstall("done") \/ EndInstall("failed")
            /\ \E sw : device' = [device EXCEPT !.software = sw]
        BY Zenon, <2>11 DEF RunRemoteInstaller, InstallAt
      <3>2. install'.pc = "pair" \/ install'.pc = "idle"
        BY Zenon, <2>4, <2>5, <3>1
      <3>3. BundleAccepted' = BundleAccepted
        BY Zenon, <1>0, <3>1 DEF BundleAccepted
      <3>4. install.pc # "bundle" /\ install'.pc # "token"
        BY Zenon, <3>1, <3>2
      <3> QED
        BY Zenon, <2>1, <2>2, <3>3, <3>4, CountersKept
    <2>12. CASE /\ ~ReadRssStatus /\ ~SendBundle /\ ~RssMovesOn /\ ~DaemonRedeems
                /\ ~RunRemoteInstaller
      <3>1. UNCHANGED device
        BY Zenon, <1>2, <2>12 DEF InstallNext, InstallSteps, VerifyRoutes, InstallCommand,
           SharedLoopback, RemoteReceipt, FetchInstaller, BeginPairing, PairingCall, PairingStops,
           AwaitEnrollment, HandoffCandidates, WaitRoute, ConfirmRoute, Revocation,
           RouteBinds, RouteDrops, installVars, remoteVars
      <3> DEFINE OtherPcs == {"receipt", "pair", "download", "run", "pairing", "enroll", "handoff",
                         "waitHere", "showHere", "waitThere", "showThere"}
                 Goes == \E pc \in OtherPcs : InstallTo(pc)
                 Stops == \E outcome : EndInstall(outcome)
                 Starts == \E pairs \in BOOLEAN :
                             install' = [pc |-> IF pairs THEN "shared" ELSE "download",
                                         pairs |-> pairs, outcome |-> "none"]
      <3>2. \/ install' = install
            \/ install.pc # "bundle" /\ (Goes \/ Stops \/ Starts)
        <4>1. /\ {"receipt", "pair", "download", "run", "pairing", "enroll", "handoff",
                  "waitHere", "showHere", "waitThere", "showThere"} = OtherPcs
              /\ \A pc \in OtherPcs : pc # "bundle" /\ pc # "end"
              /\ "idle" # "bundle" /\ "shared" # "bundle" /\ "report" # "bundle"
          BY Zenon
        <4> HIDE DEF OtherPcs
        <4>2. CASE SharedLoopback \/ RemoteReceipt \/ FetchInstaller
          BY Zenon, <4>1, <4>2 DEF SharedLoopback, RemoteReceipt, FetchInstaller, InstallAt
        <4>3. CASE BeginPairing \/ PairingCall \/ PairingStops
          <5>1. /\ install.pc = "pair" \/ install.pc = "pairing"
                /\ \/ InstallTo("pairing") \/ InstallTo("enroll") \/ EndInstall("failed")
                   \/ install' = install
            BY Zenon, <4>3 DEF BeginPairing, PairingCall, PairingStops, InstallAt
          <5>2. "pair" # "bundle" /\ "pairing" # "bundle" /\ "pairing" \in OtherPcs /\ "enroll" \in OtherPcs
            BY Zenon DEF OtherPcs
          <5> QED
            BY Zenon, <5>1, <5>2
        <4>4. CASE AwaitEnrollment \/ HandoffCandidates
          BY Zenon, <4>1, <4>4 DEF AwaitEnrollment, HandoffCandidates, InstallAt
        <4>5. CASE VerifyRoutes
          BY Zenon, <4>1, <4>5 DEF VerifyRoutes, WaitRoute, ConfirmRoute, InstallAt
        <4>6. CASE \E pairs \in BOOLEAN : InstallCommand(pairs)
          BY Zenon, <4>1, <4>6 DEF InstallCommand, InstallAt
        <4> HIDE DEF Goes, Stops, Starts
        <4>7. \/ InstallSteps \/ install' = install
              \/ \E pairs \in BOOLEAN : InstallCommand(pairs)
          BY Zenon, <2>12 DEF InstallNext, Revocation, RouteBinds, RouteDrops, installVars, remoteVars
        <4> QED
          BY Zenon, <1>2, <2>12, <4>2, <4>3, <4>4, <4>5, <4>6, <4>7 DEF InstallSteps
      <3>3. \/ install' = install
            \/ install.pc # "bundle" /\ install'.pc # "token"
        <4>1. "token" \notin OtherPcs
          BY Zenon
        <4>2. Goes => install'.pc # "token"
          BY Zenon, <2>4, <4>1
        <4>3. Stops => install'.pc # "token"
          BY Zenon, <2>5, <2>6
        <4>4. Starts => install'.pc # "token"
          OBVIOUS
        <4> HIDE DEF Goes, Stops, Starts
        <4> QED
          BY Zenon, <3>2, <4>2, <4>3, <4>4
      <3>4. BundleAccepted' = BundleAccepted
        BY Zenon, <3>1 DEF BundleAccepted
      <3> QED
        BY Zenon, <2>1, <2>2, <3>3, <3>4, CountersKept
    <2> QED
      BY ZenonT(30), <2>2, <2>7, <2>8, <2>9, <2>10, <2>11, <2>12 DEF RssMovesOn
  <1> QED
    BY Zenon, <1>1, <1>2

LEMMA TokensInvariance == InstallSpec => [](DeviceTyped /\ TokensPaid)
PROOF
  <1>1. InstallInit => DeviceTyped /\ TokensPaid
    <2> SUFFICES ASSUME InstallInit PROVE DeviceTyped /\ TokensPaid
      BY Zenon
    <2>1. /\ setting \in Settings /\ tokens = 0 /\ trouble = 0 /\ install = NoInstall
          /\ route = [n \in Node |-> FALSE]
          /\ device = [software |-> IF setting.host = "remote" THEN "none" ELSE "shared",
                       rss |-> "none"]
      BY Zenon DEF InstallInit
    <2> QED
      BY <2>1 DEF NoInstall, DeviceTyped, TokensPaid
  <1>2. RInv /\ DeviceTyped /\ TokensPaid /\ [InstallNext]_installVars => DeviceTyped' /\ TokensPaid'
    BY Zenon, DeviceKept, TokensKept
  <1> QED
    BY <1>1, <1>2, InstallInvariance, PTL DEF InstallSpec

\* The remote account keeps its type, and at most one token more is issued for
\* it than calls failed (enroll_installed_rss_peer)
THEOREM InstallTypeCorrect == InstallSpec => []InstallTypeOK
PROOF
  <1>1. DeviceTyped /\ TokensPaid => InstallTypeOK
    BY DEF DeviceTyped, TokensPaid, InstallTypeOK
  <1> QED
    BY <1>1, TokensInvariance, PTL

\* A command that pairs succeeds only with both sides admitted, their scopes
\* equal and the route just shown, and no token is issued before both sides have
\* accepted each other (cmd_install, pair_installed_peer,
\* enroll_installed_rss_peer)
THEOREM PairingComesFirst == InstallSpec => PairedFirst
PROOF
  <1> DEFINE Done == install.pairs /\ install.pc # "idle" /\ install'.outcome = "done"
             Accepted == \A n \in Node : Accepts(n) # {}
             Success == /\ Accepted
                        /\ \A n \in Node : SynchronizationEligible(registry[n]) \/ Revokes(n) # {}
                        /\ registry[Here].groups = registry[There].groups
                        /\ route[There]
  <1>1. RInv /\ TokensPaid /\ [InstallNext]_installVars =>
          [(Done => Success) /\ (tokens' > tokens => Accepted)]_installVars
    <2> SUFFICES ASSUME RInv, TokensPaid, [InstallNext]_installVars
                 PROVE  (Done => Success) /\ (tokens' > tokens => Accepted)
      BY Zenon
    <2>1. Paired => Accepted
      BY Zenon DEF RInv, AInv, RowInv, GroupsAccepted, Accepts, Paired
    <2>2. install.pc \in PairedPcs => Paired
      BY Zenon DEF RInv, Running
    <2>3. {"token", "showThere"} \subseteq PairedPcs
      BY Zenon DEF PairedPcs
    <2>4. Done => install.pc = "showThere" /\ route[There]
      BY Zenon, DoneAtTheEnd
    <2>5. Done => Success
      <3>1. "showThere" \in PairedPcs
        BY Zenon, <2>3
      <3> QED
        BY Zenon, <2>1, <2>2, <2>4, <3>1 DEF Paired
    <2>6. tokens' > tokens => IssueToken
      <3>1. IssueToken \/ UNCHANGED tokens
        BY Zenon DEF InstallNext, InstallSteps, VerifyRoutes, InstallCommand, SharedLoopback,
           RemoteReceipt, FetchInstaller, RunRemoteInstaller, BeginPairing, PairingCall,
           PairingStops, ReadRssStatus, SendBundle, AwaitEnrollment, HandoffCandidates, WaitRoute,
           ConfirmRoute, DaemonRedeems, RssMovesOn, Revocation, RouteBinds, RouteDrops,
           installVars, remoteVars
      <3> QED
        BY <3>1 DEF TokensPaid
    <2>7. IssueToken => Accepted
      <3>1. "token" \in PairedPcs
        BY Zenon, <2>3
      <3> QED
        BY Zenon, <2>1, <2>2, <3>1 DEF IssueToken, InstallAt
    <2> QED
      BY Zenon, <2>5, <2>6, <2>7
  <1> QED
    BY <1>1, TokensInvariance, InstallInvariance, PTL DEF InstallSpec, PairedFirst

-----------------------------------------------------------------------------
(* Numbers have a first one, and so the theorems                           *)
LOCAL INSTANCE WellFoundedInduction

LEMMA FirstNumber == NumbersHaveFirst
  <1> SUFFICES ASSUME NEW S \in SUBSET Nat, S # {}
               PROVE  \E k \in S : \A m \in S : ~ (m < k)
    BY Zenon DEF NumbersHaveFirst
  <1>1. PICK k \in S : \A m \in S : ~ (<<m, k>> \in OpToRel(<, Nat))
    BY Zenon, NatLessThanWellFounded, WFMin
  <1> QED
    BY Zenon, <1>1 DEF OpToRel

\* A fresh store rebuilt from the history has the peer row the live store has,
\* unless the history has transactions about the node itself
\* (rebuild_secret_projections over peer.admission transactions)
THEOREM ReplaysToTheSameRow == AdmissionSpec => []ReplayAgrees
PROOF
  <1> DEFINE Replayed == \A n \in Node : ReplayInv(registry[n], history[n], n)
  <1>1. AdmissionInit => Replayed
    BY Zenon, FirstNumber, ReplayInit
  <1>2. AInv /\ Replayed /\ [AdmissionNext]_admissionVars => Replayed'
    <2> SUFFICES ASSUME AInv, Replayed, [AdmissionNext]_admissionVars PROVE Replayed'
      BY Zenon
    <2>1. \A n \in Node : ReplayInv(registry'[n], history'[n], n)
      BY Zenon, FirstNumber, StoreMoves, ReplaysKept DEF AInv
    <2> QED
      BY Zenon, <2>1 DEF ReplayInv, ReplayStart, ReplayOf, Replays, Foreign
  <1>3. Replayed => ReplayAgrees
    BY Zenon, ReplayAgreesIf
  <1> HIDE DEF Replayed
  <1> QED
    BY <1>1, <1>2, <1>3, AdmissionInvariance, PTL DEF AdmissionSpec

\* The inductive invariant: the admission module's, the replay of both
\* histories and the order of the session
THEOREM InvitationInvariance == InvitationSpec => []IInv
  <1>1. InvitationInit => IInv
    BY Zenon, FirstNumber, SessionStart
  <1>2. IInv /\ [InvitationNext]_invitationVars => IInv'
    <2> SUFFICES ASSUME IInv, [InvitationNext]_invitationVars PROVE IInv'
      BY Zenon
    <2>1. ASSUME NEW c \in Command, ApplyAdmission(c) PROVE IInv'
      BY Zenon, <2>1, FirstNumber, ApplyKeeps
    <2>2. ASSUME NEW c \in Command,
                 \/ Invite(c) \/ OperatorResumes(c) \/ Interrupt(c)
                 \/ CommandStep(c) /\ ~ApplyAdmission(c)
          PROVE  IInv'
      <3>1. SInv' /\ UNCHANGED admissionVars
        BY Zenon, <2>2, SessionStepKeeps DEF IInv
      <3>2. AInv'
        BY Zenon, <3>1, AdmissionStep DEF IInv
      <3>3. UNCHANGED <<registry, history>>
        BY Zenon, <3>1 DEF admissionVars
      <3> QED
        BY ZenonT(30), <3>1, <3>2, <3>3 DEF IInv
    <2>3. CASE DeadlinePasses \/ UNCHANGED invitationVars
      BY Zenon, <2>3, RestKeeps DEF DeadlinePasses, invitationVars, invitationOnly
    <2>4. CASE AdmissionMeanwhile
      BY Zenon, <2>4, FirstNumber, MeanwhileKeeps
    <2> QED
      BY ZenonT(30), <2>1, <2>2, <2>3, <2>4 DEF InvitationNext, CommandStep
  <1> QED
    BY <1>1, <1>2, PTL DEF InvitationSpec

\* However many approve commands run at once, and whatever admission commands
\* run in between, one approval leaves the source
\* (PeerInvitationFlow.approve over InvitationStateStore.save)
THEOREM OneApprovalLeaves == InvitationSpec => []OneApproval
  <1>1. IInv => OneApproval
    <2> SUFFICES ASSUME IInv PROVE OneApproval
      BY Zenon
    <2>1. SessionOrder /\ SessionHistory
      BY Zenon DEF IInv, SInv
    <2>2. /\ mailbox["approve"] \subseteq record[Here].staged
          /\ mailbox["complete"] \subseteq record[Here].staged
      BY Zenon, <2>1 DEF SessionOrder
    <2>3. ASSUME NEW n \in Node, NEW tx \in Recorded(n), tx.type = "accept", tx.origin = Here, tx.id < 0
          PROVE  tx \in record[Here].staged
      BY ZenonT(30), <2>1, <2>3 DEF SessionHistory, Recorded, OfSession
    <2> QED
      BY Zenon, <2>2, <2>3, TwoNodes DEF OneApproval
  <1> QED
    BY <1>1, InvitationInvariance, PTL

\* The two sides are admitted in order, however often either was interrupted
\* (approve, complete and confirm_completion)
THEOREM AdmissionInOrder == InvitationSpec => []AdmittedInOrder
  <1>1. IInv => AdmittedInOrder
    <2> SUFFICES ASSUME IInv PROVE AdmittedInOrder
      BY Zenon
    <2>1. SessionOrder /\ SessionHistory
      BY Zenon DEF IInv, SInv
    <2>2. JoinDecision \in Recorded(There) => Accepts(Here) # {}
      BY Zenon, <2>1, TwoNodes DEF SessionHistory, Recorded, OfSession
    <2>3. record[Here].phase = "complete" => Accepts(There) # {} /\ Waiting = {}
      BY Zenon, <2>1 DEF SessionOrder
    <2>4. Waiting = {} => (include_rss => rssReady)
      BY Zenon DEF Waiting
    <2> QED
      BY ZenonT(30), <2>2, <2>3, <2>4 DEF AdmittedInOrder
  <1> QED
    BY <1>1, InvitationInvariance, PTL

\* An invitation grants no scope that its node's operator did not accept
\* (apply_invitation_admission, "exact retries never regrant")
THEOREM InvitationGrants == InvitationSpec => [](ScopeWasGranted /\ OneDecisionPerRequest)
  <1>1. IInv => ScopeWasGranted /\ OneDecisionPerRequest
    BY Zenon, GrantedScope, DecidedRequests DEF IInv
  <1> QED
    BY <1>1, InvitationInvariance, PTL

\* The histories that invitations and admission commands leave together replay
\* to the rows of the live stores (rebuild_secret_projections)
THEOREM InvitationReplays == InvitationSpec => []ReplayAgrees
  <1>1. IInv => ReplayAgrees
    BY Zenon, ReplayAgreesIf DEF IInv
  <1> QED
    BY <1>1, InvitationInvariance, PTL

\* Neither an invitation nor an admission command makes a rejected or revoked
\* peer current again (apply_invitation_admission)
THEOREM InvitationSettled == InvitationSpec => AdmissionSettled
  <1> DEFINE Kept == \A n \in Node :
                        registry[n].keys = "real" /\ registry[n].state \in {"rejected", "revoked"} =>
                            registry'[n].state = registry[n].state
  <1>1. IInv /\ [InvitationNext]_invitationVars => [Kept]_admissionVars
    <2> SUFFICES ASSUME IInv, [InvitationNext]_invitationVars, NEW n \in Node, Settled(registry[n])
                 PROVE  registry'[n] = registry[n]
      BY Zenon DEF Settled
    <2>0. SInv /\ AInv
      BY Zenon DEF IInv
    <2>1. ASSUME NEW c \in Command, ApplyAdmission(c) PROVE registry'[n] = registry[n]
      <3> DEFINE m == RunsAt[c]
                 result == Outcome(m, command[c].record)
      <3>1. \/ UNCHANGED registry
            \/ result.ok /\ registry' = [registry EXCEPT ![m] = result.row]
        BY Zenon, <2>1 DEF ApplyAdmission
      <3>2. m \in Node /\ registry \in [Node -> RegistryRows]
        BY Zenon, <2>0, Known DEF AInv, Stores
      <3>3. PICK approval \in Approvals : command[c].record.staged = {approval}
        BY ZenonT(30), <2>0, <2>1, Admits DEF ApplyAdmission
      <3>4. CASE m = n /\ result.ok
        <4>1. result.row = registry[n]
          BY ZenonT(30), <3>2, <3>3, <3>4, OutcomeSettled
        <4> HIDE DEF result
        <4> QED
          BY ZenonT(30), <3>1, <3>2, <3>4, <4>1
      <3> HIDE DEF result
      <3> QED
        BY Zenon, <3>1, <3>2, <3>4
    <2>2. ASSUME NEW c \in Command,
                 \/ Invite(c) \/ OperatorResumes(c) \/ Interrupt(c)
                 \/ CommandStep(c) /\ ~ApplyAdmission(c)
          PROVE  registry'[n] = registry[n]
      BY Zenon, <2>0, <2>2, SessionStepKeeps DEF admissionVars
    <2>3. CASE DeadlinePasses \/ UNCHANGED invitationVars
      BY Zenon, <2>3 DEF DeadlinePasses, invitationVars, admissionVars
    <2>4. CASE AdmissionMeanwhile
      <3>1. Stores /\ StoresMove
        BY Zenon, <2>0, <2>4, StoreMoves DEF AdmissionMeanwhile, AdmissionNext, AInv
      <3> QED
        BY Zenon, <3>1, SettledStays
    <2> QED
      BY ZenonT(30), <2>1, <2>2, <2>3, <2>4 DEF InvitationNext, CommandStep
  <1> QED
    BY <1>1, InvitationInvariance, PTL DEF InvitationSpec, AdmissionSettled

=============================================================================
