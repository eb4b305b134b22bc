--------------------------- MODULE PeerInvitation ---------------------------
(***************************************************************************)
(* The encrypted invitation of runtime/peer_invitation.py, composed with   *)
(* the admission commands of PeerAdmission over the same two stores.  The  *)
(* source (Here) publishes an offer, the target (There) joins, the source  *)
(* approves, the target completes and the source observes the completion.  *)
(* Every phase is a command that may be run again, several at a time, and  *)
(* that may die between any two of its steps; its frames are staged in the *)
(* revisioned state store before they are written to the mailbox.  The     *)
(* mailbox is a service outside the repository.                            *)
(***************************************************************************)
EXTENDS PeerAdmission

CONSTANTS
    Command,      \* command processes
    RunsAt,       \* RunsAt[c]: the node whose operator runs command c
    MaxFaults     \* interruptions and failed mailbox calls

ASSUME InvitationAssumption ==
    /\ Command \subseteq Nat \ {0}
    /\ RunsAt \in [Command -> Node]
    /\ MaxFaults \in Nat

VARIABLES
    record,       \* record[n]: the invitation_state row of the session at n
    mailbox,      \* frames stored by the invitation service
    command,      \* command[c]: progress of one command process
    include_rss,  \* the offer also asks for RSS enrollment of the target
    rssReady,     \* the target's relay profile is configured
    expired,      \* the 15-minute deadline has passed
    faults

invitationOnly == <<record, mailbox, command, include_rss, rssReady, expired, faults>>
invitationVars == <<admissionVars, invitationOnly>>

NoRecord == [rev |-> 0, phase |-> "none", staged |-> {}]
NoCommand == [pc |-> "idle", record |-> NoRecord]

(* The proofs of the session: both requests and the target's decision are   *)
(* signed once; each approve command would sign a decision of its own.      *)
(* Identifiers are fresh: those of a session are negative numbers.          *)
OfferRequest == RequestProof(Here, -1)
JoinRequest == RequestProof(There, -1)
JoinDecision == DecisionProof(There, "accept", OfferRequest, PairScope, -1)
ApproveDecision(c) == DecisionProof(Here, "accept", JoinRequest, PairScope, -c)

(***************************************************************************)
(* The state store.  save commits only against the revision it was read    *)
(* at; read and save both refuse a session past its deadline.              *)
(***************************************************************************)
\* A bug: the revision is not compared.
CanSaveStale(n, revision) == ~expired
CanSave(n, revision) == ~expired /\ record[n].rev = revision

Loads(n) == record[n].phase # "none" /\ ~expired

At(c, pc) == command[c].pc = pc
Moves(c, pc, held) == command' = [command EXCEPT ![c] = [pc |-> pc, record |-> held]]
Ends(c) == Moves(c, "idle", NoRecord)

(* Save the command's copy of the record and go on, or end on a conflict.   *)
SaveOrEnd(c, held, next) ==
    LET n == RunsAt[c]
        stored == [held EXCEPT !.rev = @ + 1]
    IN  \/ CanSave(n, held.rev) /\ record' = [record EXCEPT ![n] = stored] /\ Moves(c, next, stored)
        \/ ~CanSave(n, held.rev) /\ UNCHANGED record /\ Ends(c)

(* Save a phase unless the copy the command holds has already passed it.    *)
SavePhase(c, pc, phase, passed, next) ==
    /\ At(c, pc)
    /\ \/ command[c].record.phase \notin passed
          /\ SaveOrEnd(c, [command[c].record EXCEPT !.phase = phase], next)
       \/ command[c].record.phase \in passed
          /\ Moves(c, next, command[c].record) /\ UNCHANGED record
    /\ UNCHANGED <<admissionVars, mailbox, include_rss, rssReady, expired, faults>>

(* The mailbox keeps the first frame of a stage and accepts its repetition. *)
Stored(stage, frame) ==
    /\ mailbox[stage] \in {{}, {frame}}
    /\ mailbox' = [mailbox EXCEPT ![stage] = {frame}]

(***************************************************************************)
(* peer invite, and peer invite --resume.                                  *)
(***************************************************************************)
Invite(c) ==
    /\ RunsAt[c] = Here /\ At(c, "idle") /\ record[Here].phase = "none" /\ ~expired
    /\ record' = [record EXCEPT ![Here] = [rev |-> 1, phase |-> "created", staged |-> {}]]
    /\ Moves(c, "publish_offer", NoRecord)
    /\ UNCHANGED <<admissionVars, mailbox, include_rss, rssReady, expired, faults>>

ResumeInvite(c) ==
    /\ RunsAt[c] = Here /\ At(c, "idle") /\ Loads(Here)
    /\ Moves(c, "publish_offer", NoRecord)
    /\ UNCHANGED <<admissionVars, record, mailbox, include_rss, rssReady, expired, faults>>

PublishOffer(c) ==
    /\ At(c, "publish_offer") /\ Loads(Here)
    /\ Stored("offer", OfferRequest)
    /\ Moves(c, "save_offered", record[Here])
    /\ UNCHANGED <<admissionVars, record, include_rss, rssReady, expired, faults>>

OfferPhases == {"offered", "approval_staged", "approved", "complete"}
SaveOffered(c) == SavePhase(c, "save_offered", "offered", OfferPhases, "idle")

(***************************************************************************)
(* peer join: consent, stage the join, publish it, and go on to complete.  *)
(***************************************************************************)
Retained(row) == row.keys = "real" /\ EligibleFor(row, PairGroup)

RetainedOrNew(n) == include_rss => registry[n].state = "none" \/ Retained(registry[n])

Join(c) ==
    /\ RunsAt[c] = There /\ At(c, "idle") /\ mailbox.offer # {} /\ ~expired
    /\ record[There].phase = "none"
    /\ RetainedOrNew(There)
    /\ record' = [record EXCEPT ![There] = [rev |-> 1, phase |-> "join_staged", staged |-> {}]]
    /\ Moves(c, "publish_join", NoRecord)
    /\ UNCHANGED <<admissionVars, mailbox, include_rss, rssReady, expired, faults>>

ResumeJoin(c) ==
    /\ RunsAt[c] = There /\ At(c, "idle") /\ Loads(There)
    /\ Moves(c, "publish_join", NoRecord)
    /\ UNCHANGED <<admissionVars, record, mailbox, include_rss, rssReady, expired, faults>>

PublishJoin(c) ==
    /\ At(c, "publish_join") /\ Loads(There)
    /\ Stored("join", JoinRequest)
    /\ Moves(c, "save_joined", record[There])
    /\ UNCHANGED <<admissionVars, record, include_rss, rssReady, expired, faults>>

JoinPhases == {"joined", "completion_staged", "complete"}
SaveJoined(c) == SavePhase(c, "save_joined", "joined", JoinPhases, "complete")

(* complete: read the approval, stage the confirmation that names it.       *)
CompleteReads(c) ==
    /\ At(c, "complete") /\ Loads(There) /\ mailbox.approve # {}
    /\ record[There].staged \in {{}, mailbox.approve}
    /\ Moves(c, IF record[There].staged = {} THEN "stage_complete" ELSE "apply", record[There])
    /\ UNCHANGED <<admissionVars, record, mailbox, include_rss, rssReady, expired, faults>>

StageComplete(c) ==
    /\ At(c, "stage_complete")
    /\ SaveOrEnd(c, [rev |-> command[c].record.rev, phase |-> "completion_staged",
                     staged |-> mailbox.approve], "apply")
    /\ UNCHANGED <<admissionVars, mailbox, include_rss, rssReady, expired, faults>>

(***************************************************************************)
(* peer approve: verify the join, record consent and the decision, apply,  *)
(* publish.  Enrollment of the target may be refused for capacity, which   *)
(* ends the command before anything is staged (CommandFails).              *)
(***************************************************************************)
\* A bug: an approval already staged is not resumed.
ApproveReadsOnce(c) ==
    /\ RunsAt[c] = Here /\ At(c, "idle") /\ Loads(Here) /\ mailbox.join # {}
    /\ RetainedOrNew(Here) /\ record[Here].staged = {}
    /\ Moves(c, "stage_approve", record[Here])
    /\ UNCHANGED <<admissionVars, record, mailbox, include_rss, rssReady, expired, faults>>

ApproveReads(c) ==
    /\ RunsAt[c] = Here /\ At(c, "idle") /\ Loads(Here) /\ mailbox.join # {}
    /\ RetainedOrNew(Here)
    /\ Moves(c, IF record[Here].staged = {} THEN "stage_approve" ELSE "apply", record[Here])
    /\ UNCHANGED <<admissionVars, record, mailbox, include_rss, rssReady, expired, faults>>

StageApprove(c) ==
    /\ At(c, "stage_approve")
    /\ SaveOrEnd(c, [rev |-> command[c].record.rev, phase |-> "approval_staged",
                     staged |-> {ApproveDecision(c)}], "apply")
    /\ UNCHANGED <<admissionVars, mailbox, include_rss, rssReady, expired, faults>>

(***************************************************************************)
(* apply_invitation_admission: the four proofs in one SQLite transaction,  *)
(* a proof already recorded being skipped whole.                           *)
(***************************************************************************)
Proofs(n, held) ==
    LET approval == CHOOSE tx \in held.staged : TRUE
    IN  IF n = Here
        THEN <<[tx |-> OfferRequest, policy |-> "outbound_request"], [tx |-> JoinRequest, policy |-> "local"],
               [tx |-> approval, policy |-> "local"], [tx |-> JoinDecision, policy |-> "inbound_decision"]>>
        ELSE <<[tx |-> JoinRequest, policy |-> "outbound_request"], [tx |-> OfferRequest, policy |-> "local"],
               [tx |-> JoinDecision, policy |-> "local"], [tx |-> approval, policy |-> "inbound_decision"]>>

(* submit_transaction with ignore_duplicate, on the store as the proofs     *)
(* before it left it.                                                       *)
SubmitNext(n, seen, proof) ==
    IF ~seen.ok \/ \E i \in DOMAIN seen.log : seen.log[i] = proof.tx THEN seen
    ELSE [ok  |-> proof.policy = "local" => Projects(seen.row, proof.tx),
          row |-> RowAfter(n, seen.row, proof.tx, proof.policy),
          log |-> Append(seen.log, proof.tx)]

Outcome(n, held) ==
    LET proofs == Proofs(n, held)
        one    == SubmitNext(n, [ok |-> TRUE, row |-> registry[n], log |-> history[n]], proofs[1])
        two    == SubmitNext(n, one, proofs[2])
        three  == SubmitNext(n, two, proofs[3])
    IN  SubmitNext(n, three, proofs[4])

RemoteRequest(n) == IF n = Here THEN JoinRequest ELSE OfferRequest

(* Established admission is kept as it is: refused, or (with RSS) retained. *)
Established(n) ==
    \/ include_rss /\ registry[n].state # "none"
    \/ registry[n].state = "active" /\ RemoteRequest(n) \notin Recorded(n)

AfterApply(n) == IF n = Here THEN "put_approve" ELSE "configure"

ApplyAdmission(c) ==
    LET n == RunsAt[c]
        held == command[c].record
    IN  /\ At(c, "apply")
        /\ \E result \in {Outcome(n, held)} :
           \/ /\ ~Established(n) /\ result.ok
              /\ registry' = [registry EXCEPT ![n] = result.row]
              /\ history' = [history EXCEPT ![n] = result.log]
              /\ Moves(c, AfterApply(n), held)
           \/ /\ Established(n) /\ include_rss /\ Retained(registry[n])
              /\ Moves(c, AfterApply(n), held) /\ UNCHANGED <<registry, history>>
           \/ /\ IF Established(n) THEN ~(include_rss /\ Retained(registry[n])) ELSE ~result.ok
              /\ Ends(c) /\ UNCHANGED <<registry, history>>
        /\ UNCHANGED <<inHand, deciding, minted, pair, record, mailbox, include_rss, rssReady, expired, faults>>

ConfigureTarget(c) ==
    /\ At(c, "configure")
    /\ rssReady' = (rssReady \/ include_rss)
    /\ Moves(c, "put_complete", command[c].record)
    /\ UNCHANGED <<admissionVars, record, mailbox, include_rss, expired, faults>>

PutFrame(c, pc, stage, next) ==
    /\ At(c, pc)
    /\ Stored(stage, CHOOSE tx \in command[c].record.staged : TRUE)
    /\ Moves(c, next, command[c].record)
    /\ UNCHANGED <<admissionVars, record, include_rss, rssReady, expired, faults>>

PutComplete(c) == PutFrame(c, "put_complete", "complete", "save_complete")
SaveComplete(c) == SavePhase(c, "save_complete", "complete", {"complete"}, "idle")

PutApprove(c) == PutFrame(c, "put_approve", "approve", "save_approved")
SaveApproved(c) == SavePhase(c, "save_approved", "approved", {"approved", "complete"}, "confirm")

(* confirm_completion: the target's acknowledgment of this very decision.   *)
\* A bug: the source closes the session once its approval is stored.
ConfirmUnread(c) ==
    /\ At(c, "confirm") /\ Loads(Here) /\ record[Here].phase \in {"approved", "complete"}
    /\ \/ record[Here].phase = "complete" /\ Ends(c) /\ UNCHANGED record
       \/ record[Here].phase # "complete" /\ SaveOrEnd(c, [record[Here] EXCEPT !.phase = "complete"], "idle")
    /\ UNCHANGED <<admissionVars, mailbox, include_rss, rssReady, expired, faults>>

Confirm(c) ==
    /\ At(c, "confirm") /\ Loads(Here) /\ record[Here].phase \in {"approved", "complete"}
    /\ mailbox.complete = record[Here].staged
    /\ \/ record[Here].phase = "complete" /\ Ends(c) /\ UNCHANGED record
       \/ record[Here].phase # "complete" /\ SaveOrEnd(c, [record[Here] EXCEPT !.phase = "complete"], "idle")
    /\ UNCHANGED <<admissionVars, mailbox, include_rss, rssReady, expired, faults>>

(***************************************************************************)
(* A command that cannot take its next step ends with its error: the       *)
(* deadline, a frame that is not there yet, a refused frame.               *)
(***************************************************************************)
CommandFails(c) ==
    /\ \/ At(c, "publish_offer") /\ ~Loads(Here)
       \/ At(c, "publish_join") /\ ~(Loads(There) /\ mailbox.join \in {{}, {JoinRequest}})
       \/ At(c, "complete") /\ ~(Loads(There) /\ mailbox.approve # {}
                                 /\ record[There].staged \in {{}, mailbox.approve})
       \/ At(c, "put_approve") /\ mailbox.approve \notin {{}, command[c].record.staged}
       \/ At(c, "put_complete") /\ mailbox.complete \notin {{}, command[c].record.staged}
       \/ At(c, "confirm") /\ ~(Loads(Here) /\ mailbox.complete = record[Here].staged)
    /\ Ends(c)
    /\ UNCHANGED <<admissionVars, record, mailbox, include_rss, rssReady, expired, faults>>

(* The process dies, or a mailbox or capacity request fails, between steps; *)
(* a mailbox write whose answer is lost is the write followed by this.      *)
Interrupt(c) ==
    /\ faults < MaxFaults /\ ~At(c, "idle")
    /\ faults' = faults + 1 /\ Ends(c)
    /\ UNCHANGED <<admissionVars, record, mailbox, include_rss, rssReady, expired>>

DeadlinePasses ==
    /\ ~expired /\ record[Here].phase # "none" /\ expired' = TRUE
    /\ UNCHANGED <<admissionVars, record, mailbox, command, include_rss, rssReady, faults>>

-----------------------------------------------------------------------------
InvitationInit ==
    /\ AdmissionInit
    /\ record = [n \in Node |-> NoRecord]
    /\ mailbox = [stage \in {"offer", "join", "approve", "complete"} |-> {}]
    /\ command = [c \in Command |-> NoCommand]
    /\ include_rss \in BOOLEAN
    /\ rssReady = FALSE /\ expired = FALSE /\ faults = 0

CommandStep(c) ==
    \/ PublishOffer(c) \/ SaveOffered(c)
    \/ PublishJoin(c) \/ SaveJoined(c) \/ CompleteReads(c) \/ StageComplete(c)
    \/ StageApprove(c) \/ ApplyAdmission(c) \/ ConfigureTarget(c)
    \/ PutComplete(c) \/ SaveComplete(c) \/ PutApprove(c) \/ SaveApproved(c)
    \/ Confirm(c) \/ CommandFails(c)

OperatorResumes(c) == ResumeInvite(c) \/ Join(c) \/ ResumeJoin(c) \/ ApproveReads(c)

(* Admission commands of either operator run in between.                    *)
AdmissionMeanwhile == PeerCommands /\ UNCHANGED invitationOnly

InvitationNext ==
    \/ \E c \in Command : Invite(c) \/ OperatorResumes(c) \/ CommandStep(c) \/ Interrupt(c)
    \/ DeadlinePasses
    \/ AdmissionMeanwhile

(* A started command runs on, and each operator reruns the commands of the  *)
(* session that can still make progress, as the documentation asks.         *)
InvitationFairness ==
    /\ \A c \in Command : WF_invitationVars(CommandStep(c))
    /\ SF_invitationVars(\E c \in Command : ResumeInvite(c))
    /\ SF_invitationVars(\E c \in Command : Join(c) \/ ResumeJoin(c))
    /\ SF_invitationVars(\E c \in Command : ApproveReads(c))

InvitationSpec == InvitationInit /\ [][InvitationNext]_invitationVars
FairInvitationSpec == InvitationSpec /\ InvitationFairness

-----------------------------------------------------------------------------
(* Records, frames and commands of a session have the shapes of the state   *)
(* store and of the mailbox.                                                *)
InvitationTypeOK ==
    /\ record[Here].phase \in {"none", "created"} \cup OfferPhases
    /\ record[There].phase \in {"none", "join_staged"} \cup JoinPhases
    /\ \A n \in Node : Cardinality(record[n].staged) <= 1
    /\ \A stage \in DOMAIN mailbox : Cardinality(mailbox[stage]) <= 1
    /\ faults \in 0..MaxFaults

(* However many approve commands run at once, one approval leaves the       *)
(* source: what is published, recorded at either node or acknowledged is    *)
(* the decision its state store has staged.                                 *)
(* (PeerInvitationFlow.approve over InvitationStateStore.save)              *)
OneApproval ==
    LET given == {tx \in Recorded(Here) \cup Recorded(There) :
                     tx.type = "accept" /\ tx.origin = Here /\ tx.id < 0}
    IN  given \cup mailbox.approve \cup mailbox.complete \subseteq record[Here].staged

(* The two sides are admitted in order, however often either was            *)
(* interrupted.  When the target applies an approval the source has already *)
(* recorded its own acceptance (approve applies before it publishes); a     *)
(* session the source closed as complete is admitted at the target, with    *)
(* its relay profile configured when the offer included RSS (complete       *)
(* stages, applies, configures, publishes; confirm_completion reads).       *)
AdmittedInOrder ==
    /\ JoinDecision \in Recorded(There) => Accepts(Here) # {}
    /\ record[Here].phase = "complete" => Accepts(There) # {} /\ (include_rss => rssReady)

(* Interrupted anywhere, a session that is run again before its deadline is *)
(* completed on both sides, unless admission commands interfere.            *)
(* ("Persist phase frames before network writes, and reuse them on resume") *)
SessionCompletes ==
    (record[Here].phase # "none") ~>
        \/ record[Here].phase = "complete"
        \/ expired \/ \E n \in Node : minted[n] # [request |-> 0, decision |-> 0, revoke |-> 0]
=============================================================================
