------------------------------ MODULE MCPeers -------------------------------
(***************************************************************************)
(* How two nodes become peers: by admission commands and SSH pairing, or   *)
(* by an invitation, which works on the same registries.  A behaviour runs *)
(* one of the two, chosen at the start.                                    *)
(***************************************************************************)
EXTENDS PeerInvitation

VARIABLE part

peersVars == <<invitationVars, part>>

Signs(requests, decisions, revocations) ==
    [request |-> requests, decision |-> decisions, revoke |-> revocations]

MCMaxSigned == [a |-> Signs(1, 2, 1), b |-> Signs(2, 1, 1)]

\* The commands 1 and 2 of the source, so that two approvals may overlap, and
\* the command 3 of the target.
MCRunsAt == <<"a", "a", "b">>

\* Bounds: where registries change by commands alone only "b" revokes, or asks
\* again; beside an invitation "a" revokes or a command meets a fault, once.
CommandsOnly == minted'["a"].revoke = 0 /\ minted'["b"].request + minted'["b"].revoke <= 2
InvitationOnly ==
    /\ \A n \in Node : minted'[n].request = 0 /\ minted'[n].decision = 0
    /\ minted'["b"].revoke = 0
    /\ minted'["a"].revoke + faults' <= 1

\* Without an invitation the offer's content is of no account.
PeersInit ==
    /\ part \in {"admission", "invitation"}
    /\ InvitationInit
    /\ part = "admission" => ~include_rss

PeersNext ==
    /\ UNCHANGED part
    /\ \/ part = "admission" /\ AdmissionNext /\ CommandsOnly /\ UNCHANGED invitationOnly
       \/ part = "invitation" /\ InvitationNext /\ InvitationOnly

PeersSpec == PeersInit /\ [][PeersNext]_peersVars

=============================================================================
