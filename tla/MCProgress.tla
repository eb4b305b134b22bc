----------------------------- MODULE MCProgress -----------------------------
(***************************************************************************)
(* What must happen in the end, for the components outside the delivery    *)
(* path: bindings and relay rounds end, LAN discovery follows the network, *)
(* daemon commands return, and an interrupted invitation or installation   *)
(* that is run again succeeds.  A behaviour runs one component, chosen at  *)
(* the start, and the others rest.  The chosen part never changes, so that *)
(* a fairness condition of one part and one of another are a single        *)
(* condition on the disjunction of their actions.                          *)
(***************************************************************************)
EXTENDS TransportBinding, RelaySessions, MdnsDiscovery, DaemonLifecycle,
        PeerInvitation, RemoteInstall

VARIABLE part

progressVars == <<bindingVars, relayVars, mdnsVars, lifecycleVars,
                  invitationVars, remoteVars, part>>

MCRelays == <<"c1", "c2">>

MCPeerInfos ==
    {[peer |-> "p", addr |-> 1], [peer |-> "p", addr |-> 2], [peer |-> "me", addr |-> 1]}

MCMaxSigned == [n \in {"a", "b"} |-> [request |-> 3, decision |-> 3, revoke |-> 1]]
MCRunsAt == <<"a", "b">>

MCSettings == [host : {"remote", "joined", "unjoined"}, rss : {"none", "enrolled", "pending"}]

Rests(names, variables) == IF part \in names THEN TRUE ELSE UNCHANGED variables

\* A step of one part, in which the others rest
In(name, A) ==
    /\ part = name
    /\ A
    /\ Rests({"binding"}, bindingVars)
    /\ Rests({"relay"}, relayVars)
    /\ Rests({"mdns"}, mdnsVars)
    /\ Rests({"lifecycle"}, lifecycleVars)
    /\ Rests({"invitation", "install"}, admissionVars)
    /\ Rests({"invitation"}, invitationOnly)
    /\ Rests({"install"}, remoteVars)
    /\ UNCHANGED part

-----------------------------------------------------------------------------
\* A component that rests has one initial state; the installation rests where
\* the operator has to act.
ProgressInit ==
    /\ part \in {"binding", "relay", "mdns", "lifecycle", "invitation", "install"}
    /\ BindingInit /\ RelayInit /\ MdnsInit /\ LifecycleInit
    /\ InvitationInit /\ InstallInit
    /\ part # "relay" => token_file
    /\ part # "mdns" => lanUp
    /\ part # "lifecycle" => job.def = "none"
    /\ part # "invitation" => ~include_rss
    /\ part # "install" => setting = [host |-> "unjoined", rss |-> "none"]

\* No admission command runs beside an invitation.
ProgressNext ==
    \/ In("binding", BindingNext)
    \/ In("relay", RelayNext)
    \/ In("mdns", MdnsNext)
    \/ In("lifecycle", LifecycleNext)
    \/ In("invitation", InvitationNext /\ UNCHANGED minted)
    \/ In("install", InstallNext)

\* The conditions of BindingFairness, RelayFairness, MdnsFairness,
\* LifecycleFairness, InvitationFairness and InstallFairness, of different
\* parts side by side.
ProgressFairness ==
    /\ WF_progressVars(\/ In("binding", BindingWork)
                       \/ In("relay", RoundTimers)
                       \/ In("mdns", BrowserThread(1))
                       \/ In("lifecycle", ClientStep("s1"))
                       \/ In("invitation", CommandStep(1))
                       \/ In("install", InstallSteps))
    /\ WF_progressVars(\/ In("mdns", BrowserThread(2))
                       \/ In("lifecycle", ClientStep(Operator))
                       \/ In("invitation", CommandStep(2))
                       \/ In("install", InstallCommand(TRUE)))
    /\ WF_progressVars(\/ In("mdns", Callback)
                       \/ In("install", DaemonRedeems))
    /\ WF_progressVars(\/ In("mdns", RefreshThread)
                       \/ In("install", RouteBinds("a")))
    /\ WF_progressVars(\/ In("mdns", ScopeThread)
                       \/ In("install", RouteBinds("b")))
    /\ WF_progressVars(In("mdns", CleanupCloses))
    /\ SF_progressVars(In("invitation", \E c \in Command : ResumeInvite(c)))
    /\ SF_progressVars(In("invitation", \E c \in Command : Join(c) \/ ResumeJoin(c)))
    /\ SF_progressVars(In("invitation", \E c \in Command : ApproveReads(c)))

ProgressSpec == ProgressInit /\ [][ProgressNext]_progressVars /\ ProgressFairness

\* The components that no other instance runs keep their types.
ProgressTypesOK == AdmissionTypeOK /\ InvitationTypeOK /\ InstallTypeOK

\* Whatever a daemon begins it ends: every bind frees its peer, every relay round
\* closes, every start, stop or service command returns however many wait for
\* the same lock, and a stopped LAN discovery lets go of each of its memberships.
WorkEnds == BindsEnd /\ RoundsEnd /\ CommandsEnd /\ StopReleases

=============================================================================
