------------------------------ MODULE MCDaemon ------------------------------
(***************************************************************************)
(* The daemon as a process: its start and stop by the CLI, discovery on    *)
(* the LAN, the binding of a peer's transports, the relay sessions, the    *)
(* provisioning of the relay credential, and the removal of what it was    *)
(* installed with.  The components share no variable, so that a product of *)
(* them would only interleave unrelated steps: a behaviour runs one of     *)
(* them, chosen at the start, and the others rest.                         *)
(***************************************************************************)
EXTENDS TransportBinding, RelaySessions, RssProvisioning, MdnsDiscovery,
        DaemonLifecycle, Uninstall

VARIABLE part

mcDaemonVars ==
    <<bindingVars, relayVars, provisioningVars, mdnsVars, lifecycleVars, uninstallVars, part>>

MCRelays == <<"c1", "c2">>

MCPeerInfos ==
    {[peer |-> "p", addr |-> 1], [peer |-> "p", addr |-> 2], [peer |-> "q", addr |-> 1],
     [peer |-> "q", addr |-> 0], [peer |-> "me", addr |-> 1]}

MCGenerations == <<"g1", "g2">>
MCProfiles == <<"zshrc", "bashrc">>

\* Bound: two events change what the peer can be reached by; a third is a send.
BindingBound == events' <= 2 \/ sending' # Idle \/ events' = events

\* A component that rests has one initial state.
MCDaemonInit ==
    /\ part \in {"binding", "relay", "provisioning", "mdns", "lifecycle", "uninstall"}
    /\ BindingInit /\ RelayInit /\ ProvisioningInit /\ MdnsInit
    /\ LifecycleInit /\ UninstallInit
    /\ part # "relay" => token_file
    /\ part # "provisioning" => rss.owner = 0 /\ rss.exported = 0
    /\ part # "mdns" => lanUp
    /\ part # "lifecycle" => job.def = "none"
    /\ part # "uninstall" => checkUnits = {}

MCDaemonNext ==
    /\ UNCHANGED part
    /\ \/ /\ part = "binding" /\ BindingNext /\ BindingBound
          /\ UNCHANGED <<relayVars, provisioningVars, mdnsVars, lifecycleVars, uninstallVars>>
       \/ /\ part = "relay" /\ RelayNext
          /\ UNCHANGED <<bindingVars, provisioningVars, mdnsVars, lifecycleVars, uninstallVars>>
       \/ /\ part = "provisioning" /\ ProvisioningNext
          /\ UNCHANGED <<bindingVars, relayVars, mdnsVars, lifecycleVars, uninstallVars>>
       \/ /\ part = "mdns" /\ MdnsNext
          /\ UNCHANGED <<bindingVars, relayVars, provisioningVars, lifecycleVars, uninstallVars>>
       \/ /\ part = "lifecycle" /\ LifecycleNext
          /\ UNCHANGED <<bindingVars, relayVars, provisioningVars, mdnsVars, uninstallVars>>
       \/ /\ part = "uninstall" /\ UninstallNext
          /\ UNCHANGED <<bindingVars, relayVars, provisioningVars, mdnsVars, lifecycleVars>>

MCDaemonSpec == MCDaemonInit /\ [][MCDaemonNext]_mcDaemonVars

\* Every component keeps its types.
DaemonTypesOK ==
    /\ BindingTypeOK /\ RelayTypeOK /\ ProvisioningTypeOK
    /\ MdnsTypeOK /\ LifecycleTypeOK /\ UninstallTypeOK

=============================================================================
