--------------------------- MODULE RemoteInstall ---------------------------
(***************************************************************************)
(* "seckit install user@host": one command of the local operator that      *)
(* installs the software on another account over SSH and then pairs the    *)
(* two nodes (pair_installed_peer, taken from PeerAdmission), gives the    *)
(* remote device its RSS enrollment, hands over dial hints and waits for   *)
(* an authorized route on both sides.  Every SSH call can fail, before or  *)
(* after its effect; the operator then runs the same command again.        *)
(* Meanwhile the remote user may enroll in RSS, a token may expire, routes *)
(* come and go and either side may revoke the other.                       *)
(***************************************************************************)
EXTENDS PeerAdmission

CONSTANTS
    Settings,      \* [host, rss]: what kind of target, the local RSS state
    MaxTrouble     \* bound on failed calls and on what others do meanwhile

VARIABLES
    setting,       \* the member of Settings this behaviour is about
    device,        \* the remote account: its software and its RSS state
    route,         \* route[n]: n's daemon has an authorized route to the other
    install,       \* the command
    tokens,        \* RSS enrollment tokens issued for the remote device
    trouble

remoteVars == <<setting, device, route, install, tokens, trouble>>
installVars == <<admissionVars, remoteVars>>

NoInstall == [pc |-> "idle", pairs |-> FALSE, outcome |-> "none"]

InstallAt(pc) == install.pc = pc
InstallTo(pc) == install' = [install EXCEPT !.pc = pc]
EndInstall(outcome) == install' = [install EXCEPT !.pc = "idle", !.outcome = outcome]
SpendTrouble == trouble < MaxTrouble /\ trouble' = trouble + 1
NoTrouble == UNCHANGED trouble
AdmissionsKept == UNCHANGED admissionVars

---------------------------------------------------------------------------
\* cmd_install, the remote part.  --upgrade, --repair, --no-init and
\* --install-only do not pair; pairing needs a terminal.
InstallCommand(pairs) ==
    /\ InstallAt("idle")
    /\ install' = [pc |-> IF pairs THEN "shared" ELSE "download",
                   pairs |-> pairs, outcome |-> "none"]
    /\ IF pairs THEN NoTrouble ELSE SpendTrouble
    /\ AdmissionsKept
    /\ UNCHANGED <<setting, device, route, tokens>>

\* _shared_loopback_launcher: two joined users of one shared installation
\* only pair; a loopback target that is not joined ends the command.
SharedLoopback ==
    /\ InstallAt("shared")
    /\ \/ setting.host = "remote" /\ InstallTo("receipt") /\ NoTrouble
       \/ setting.host = "joined" /\ InstallTo("pair") /\ NoTrouble
       \/ setting.host = "joined" /\ EndInstall("failed") /\ SpendTrouble
       \/ setting.host = "unjoined" /\ EndInstall("failed") /\ NoTrouble
    /\ AdmissionsKept
    /\ UNCHANGED <<setting, device, route, tokens>>

\* _matching_remote_receipt: a failed probe reads as no receipt.
RemoteReceipt ==
    /\ InstallAt("receipt")
    /\ \/ device.software = "matching" /\ InstallTo("pair") /\ NoTrouble
       \/ device.software # "matching" /\ InstallTo("download") /\ NoTrouble
       \/ device.software = "matching" /\ InstallTo("download") /\ SpendTrouble
    /\ AdmissionsKept
    /\ UNCHANGED <<setting, device, route, tokens>>

\* _verified_remote_installer or _download_explicit_installer.
FetchInstaller ==
    /\ InstallAt("download")
    /\ \/ InstallTo("run") /\ NoTrouble
       \/ EndInstall("failed") /\ SpendTrouble
    /\ AdmissionsKept
    /\ UNCHANGED <<setting, device, route, tokens>>

\* ssh host bash -s: a broken connection may leave the software installed.
RunRemoteInstaller ==
    /\ InstallAt("run")
    /\ \/ /\ device' = [device EXCEPT !.software = "matching"]
          /\ IF install.pairs THEN InstallTo("pair") ELSE EndInstall("done")
          /\ NoTrouble
       \/ /\ \E result \in {device.software, "matching"} :
                 device' = [device EXCEPT !.software = result]
          /\ EndInstall("failed") /\ SpendTrouble
    /\ AdmissionsKept
    /\ UNCHANGED <<setting, route, tokens>>

---------------------------------------------------------------------------
\* pair_installed_peer.

\* Both registries are read first: with rows on either side the command
\* preserves a mutual admission and refuses anything else.
BeginPairing ==
    /\ InstallAt("pair") /\ PairStart
    /\ IF pair'.step = 1 THEN InstallTo("pairing")
       ELSE IF pair'.outcome = "preserved" THEN InstallTo("enroll")
       ELSE EndInstall("failed")
    /\ NoTrouble
    /\ UNCHANGED <<setting, device, route, tokens>>

PairingCall ==
    /\ InstallAt("pairing") /\ PairCall
    /\ IF pair'.outcome = "complete" THEN InstallTo("enroll") ELSE UNCHANGED install
    /\ NoTrouble
    /\ UNCHANGED <<setting, device, route, tokens>>

\* The operator declines, a call fails, or what it finds is refused.
PairingStops ==
    /\ InstallAt("pairing") /\ PairStops
    /\ IF ENABLED PairCall THEN SpendTrouble ELSE NoTrouble
    /\ EndInstall("failed")
    /\ UNCHANGED <<setting, device, route, tokens>>

---------------------------------------------------------------------------
\* enroll_installed_rss_peer.

\* Mutant of ReadRssStatus: a pending enrollment gets another token.
ReissuesPending ==
    /\ InstallAt("enroll")
    /\ \/ setting.rss = "none" /\ InstallTo("handoff")
       \/ setting.rss = "pending" /\ EndInstall("failed")
       \/ /\ setting.rss = "enrolled"
          /\ \/ device.rss = "foreign" /\ EndInstall("failed")
             \/ device.rss = "enrolled" /\ InstallTo("handoff")
             \/ device.rss \in {"none", "expired", "pending"} /\ InstallTo("token")
    /\ NoTrouble /\ AdmissionsKept
    /\ UNCHANGED <<setting, device, route, tokens>>

\* Mutant of ReadRssStatus: an expired token is resumed, not replaced.
ResumesExpired ==
    /\ InstallAt("enroll")
    /\ \/ setting.rss = "none" /\ InstallTo("handoff")
       \/ setting.rss = "pending" /\ EndInstall("failed")
       \/ /\ setting.rss = "enrolled"
          /\ \/ device.rss = "foreign" /\ EndInstall("failed")
             \/ device.rss = "enrolled" /\ InstallTo("handoff")
             \/ device.rss \in {"pending", "expired"} /\ InstallTo("report")
             \/ device.rss = "none" /\ InstallTo("token")
    /\ NoTrouble /\ AdmissionsKept
    /\ UNCHANGED <<setting, device, route, tokens>>

\* The local credentials, then "rss local-status" on the target.
ReadRssStatus ==
    /\ InstallAt("enroll")
    /\ \/ setting.rss = "none" /\ InstallTo("handoff") /\ NoTrouble
       \/ setting.rss = "pending" /\ EndInstall("failed") /\ NoTrouble
       \/ /\ setting.rss = "enrolled" /\ NoTrouble
          /\ \/ device.rss = "foreign" /\ EndInstall("failed")
             \/ device.rss = "enrolled" /\ InstallTo("handoff")
             \/ device.rss = "pending" /\ InstallTo("report")
             \/ device.rss \in {"none", "expired"} /\ InstallTo("token")
       \/ setting.rss = "enrolled" /\ EndInstall("failed") /\ SpendTrouble
    /\ AdmissionsKept
    /\ UNCHANGED <<setting, device, route, tokens>>

\* admin_action("device.ret"): a lost answer leaves an issued token behind.
IssueToken ==
    /\ InstallAt("token")
    /\ \/ tokens' = tokens + 1 /\ InstallTo("bundle") /\ NoTrouble
       \/ tokens' \in {tokens, tokens + 1} /\ EndInstall("failed") /\ SpendTrouble
    /\ AdmissionsKept
    /\ UNCHANGED <<setting, device, route>>

\* configure_rss_provisioning_bundle on the target: a configured device is
\* preserved unless its token has expired.
BundleAccepted == device.rss \in {"none", "expired"}

\* "rss enroll --bundle-stdin", with the state as it is when it arrives.
SendBundle ==
    /\ InstallAt("bundle")
    /\ \/ /\ BundleAccepted /\ device' = [device EXCEPT !.rss = "pending"]
          /\ InstallTo("report") /\ NoTrouble
       \/ ~BundleAccepted /\ EndInstall("failed") /\ NoTrouble /\ UNCHANGED device
       \/ /\ device' \in {device} \cup (IF BundleAccepted
                                        THEN {[device EXCEPT !.rss = "pending"]} ELSE {})
          /\ EndInstall("failed") /\ SpendTrouble
    /\ AdmissionsKept
    /\ UNCHANGED <<setting, route, tokens>>

\* The remote command waits for its daemon to authenticate, then gives up.
AwaitEnrollment ==
    /\ InstallAt("report")
    /\ IF device.rss = "enrolled" THEN InstallTo("handoff") ELSE EndInstall("failed")
    /\ NoTrouble /\ AdmissionsKept
    /\ UNCHANGED <<setting, device, route, tokens>>

---------------------------------------------------------------------------
\* handoff_direct_candidates and verify_authorized_route.

\* Two status calls that must work; the hints themselves are best effort.
HandoffCandidates ==
    /\ InstallAt("handoff")
    /\ \/ InstallTo("waitHere") /\ NoTrouble
       \/ EndInstall("failed") /\ SpendTrouble
    /\ AdmissionsKept
    /\ UNCHANGED <<setting, device, route, tokens>>

\* _wait_route_command: the daemon's route event, or a timeout.
WaitRoute(n, pc, next) ==
    /\ InstallAt(pc)
    /\ \/ route[n] /\ InstallTo(next) /\ NoTrouble
       \/ ~route[n] /\ EndInstall("failed") /\ NoTrouble
       \/ route[n] /\ EndInstall("failed") /\ SpendTrouble
    /\ AdmissionsKept
    /\ UNCHANGED <<setting, device, route, tokens>>

\* Mutant of ConfirmRoute: what the wait saw is trusted.
TrustsWait(n, pc, next) ==
    /\ InstallAt(pc) /\ NoTrouble
    /\ IF next = "end" THEN EndInstall("done") ELSE InstallTo(next)
    /\ AdmissionsKept
    /\ UNCHANGED <<setting, device, route, tokens>>

\* The status read after the wait must still show the route.
ConfirmRoute(n, pc, next) ==
    /\ InstallAt(pc)
    /\ \/ /\ route[n] /\ NoTrouble
          /\ IF next = "end" THEN EndInstall("done") ELSE InstallTo(next)
       \/ ~route[n] /\ EndInstall("failed") /\ NoTrouble
    /\ AdmissionsKept
    /\ UNCHANGED <<setting, device, route, tokens>>

VerifyRoutes ==
    \/ WaitRoute(Here, "waitHere", "showHere")
    \/ ConfirmRoute(Here, "showHere", "waitThere")
    \/ WaitRoute(There, "waitThere", "showThere")
    \/ ConfirmRoute(There, "showThere", "end")

---------------------------------------------------------------------------
\* What others do.

\* The target's daemon redeems its token; external to this command.
DaemonRedeems ==
    /\ device.rss = "pending"
    /\ device' = [device EXCEPT !.rss = "enrolled"]
    /\ NoTrouble /\ AdmissionsKept
    /\ UNCHANGED <<setting, route, install, tokens>>

\* The token expires, or the remote user enrolls the device on their own.
RssMovesOn ==
    /\ SpendTrouble
    /\ \/ device.rss = "pending" /\ device' = [device EXCEPT !.rss = "expired"]
       \/ /\ device.rss = "none" /\ device.software # "none"
          /\ \E own \in {"pending", "foreign"} : device' = [device EXCEPT !.rss = own]
    /\ AdmissionsKept
    /\ UNCHANGED <<setting, route, install, tokens>>

\* verify_transport_binding lets n bind a peer it has admitted.
RouteBinds(n) ==
    /\ ~route[n] /\ \A m \in Node : SynchronizationEligible(registry[m])
    /\ route' = [route EXCEPT ![n] = TRUE]
    /\ NoTrouble /\ AdmissionsKept
    /\ UNCHANGED <<setting, device, install, tokens>>

RouteDrops(n) ==
    /\ route[n] /\ SpendTrouble
    /\ route' = [route EXCEPT ![n] = FALSE]
    /\ AdmissionsKept
    /\ UNCHANGED <<setting, device, install, tokens>>

Revocation ==
    /\ SpendTrouble
    /\ \E n \in Node : PeerRevoke(n, FALSE)
    /\ UNCHANGED <<setting, device, route, install, tokens>>

---------------------------------------------------------------------------
InstallInit ==
    /\ AdmissionInit
    /\ setting \in Settings
    /\ device = [software |-> IF setting.host = "remote" THEN "none" ELSE "shared",
                 rss |-> "none"]
    /\ route = [n \in Node |-> FALSE]
    /\ install = NoInstall
    /\ tokens = 0 /\ trouble = 0

InstallSteps ==
    \/ SharedLoopback \/ RemoteReceipt \/ FetchInstaller \/ RunRemoteInstaller
    \/ BeginPairing \/ PairingCall \/ PairingStops
    \/ ReadRssStatus \/ IssueToken \/ SendBundle \/ AwaitEnrollment
    \/ HandoffCandidates \/ VerifyRoutes

InstallNext ==
    \/ \E pairs \in BOOLEAN : InstallCommand(pairs)
    \/ InstallSteps
    \/ DaemonRedeems \/ RssMovesOn \/ Revocation
    \/ \E n \in Node : RouteBinds(n) \/ RouteDrops(n)

InstallSpec == InstallInit /\ [][InstallNext]_installVars

\* A command keeps going; the operator runs it again as its messages ask;
\* daemons keep trying to enroll and to bind a route to an admitted peer.
InstallFairness ==
    /\ WF_installVars(InstallSteps)
    /\ WF_installVars(InstallCommand(TRUE))
    /\ WF_installVars(DaemonRedeems)
    /\ \A n \in Node : WF_installVars(RouteBinds(n))

FairInstallSpec == InstallSpec /\ InstallFairness

---------------------------------------------------------------------------
\* The command's variables keep their types; a token belongs to a run of the
\* command that failed later or to the one that ended the enrollment, so
\* there is at most one more than there were failures.
InstallTypeOK ==
    /\ setting \in Settings
    /\ device.software \in {"none", "matching", "shared"}
    /\ device.rss \in {"none", "pending", "expired", "enrolled", "foreign"}
    /\ route \in [Node -> BOOLEAN]
    /\ install.outcome \in {"none", "done", "failed"}
    /\ tokens \in 0..(trouble + 1)

\* Pairing comes first.  A command that pairs reports success only when each
\* node's operator side has accepted the other, the scopes agree, and the other
\* side's daemon has just shown its route: a one-sided admission, a refused
\* scope or a route that went away between the wait and the status is never
\* success (cmd_install: pair_installed_peer, verify_authorized_route).  A token
\* is issued for a device, out of the entitlement's capacity, only once both
\* sides have accepted each other, whatever earlier runs left behind
\* (enroll_installed_rss_peer after pair_installed_peer).
PairedFirst ==
    [][/\ install.pairs /\ install.pc # "idle" /\ install'.outcome = "done" =>
            /\ \A n \in Node : Accepts(n) # {}
            /\ \A n \in Node : SynchronizationEligible(registry[n]) \/ Revokes(n) # {}
            /\ registry[Here].groups = registry[There].groups
            /\ route[There]
       /\ tokens' > tokens => \A n \in Node : Accepts(n) # {}]_installVars

\* Where running the command again cannot help.
NeedsOperator ==
    \/ setting.host = "unjoined" \/ setting.rss = "pending" \/ device.rss = "foreign"
    \/ \E n \in Node : Revokes(n) # {}
    \/ pair.step = 0 /\ ~Preserved /\ \E n \in Node : registry[n].state # "none"

\* Run again and again, the command succeeds: lost answers, expired tokens,
\* dropped routes and broken downloads are all made up for by a later run,
\* short of the states that the messages hand to the operator.
RerunsSucceed == <>((install.pairs /\ install.outcome = "done") \/ NeedsOperator)
=============================================================================
