--------------------------- MODULE DaemonLifecycle ---------------------------
(***************************************************************************)
(* The processes of the per-user daemon: commands that start, stop and     *)
(* restart it detached (under a file lock) or through the service manager, *)
(* the socket path they all share, serve_forever from the removal of an    *)
(* old socket to the final unlink, and the dispatch of one request.        *)
(*                                                                         *)
(* A ping answers when the process that owns the socket path is in its     *)
(* accept loop; with BusyPing it may be missed then too (all workers busy, *)
(* or the 0.2 s bound passes).  SIGTERM ends the process without cleanup,  *)
(* so the path stays.  systemd and launchd are external: a job is loaded   *)
(* or not, a loaded job that crashes is respawned.                         *)
(***************************************************************************)
EXTENDS Naturals, FiniteSets

CONSTANTS
    Starter,       \* processes running daemon start/stop/restart
    Operator,      \* the process running the service commands
    MaxDaemons,    \* processes ever spawned
    MaxCliCommands,   \* commands ever issued
    ServiceCommands, \* the service commands the operator runs
    BusyPing       \* a ping may miss a serving daemon

ASSUME LifecycleAssumption ==
    MaxDaemons \in Nat /\ Operator \notin Starter /\ "nobody" \notin Starter

VARIABLES
    procs,         \* procs[d]: [st, by, stop] of daemon process d
    launched,      \* processes spawned so far
    issued,        \* commands issued so far
    sockPath,      \* the process whose socket is at uds_path(), 0 if none
    startLock,     \* who holds the start lock
    cli,           \* cli[c]: [pc, child, todo, prev] of a command
    job            \* [def, loaded]: service definition and manager job

lifecycleVars == <<procs, launched, issued, sockPath, startLock, cli, job>>

Clients == Starter \cup {Operator}
NoProc == [st |-> "none", by |-> "none", stop |-> FALSE]
Nobody == "nobody"
Alive(d) == procs[d].st \notin {"none", "gone"}

-----------------------------------------------------------------------------
(* serve_forever.  An error before the try block leaves the path alone; any *)
(* later end, a failed bind included, unlinks whatever is at the path.      *)
ProcBecomes(d, st) == procs' = [procs EXCEPT ![d].st = st]

ServeCleans(d) ==
    /\ procs[d].st = "spawned"
    /\ ProcBecomes(d, "cleaned") /\ sockPath' = 0
    /\ UNCHANGED <<launched, startLock, cli, job, issued>>

ServeTransportFails(d) ==
    /\ procs[d].st = "cleaned" /\ ProcBecomes(d, "gone")
    /\ UNCHANGED <<launched, sockPath, startLock, cli, job, issued>>

ServeBinds(d) ==
    /\ procs[d].st = "cleaned"
    /\ \/ sockPath = 0 /\ sockPath' = d /\ ProcBecomes(d, "listening")
       \/ sockPath # 0 /\ ProcBecomes(d, "closing") /\ UNCHANGED sockPath
    /\ UNCHANGED <<launched, startLock, cli, job, issued>>

(* Metadata, endpoint registration and the first route refresh come before  *)
(* the accept loop.                                                         *)
ServeLoops(d) ==
    /\ procs[d].st = "listening" /\ ProcBecomes(d, "serving")
    /\ UNCHANGED <<launched, sockPath, startLock, cli, job, issued>>

ServeStops(d) ==
    /\ procs[d].st = "serving" /\ procs[d].stop
    /\ ProcBecomes(d, "closing")
    /\ UNCHANGED <<launched, sockPath, startLock, cli, job, issued>>

ServeUnlinks(d) ==
    /\ procs[d].st = "closing"
    /\ ProcBecomes(d, "gone") /\ sockPath' = 0
    /\ UNCHANGED <<launched, startLock, cli, job, issued>>

Crashes(d) ==
    /\ Alive(d) /\ ProcBecomes(d, "gone")
    /\ UNCHANGED <<launched, sockPath, startLock, cli, job, issued>>

-----------------------------------------------------------------------------
(* _handle_request: which class of message is served on which transport.    *)
Reads == {"ping", "status"}
LocalOps == {"shutdown", "wake", "access", "route"}
Served(kind, transport) ==
    CASE kind \in Reads -> TRUE
      [] kind \in LocalOps -> transport = "uds"
      [] kind = "opaque" -> transport = "tcp"

Handled(d, kind, transport) ==
    procs' = [procs EXCEPT ![d].stop = @ \/ (Served(kind, transport) /\ kind = "shutdown")]

(* A frame from the network, whatever it contains.                          *)
NetworkFrame(d, kind) ==
    /\ procs[d].st = "serving"
    /\ Handled(d, kind, "tcp")
    /\ UNCHANGED <<launched, sockPath, startLock, cli, job, issued>>

-----------------------------------------------------------------------------
Answering == sockPath # 0 /\ procs[sockPath].st = "serving"
PingOk == Answering
PingMissed == ~Answering \/ BusyPing

IdleCli == [pc |-> "idle", child |-> 0, todo |-> "none", prev |-> "none"]
CliAt(c, pc) == cli[c].pc = pc
CliGoto(c, pc) == cli' = [cli EXCEPT ![c].pc = pc]
CliEnds(c) == cli' = [cli EXCEPT ![c] = IdleCli]
Fails(c) == CliGoto(c, "raised")      \* the command reports the error and exits
Unmoved == UNCHANGED launched

(* start_daemon: ping, lock, ping again, remove a stale socket, spawn, wait. *)
StartPings(c) ==
    /\ CliAt(c, "start")
    /\ \/ PingOk /\ CliEnds(c)
       \/ PingMissed /\ CliGoto(c, "lock")
    /\ UNCHANGED <<procs, sockPath, startLock, job, issued>> /\ Unmoved

StartLocks(c) ==
    /\ CliAt(c, "lock") /\ startLock = Nobody
    /\ startLock' = c /\ CliGoto(c, "locked")
    /\ UNCHANGED <<procs, sockPath, job, issued>> /\ Unmoved

StartPingsAgain(c) ==
    /\ CliAt(c, "locked")
    /\ \/ PingOk /\ CliEnds(c) /\ startLock' = Nobody
       \/ PingMissed /\ CliGoto(c, "unlink") /\ UNCHANGED startLock
    /\ UNCHANGED <<procs, sockPath, job, issued>> /\ Unmoved

StartUnlinks(c) ==
    /\ CliAt(c, "unlink")
    /\ sockPath' = 0 /\ CliGoto(c, "spawn")
    /\ UNCHANGED <<procs, startLock, job, issued>> /\ Unmoved

Spawns(by) ==
    /\ launched < MaxDaemons
    /\ launched' = launched + 1
    /\ procs' = [procs EXCEPT ![launched + 1] = [st |-> "spawned", by |-> by, stop |-> FALSE]]

\* A bug: the lock protects the launch and not the wait for the child.
StartSpawnsUnlocked(c) ==
    /\ CliAt(c, "spawn")
    /\ Spawns(c)
    /\ cli' = [cli EXCEPT ![c].pc = "wait", ![c].child = launched + 1]
    /\ startLock' = Nobody
    /\ UNCHANGED <<sockPath, job, issued>>

StartSpawns(c) ==
    /\ CliAt(c, "spawn")
    /\ Spawns(c)
    /\ cli' = [cli EXCEPT ![c].pc = "wait", ![c].child = launched + 1]
    /\ UNCHANGED <<sockPath, startLock, job, issued>>

(* Popen raises; leaving the with block releases the lock.                  *)
StartSpawnFails(c) ==
    /\ CliAt(c, "spawn")
    /\ Fails(c) /\ startLock' = Nobody
    /\ UNCHANGED <<procs, sockPath, job, issued>> /\ Unmoved

\* A bug: the bounded wait ends without the child being reaped.
StartWaitsLeaves(c) ==
    /\ CliAt(c, "wait")
    /\ \/ PingOk /\ CliEnds(c) /\ UNCHANGED procs
       \/ PingMissed /\ Fails(c) /\ UNCHANGED procs
    /\ startLock' = Nobody
    /\ UNCHANGED <<sockPath, job, issued>> /\ Unmoved

\* A bug: the command waits for its child for as long as it takes.
StartWaitsForever(c) ==
    /\ CliAt(c, "wait")
    /\ PingOk /\ CliEnds(c) /\ startLock' = Nobody
    /\ UNCHANGED <<procs, sockPath, job, issued>> /\ Unmoved

StartWaits(c) ==
    /\ CliAt(c, "wait")
    /\ \/ PingOk /\ CliEnds(c) /\ UNCHANGED procs
       \/ PingMissed /\ Fails(c) /\ ProcBecomes(cli[c].child, "gone")     \* the bound passed
    /\ startLock' = Nobody
    /\ UNCHANGED <<sockPath, job, issued>> /\ Unmoved

(* stop_daemon: ping, shutdown over the socket, poll until no ping answers. *)
AfterStop(c) == IF cli[c].todo = "restart" THEN CliGoto(c, "start")
                ELSE IF cli[c].todo = "install" THEN CliGoto(c, "write")
                ELSE CliEnds(c)

StopPings(c) ==
    /\ CliAt(c, "stop")
    /\ \/ PingOk /\ CliGoto(c, "shutdown")
       \/ PingMissed /\ AfterStop(c)
    /\ UNCHANGED <<procs, sockPath, startLock, job, issued>> /\ Unmoved

StopRequests(c) ==
    /\ CliAt(c, "shutdown")
    /\ \/ Answering /\ Handled(sockPath, "shutdown", "uds") /\ CliGoto(c, "poll")
       \/ PingMissed /\ Fails(c) /\ UNCHANGED procs
    /\ UNCHANGED <<launched, sockPath, startLock, job, issued>>

StopPolls(c) ==
    /\ CliAt(c, "poll")
    /\ \/ PingMissed /\ AfterStop(c)
       \/ PingOk /\ Fails(c)
    /\ UNCHANGED <<procs, sockPath, startLock, job, issued>> /\ Unmoved

-----------------------------------------------------------------------------
(* The service manager (external): SIGTERM and wait; start unless running.  *)
Managed == {d \in DOMAIN procs : procs[d].by = "manager" /\ Alive(d)}
Terminated == [d \in DOMAIN procs |-> IF d \in Managed THEN [procs[d] EXCEPT !.st = "gone"] ELSE procs[d]]

ManagerStops ==
    /\ procs' = Terminated /\ UNCHANGED launched

ManagerStarts ==
    \/ Managed # {} /\ UNCHANGED <<procs, launched>>
    \/ Managed = {} /\ Spawns("manager")

ManagerRestarts ==
    /\ launched < MaxDaemons /\ launched' = launched + 1
    /\ procs' = [Terminated EXCEPT ![launched + 1] = [st |-> "spawned", by |-> "manager", stop |-> FALSE]]

(* Restart=on-failure and KeepAlive: only a failed exit is respawned.       *)
ManagerRespawns(d) ==
    /\ job.loaded /\ procs[d].by = "manager" /\ procs[d].st = "gone" /\ ~procs[d].stop
    /\ Managed = {} /\ Spawns("manager")
    /\ UNCHANGED <<sockPath, startLock, cli, job, issued>>

(* start_service and restart_service: the manager's command, then the wait. *)
ServiceStarts(c) ==
    /\ CliAt(c, "service_start")
    /\ \/ (ManagerStarts /\ CliGoto(c, "reach") /\ job' = [job EXCEPT !.loaded = TRUE])
       \/ Fails(c) /\ UNCHANGED <<procs, launched, job>>
    /\ UNCHANGED <<sockPath, startLock, issued>>

ServiceRestarts(c) ==
    /\ CliAt(c, "service_restart")
    /\ \/ (ManagerRestarts /\ CliGoto(c, "reach") /\ job' = [job EXCEPT !.loaded = TRUE])
       \/ Fails(c) /\ UNCHANGED <<procs, launched, job>>
    /\ UNCHANGED <<sockPath, startLock, issued>>

ServiceStops(c) ==
    /\ CliAt(c, "service_stop")
    /\ \/ (ManagerStops /\ job' = [job EXCEPT !.loaded = FALSE,
                                              !.def = IF cli[c].todo = "uninstall" THEN "none" ELSE @]
             /\ CliEnds(c))
       \/ Fails(c) /\ UNCHANGED <<procs, launched, job>>
    /\ UNCHANGED <<sockPath, startLock, issued>>

ServiceReached(c) ==
    /\ CliAt(c, "reach")
    /\ \/ PingOk /\ CliEnds(c)
       \/ PingMissed /\ (IF cli[c].todo = "install" THEN CliGoto(c, "rollback") ELSE Fails(c))
    /\ UNCHANGED <<procs, sockPath, startLock, job, issued>> /\ Unmoved

(***************************************************************************)
(* install_service.  The previous definition is read first; the manager    *)
(* stops its own job, a detached daemon is stopped over the socket, the    *)
(* definition is replaced in one rename, and the job is loaded and awaited. *)
(* An error of the manager or of the file rolls back; one of stop_daemon   *)
(* (a DaemonError) leaves the definition as it was found.                  *)
(***************************************************************************)
InstallBegins(c) ==
    /\ CliAt(c, "install")
    /\ \/ /\ ManagerStops
          /\ job' = [job EXCEPT !.loaded = FALSE]
          /\ cli' = [cli EXCEPT ![c].pc = "stop", ![c].prev = job.def]
       \/ /\ job.def # "none"                       \* the stop is rejected
          /\ cli' = [cli EXCEPT ![c].pc = "rollback", ![c].prev = job.def]
          /\ UNCHANGED <<procs, launched, job>>
    /\ UNCHANGED <<sockPath, startLock, issued>>

(* The unchanged macOS definition of a loaded job: start or restart only.   *)
InstallUnchanged(c) ==
    /\ CliAt(c, "install") /\ job.def = "new" /\ job.loaded
    /\ \/ (ManagerStarts \/ ManagerRestarts) /\ cli' = [cli EXCEPT ![c].todo = "start", ![c].pc = "reach"]
       \/ /\ cli' = [cli EXCEPT ![c].pc = "raised", ![c].prev = job.def]
          /\ UNCHANGED <<procs, launched>>
    /\ UNCHANGED <<sockPath, startLock, job, issued>>

InstallWrites(c) ==
    /\ CliAt(c, "write")
    /\ \/ job' = [job EXCEPT !.def = "new"] /\ CliGoto(c, "enable")
       \/ CliGoto(c, "rollback") /\ UNCHANGED job
    /\ UNCHANGED <<procs, sockPath, startLock, issued>> /\ Unmoved

InstallEnables(c) ==
    /\ CliAt(c, "enable")
    /\ \/ ManagerStarts /\ CliGoto(c, "reach") /\ job' = [job EXCEPT !.loaded = TRUE]
       \/ CliGoto(c, "rollback") /\ UNCHANGED <<procs, launched, job>>
    /\ UNCHANGED <<sockPath, startLock, issued>>

RolledBack(c) == cli[c].prev

InstallRollsBack(c) ==
    /\ CliAt(c, "rollback")
    /\ \/ ManagerStops /\ job' = [job EXCEPT !.def = RolledBack(c), !.loaded = FALSE]
       \/ /\ cli[c].prev # "none" /\ ManagerRestarts     \* its errors are ignored: the first case
          /\ job' = [job EXCEPT !.def = RolledBack(c), !.loaded = TRUE]
    /\ Fails(c)
    /\ UNCHANGED <<sockPath, startLock, issued>>

-----------------------------------------------------------------------------
(* The commands: cmd_daemon_start/stop/restart look for an installed        *)
(* service first.                                                           *)
CliCommand(c, pc, todo) ==
    /\ CliAt(c, "idle") /\ issued < MaxCliCommands /\ issued' = issued + 1
    /\ cli' = [cli EXCEPT ![c] = [IdleCli EXCEPT !.pc = pc, !.todo = todo]]
    /\ UNCHANGED <<procs, sockPath, startLock, job>> /\ Unmoved

Exits(c) ==
    /\ CliAt(c, "raised") /\ CliEnds(c)
    /\ UNCHANGED <<procs, sockPath, startLock, job, issued>> /\ Unmoved

Installed == job.def # "none"

CmdDaemonStart(c) == CliCommand(c, IF Installed THEN "service_start" ELSE "start", "start")
CmdDaemonStop(c) == CliCommand(c, IF Installed THEN "service_stop" ELSE "stop", "stop")
CmdDaemonRestart(c) == CliCommand(c, IF Installed THEN "service_restart" ELSE "stop", "restart")
CmdServiceInstall(c) == CliCommand(c, "install", "install")
CmdServiceUninstall(c) == Installed /\ CliCommand(c, "service_stop", "uninstall")

ClientStep(c) ==
    \/ StartPings(c) \/ StartLocks(c) \/ StartPingsAgain(c) \/ StartUnlinks(c)
    \/ StartSpawns(c) \/ StartSpawnFails(c) \/ StartWaits(c)
    \/ StopPings(c) \/ StopRequests(c) \/ StopPolls(c)
    \/ ServiceStarts(c) \/ ServiceRestarts(c) \/ ServiceStops(c) \/ ServiceReached(c)
    \/ InstallBegins(c) \/ InstallUnchanged(c) \/ InstallWrites(c) \/ InstallEnables(c)
    \/ InstallRollsBack(c) \/ Exits(c)

DaemonStep(d) ==
    \/ ServeCleans(d) \/ ServeTransportFails(d) \/ ServeBinds(d) \/ ServeLoops(d)
    \/ ServeStops(d) \/ ServeUnlinks(d)

LifecycleInit ==
    /\ procs = [d \in 1..MaxDaemons |-> NoProc]
    /\ launched = 0
    /\ issued = 0
    /\ sockPath = 0
    /\ startLock = Nobody
    /\ cli = [c \in Clients |-> IdleCli]
    /\ job \in [def : IF ServiceCommands = {} THEN {"none"} ELSE {"none", "old"}, loaded : {FALSE}]

LifecycleNext ==
    \/ \E c \in Starter : CmdDaemonStart(c) \/ CmdDaemonStop(c) \/ CmdDaemonRestart(c)
    \/ "install" \in ServiceCommands /\ CmdServiceInstall(Operator)
    \/ "uninstall" \in ServiceCommands /\ CmdServiceUninstall(Operator)
    \/ \E c \in Clients : ClientStep(c)
    \/ \E d \in 1..MaxDaemons : DaemonStep(d) \/ Crashes(d) \/ ManagerRespawns(d)
    \/ \E d \in 1..MaxDaemons, kind \in Reads \cup LocalOps \cup {"opaque"} : NetworkFrame(d, kind)

LifecycleSpec == LifecycleInit /\ [][LifecycleNext]_lifecycleVars

(* A command runs until it ends: its waits are bounded by its own clock.    *)
LifecycleFairness == \A c \in Clients : WF_lifecycleVars(ClientStep(c))
FairLifecycleSpec == LifecycleSpec /\ LifecycleFairness

-----------------------------------------------------------------------------
(* Processes, the path and the definition have the shapes the code gives.   *)
LifecycleTypeOK ==
    /\ \A d \in 1..MaxDaemons :
           procs[d].st \in {"none", "spawned", "cleaned", "listening", "serving", "closing", "gone"}
    /\ sockPath \in 0..launched
    /\ startLock \in Starter \cup {Nobody}
    /\ job.def \in {"none", "old", "new"}

(* Detached launches are serialised from the launch to the answer: of the   *)
(* processes whose starter still waits for them there is at most one, and   *)
(* its starter holds the lock.                                              *)
(* (start_daemon holds _start_lock across wait_until_running)               *)
OneLaunchAtATime ==
    \A c \in Starter : CliAt(c, "wait") =>
        startLock = c /\ \A d \in Starter \ {c} : ~CliAt(d, "wait")

(* A command that fails puts things back.  A start that raises leaves no    *)
(* process of its own behind (start_daemon terminates and reaps the child   *)
(* it launched); an installation that fails, at whichever step, leaves the  *)
(* definition it found (install_service with _rollback_service_install).    *)
FailureLeavesNothing ==
    /\ \A c \in Starter : CliAt(c, "raised") /\ cli[c].child # 0 => ~Alive(cli[c].child)
    /\ CliAt(Operator, "raised") /\ cli[Operator].todo = "install" => job.def = cli[Operator].prev

(* Every command ends, whatever its daemon does and however many commands   *)
(* wait for the same lock.  (wait_until_running, stop_daemon, _start_lock)  *)
CommandsEnd == \A c \in Clients : ~CliAt(c, "idle") ~> CliAt(c, "idle")
=============================================================================
