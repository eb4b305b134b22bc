---------------------------- MODULE DaemonProofs ----------------------------
(***************************************************************************)
(* The daemon's own threads and processes: how it is started, announced,   *)
(* stopped and replaced, how its discovery service follows the LAN, and    *)
(* how its transport binds a route.  The components share no variable.     *)
(***************************************************************************)
EXTENDS DaemonLifecycle, MdnsDiscovery, TransportBinding, TLAPS

---------------------------------------------------------------------------
(***************************************************************************)
(* For any number of starting commands and daemon processes: launches are  *)
(* serialised, and a command that fails puts things back.                  *)
(*                                                                         *)
(* The argument goes client by client.  A step moves one command and       *)
(* leaves to the others only what they cannot see undone: a process that   *)
(* is gone stays gone, the lock passes through nobody, and only the        *)
(* operator's command writes the service definition.                       *)
(***************************************************************************)

ProcStates == {"none", "spawned", "cleaned", "listening", "serving", "closing", "gone"}
ProcRecord == [st : ProcStates, by : Clients \cup {"manager", "none"}, stop : BOOLEAN]

ProcsOK ==
    /\ procs \in [1 .. MaxDaemons -> ProcRecord]
    /\ launched \in 0 .. MaxDaemons
    /\ sockPath \in 0 .. launched
    /\ \A d \in 1 .. MaxDaemons : procs[d].st # "none" => d <= launched

(* Where a command may be, and what it then is about.                       *)
LockPcs == {"locked", "unlink", "spawn", "wait"}
Stopping == {"stop", "shutdown", "poll"}
StarterPcs == {"idle", "start", "lock", "raised", "reach", "service_start", "service_restart",
               "service_stop"} \cup LockPcs \cup Stopping
Installing == {"install", "write", "enable", "rollback"} \cup Stopping
OperatorPcs == {"idle", "raised", "reach", "service_stop"} \cup Installing
Defs == {"none", "old", "new"}
CliRecord == [pc : StarterPcs \cup OperatorPcs, child : 0 .. MaxDaemons,
              todo : {"none", "start", "stop", "restart", "install", "uninstall"}, prev : Defs]

ClientOK(c, x) ==
    /\ x \in CliRecord
    /\ c \in Starter => x.pc \in StarterPcs /\ x.todo \notin {"install", "uninstall"}
    /\ c = Operator => x.pc \in OperatorPcs /\ (x.pc \in Installing => x.todo = "install")
    /\ x.pc = "service_stop" => x.todo # "install"

(* A launched child is waited for or, when the command raised, gone.        *)
ChildOK(x) ==
    x.child # 0 => /\ x.pc \in {"wait", "raised"} /\ x.child <= launched
                   /\ x.pc = "raised" => procs[x.child].st = "gone"

(* Until the definition is written, and after a failure, it is as found.    *)
DefOK(x) ==
    x.pc \in Stopping \cup {"write"} \/ (x.pc = "raised" /\ x.todo = "install") => job.def = x.prev

LockOK ==
    /\ startLock \in Starter \cup {Nobody}
    /\ \A c \in Starter : startLock = c <=> cli[c].pc \in LockPcs

LInv ==
    /\ ProcsOK
    /\ job \in [def : Defs, loaded : BOOLEAN]
    /\ DOMAIN cli = Clients /\ cli = [c \in Clients |-> cli[c]]
    /\ \A c \in Clients : ClientOK(c, cli[c]) /\ ChildOK(cli[c])
    /\ LockOK
    /\ DefOK(cli[Operator])

(* What every step leaves of the processes.                                 *)
ProcsMove ==
    /\ ProcsOK' /\ launched <= launched'
    /\ \A d \in 1 .. launched : procs[d].st = "gone" => procs'[d].st = "gone"

LockMove(c, x) ==
    \/ startLock' = startLock /\ (x.pc \in LockPcs <=> cli[c].pc \in LockPcs)
    \/ startLock = Nobody /\ startLock' = c /\ c \in Starter /\ x.pc \in LockPcs
    \/ cli[c].pc \in LockPcs /\ startLock' = Nobody /\ x.pc \notin LockPcs

(* One command moves to x.                                                  *)
ClientMove(c, x) ==
    /\ cli' = [cli EXCEPT ![c] = x]
    /\ ClientOK(c, x) /\ ChildOK(x)' /\ LockMove(c, x)
    /\ job' \in [def : Defs, loaded : BOOLEAN]
    /\ c \in Starter => job'.def = job.def
    /\ c = Operator => DefOK(x)'

-----------------------------------------------------------------------------
(* A command's step, whatever it was, keeps the invariant of the others.    *)
LEMMA MoveKeeps ==
    ASSUME LInv, ProcsMove, NEW c \in Clients, NEW x, ClientMove(c, x)
    PROVE  LInv'
  <1>. USE LifecycleAssumption DEF Clients
  <1>1. DOMAIN cli' = Clients /\ cli' = [d \in Clients |-> cli'[d]]
    BY Zenon DEF LInv, ClientMove
  <1>2. cli'[c] = x /\ \A d \in Clients \ {c} : cli'[d] = cli[d]
    BY Zenon DEF LInv, ClientMove
  <1>3. \A d \in Clients : ClientOK(d, cli'[d])
    BY Zenon, <1>2 DEF LInv, ClientMove
  <1>4. ASSUME NEW d \in Clients PROVE ChildOK(cli[d])'
    <2>1. CASE d = c
      <3>1. ChildOK(x)'
        BY Zenon DEF ClientMove
      <3>. QED BY Zenon, <1>2, <2>1, <3>1 DEF ChildOK
    <2>2. CASE d # c
      <3>0. launched \in Nat /\ launched' \in Nat
        BY DEF LInv, ProcsMove, ProcsOK
      <3>1. ChildOK(cli[d]) /\ cli[d] \in CliRecord
        BY Zenon DEF LInv, ClientOK
      <3>2. launched <= launched' /\ \A e \in 1 .. launched : procs[e].st = "gone" => procs'[e].st = "gone"
        BY Zenon DEF ProcsMove
      <3>. QED BY <1>2, <2>2, <3>0, <3>1, <3>2 DEF ChildOK, CliRecord
    <2>. QED BY Zenon, <2>1, <2>2
  <1>5. LockOK'
    <2>1. Nobody \notin Starter /\ LockOK /\ LockMove(c, x)
      BY Zenon DEF Nobody, LInv, ClientMove
    <2>2. c = Operator => x.pc \notin LockPcs /\ cli[c].pc \notin LockPcs
      BY Zenon DEF LInv, ClientMove, ClientOK, OperatorPcs, LockPcs, Installing, Stopping
    <2>. QED BY <1>2, <2>1, <2>2 DEF LockOK, LockMove
  <1>6. DefOK(cli[Operator])'
    <2>1. CASE c = Operator
      BY Zenon, <1>2, <2>1 DEF ClientMove, DefOK
    <2>2. CASE c \in Starter
      BY Zenon, <1>2, <2>2 DEF ClientMove, DefOK, LInv
    <2>. QED BY Zenon, <2>1, <2>2
  <1>. QED BY Zenon, <1>1, <1>3, <1>4, <1>5, <1>6 DEF LInv, ClientMove, ProcsMove

(* A step of a daemon, of the network or of the manager moves no command.   *)
LEMMA ProcessKeeps ==
    ASSUME LInv, ProcsMove, UNCHANGED <<startLock, cli, job>>
    PROVE  LInv'
  <1>1. ASSUME NEW d \in Clients PROVE ChildOK(cli[d])'
    <2>1. ChildOK(cli[d]) /\ cli[d] \in CliRecord /\ launched \in Nat /\ launched' \in Nat
      BY DEF LInv, ClientOK, ProcsMove, ProcsOK
    <2>. QED BY <2>1 DEF ProcsMove, ChildOK, CliRecord
  <1>2. LockOK' /\ DefOK(cli[Operator])'
    BY Zenon DEF LInv, LockOK, DefOK
  <1>. QED BY ZenonT(30), <1>1, <1>2 DEF LInv, ProcsMove, ClientOK

-----------------------------------------------------------------------------
(* The process steps.                                                       *)
LEMMA ProcsStay == ASSUME LInv, UNCHANGED <<procs, launched>>, sockPath' \in {0, sockPath} PROVE ProcsMove
  BY LifecycleAssumption DEF LInv, ProcsMove, ProcsOK

LEMMA BecomesMoves ==
    ASSUME LInv, NEW d \in 1 .. MaxDaemons, NEW st \in ProcStates, ProcBecomes(d, st),
           procs[d].st # "gone" \/ st = "gone", d <= launched,
           launched' = launched, sockPath' \in {0, sockPath, d}
    PROVE  ProcsMove
  <1>1. procs' \in [1 .. MaxDaemons -> ProcRecord]
    BY DEF LInv, ProcsOK, ProcBecomes, ProcRecord
  <1>2. procs'[d].st = st /\ \A e \in 1 .. MaxDaemons \ {d} : procs'[e] = procs[e]
    BY ZenonT(30) DEF LInv, ProcsOK, ProcBecomes, ProcRecord
  <1>. QED BY SMTT(30), Zenon, <1>1, <1>2, LifecycleAssumption DEF LInv, ProcsMove, ProcsOK

LEMMA HandledMoves ==
    ASSUME LInv, NEW d \in 1 .. MaxDaemons, NEW kind, NEW transport, Handled(d, kind, transport),
           UNCHANGED <<launched, sockPath>>
    PROVE  ProcsMove
  <1>. DEFINE b == procs[d].stop \/ (Served(kind, transport) /\ kind = "shutdown")
  <1>1. procs' = [procs EXCEPT ![d].stop = b]
    BY Zenon DEF Handled
  <1>2. b \in BOOLEAN
    BY Zenon
  <1>. HIDE DEF b
  <1>3. procs' \in [1 .. MaxDaemons -> ProcRecord]
    BY <1>1, <1>2 DEF LInv, ProcsOK, ProcRecord
  <1>4. \A e \in 1 .. MaxDaemons : procs'[e].st = procs[e].st
    BY <1>1 DEF LInv, ProcsOK, ProcRecord
  <1>. QED BY <1>3, <1>4, LifecycleAssumption DEF LInv, ProcsMove, ProcsOK

LEMMA SpawnMoves ==
    ASSUME LInv, NEW by \in Clients \cup {"manager"}, Spawns(by), sockPath' = sockPath
    PROVE  ProcsMove
  BY LifecycleAssumption DEF LInv, ProcsMove, ProcsOK, Spawns, ProcRecord, ProcStates

LEMMA TerminatedMoves ==
    ASSUME LInv
    PROVE  /\ Terminated \in [1 .. MaxDaemons -> ProcRecord]
           /\ \A d \in 1 .. MaxDaemons : /\ procs[d].st = "gone" => Terminated[d].st = "gone"
                                         /\ Terminated[d].st # "none" => procs[d].st # "none"
  BY DEF LInv, ProcsOK, Terminated, Managed, Alive, ProcRecord, ProcStates

LEMMA ManagerMoves ==
    ASSUME LInv, sockPath' = sockPath, ManagerStops \/ ManagerStarts \/ ManagerRestarts
    PROVE  ProcsMove
  <1>1. CASE ManagerStops
    BY <1>1, TerminatedMoves, LifecycleAssumption DEF ManagerStops, LInv, ProcsMove, ProcsOK
  <1>2. CASE ManagerStarts
    BY Zenon, <1>2, ProcsStay, SpawnMoves DEF ManagerStarts
  <1>3. CASE ManagerRestarts
    <2>. DEFINE fresh == [st |-> "spawned", by |-> "manager", stop |-> FALSE]
    <2>1. procs' = [Terminated EXCEPT ![launched + 1] = fresh] /\ launched' = launched + 1
          /\ launched < MaxDaemons
      BY Zenon, <1>3 DEF ManagerRestarts
    <2>2. fresh \in ProcRecord /\ fresh.st = "spawned"
      BY Zenon DEF ProcRecord, ProcStates
    <2>. HIDE DEF fresh
    <2>. QED BY <2>1, <2>2, TerminatedMoves, LifecycleAssumption DEF LInv, ProcsMove, ProcsOK
  <1>. QED BY Zenon, <1>1, <1>2, <1>3

LEMMA DaemonKeeps ==
    ASSUME LInv, NEW d \in 1 .. MaxDaemons, DaemonStep(d) \/ Crashes(d) \/ ManagerRespawns(d)
    PROVE  LInv'
  <1>0. procs[d].st # "none" => d <= launched
    BY Zenon DEF LInv, ProcsOK
  <1>1. CASE ServeCleans(d)
    BY Zenon, <1>0, <1>1, BecomesMoves, ProcessKeeps DEF ServeCleans, ProcStates
  <1>2. CASE ServeTransportFails(d)
    BY Zenon, <1>0, <1>2, BecomesMoves, ProcessKeeps DEF ServeTransportFails, ProcStates
  <1>3. CASE ServeBinds(d)
    BY Zenon, <1>0, <1>3, BecomesMoves, ProcessKeeps DEF ServeBinds, ProcStates
  <1>4. CASE ServeLoops(d)
    BY Zenon, <1>0, <1>4, BecomesMoves, ProcessKeeps DEF ServeLoops, ProcStates
  <1>5. CASE ServeStops(d)
    BY Zenon, <1>0, <1>5, BecomesMoves, ProcessKeeps DEF ServeStops, ProcStates
  <1>6. CASE ServeUnlinks(d)
    BY Zenon, <1>0, <1>6, BecomesMoves, ProcessKeeps DEF ServeUnlinks, ProcStates
  <1>7. CASE Crashes(d)
    BY Zenon, <1>0, <1>7, BecomesMoves, ProcessKeeps DEF Crashes, Alive, ProcStates
  <1>8. CASE ManagerRespawns(d)
    BY Zenon, <1>8, SpawnMoves, ProcessKeeps DEF ManagerRespawns
  <1>. QED BY Zenon, <1>1, <1>2, <1>3, <1>4, <1>5, <1>6, <1>7, <1>8 DEF DaemonStep

-----------------------------------------------------------------------------
(* A command goes on to its next step, or ends.                             *)
JobMove(c) == job' \in [def : Defs, loaded : BOOLEAN] /\ (c \in Starter => job'.def = job.def)

LockGoes(c, pc) ==
    \/ startLock' = startLock /\ (pc \in LockPcs <=> cli[c].pc \in LockPcs)
    \/ startLock = Nobody /\ startLock' = c /\ c \in Starter /\ pc \in LockPcs
    \/ cli[c].pc \in LockPcs /\ startLock' = Nobody /\ pc \notin LockPcs

LEMMA GotoKeeps ==
    ASSUME LInv, ProcsMove, NEW c \in Clients, NEW pc, CliGoto(c, pc),
           c \in Starter => pc \in StarterPcs,
           c = Operator => pc \in OperatorPcs /\ (pc \in Installing => cli[c].todo = "install"),
           cli[c].pc \notin {"wait", "raised"}, pc # "service_stop",
           LockGoes(c, pc), JobMove(c),
           c = Operator /\ (pc \in Stopping \cup {"write"} \/ (pc = "raised" /\ cli[c].todo = "install"))
               => job'.def = cli[c].prev
    PROVE  LInv'
  <1>1. cli[c] \in CliRecord /\ ClientOK(c, cli[c]) /\ ChildOK(cli[c])
    BY Zenon DEF LInv, ClientOK
  <1>2. pc \in StarterPcs \cup OperatorPcs
    BY Zenon DEF Clients
  <1>3. PICK x : x = [cli[c] EXCEPT !.pc = pc]
    BY Zenon
  <1>4. x \in CliRecord /\ x.pc = pc /\ x.child = cli[c].child /\ x.todo = cli[c].todo /\ x.prev = cli[c].prev
    BY Zenon, <1>1, <1>2, <1>3 DEF CliRecord
  <1>5. cli' = [cli EXCEPT ![c] = x]
    BY Zenon, <1>3 DEF LInv, CliGoto
  <1>6. ClientOK(c, x)
    BY Zenon, <1>1, <1>4 DEF ClientOK
  <1>7. x.child = 0
    BY Zenon, <1>1, <1>4 DEF ChildOK
  <1>8. ClientMove(c, x)
    BY Zenon, <1>4, <1>5, <1>6, <1>7 DEF ClientMove, ChildOK, LockMove, LockGoes, DefOK, JobMove
  <1>. QED BY Zenon, <1>8, MoveKeeps

LEMMA EndKeeps ==
    ASSUME LInv, ProcsMove, NEW c \in Clients, CliEnds(c), LockGoes(c, "idle"), JobMove(c)
    PROVE  LInv'
  <1>1. IdleCli \in CliRecord /\ IdleCli.pc = "idle" /\ IdleCli.child = 0 /\ IdleCli.todo = "none"
    BY LifecycleAssumption DEF IdleCli, CliRecord, StarterPcs, Defs
  <1>2. ClientOK(c, IdleCli)
    BY Zenon, <1>1 DEF ClientOK, StarterPcs, OperatorPcs, Installing, Stopping
  <1>3. ClientMove(c, IdleCli)
    BY Zenon, <1>1, <1>2 DEF ClientMove, CliEnds, ChildOK, LockMove, LockGoes, DefOK, JobMove, Stopping
  <1>. QED BY Zenon, <1>3, MoveKeeps

LEMMA JobStays == ASSUME LInv, job' = job, NEW c PROVE JobMove(c)
  BY Zenon DEF LInv, JobMove

(* What a command's place says of it.                                       *)
LEMMA Placed ==
    ASSUME LInv, NEW c \in Clients
    PROVE  /\ c = Operator => cli[c].pc \in OperatorPcs /\ (cli[c].pc \in Installing => cli[c].todo = "install")
           /\ c = Operator /\ cli[c].pc \in Stopping \cup {"write"} => job.def = cli[c].prev
           /\ c \in Starter => cli[c].pc \in StarterPcs /\ cli[c].todo \notin {"install", "uninstall"}
           /\ cli[c].pc = "service_stop" => cli[c].todo # "install"
           /\ cli[c].prev \in Defs
           /\ c = Operator => c \notin Starter
           /\ c \in Starter \/ c = Operator
  BY Zenon, LifecycleAssumption DEF LInv, ClientOK, DefOK, CliRecord, Clients

Pcs == {"idle", "start", "lock", "raised", "reach", "service_start", "service_restart", "service_stop",
        "locked", "unlink", "spawn", "wait", "stop", "shutdown", "poll", "install", "write", "enable",
        "rollback"}

LEMMA PcSets ==
    /\ LockPcs = {"locked", "unlink", "spawn", "wait"}
    /\ \A pc : pc \in StarterPcs <=> pc \in Pcs \ {"install", "write", "enable", "rollback"}
    /\ \A pc : pc \in OperatorPcs <=>
          pc \in {"idle", "raised", "reach", "service_stop", "install", "write", "enable", "rollback",
                  "stop", "shutdown", "poll"}
    /\ \A pc : pc \in Installing <=>
          pc \in {"install", "write", "enable", "rollback", "stop", "shutdown", "poll"}
    /\ \A pc : pc \in Stopping <=> pc \in {"stop", "shutdown", "poll"}
  BY ZenonT(30) DEF LockPcs, StarterPcs, OperatorPcs, Installing, Stopping, Pcs

(* start_daemon.                                                            *)
LEMMA StartKeeps ==
    ASSUME LInv, NEW c \in Clients,
           StartPings(c) \/ StartLocks(c) \/ StartPingsAgain(c) \/ StartUnlinks(c) \/ StartSpawnFails(c)
    PROVE  LInv'
  <1>. USE DEF CliAt
  <1>0. ProcsMove /\ JobMove(c)
    BY Zenon, ProcsStay, JobStays DEF StartPings, StartLocks, StartPingsAgain, StartUnlinks, StartSpawnFails, Unmoved
  <1>1. c \in Starter /\ c # Operator
    BY Placed, PcSets DEF StartPings, StartLocks, StartPingsAgain, StartUnlinks, StartSpawnFails
  <1>2. CASE StartPings(c)
    <2>1. CASE CliEnds(c)
      BY Zenon, <1>0, <1>2, <2>1, EndKeeps DEF StartPings, LockGoes, LockPcs
    <2>2. CASE CliGoto(c, "lock")
      BY Zenon, <1>0, <1>1, <1>2, <2>2, GotoKeeps, PcSets DEF StartPings, LockGoes, Pcs
    <2>. QED BY Zenon, <1>2, <2>1, <2>2 DEF StartPings
  <1>3. CASE StartLocks(c)
    BY Zenon, <1>0, <1>1, <1>3, GotoKeeps, PcSets DEF StartLocks, LockGoes, Pcs
  <1>4. CASE StartPingsAgain(c)
    <2>1. CASE CliEnds(c) /\ startLock' = Nobody
      BY Zenon, <1>0, <1>4, <2>1, EndKeeps DEF StartPingsAgain, LockGoes, LockPcs
    <2>2. CASE CliGoto(c, "unlink") /\ startLock' = startLock
      BY Zenon, <1>0, <1>1, <1>4, <2>2, GotoKeeps, PcSets DEF StartPingsAgain, LockGoes, Pcs
    <2>. QED BY Zenon, <1>4, <2>1, <2>2 DEF StartPingsAgain
  <1>5. CASE StartUnlinks(c)
    BY Zenon, <1>0, <1>1, <1>5, GotoKeeps, PcSets DEF StartUnlinks, LockGoes, Pcs
  <1>6. CASE StartSpawnFails(c)
    BY Zenon, <1>0, <1>1, <1>6, GotoKeeps, PcSets DEF StartSpawnFails, Fails, LockGoes, Pcs
  <1>. QED BY Zenon, <1>2, <1>3, <1>4, <1>5, <1>6

(* The launch: the child is a process that was never alive before.          *)
LEMMA SpawnKeeps == ASSUME LInv, NEW c \in Clients, StartSpawns(c) PROVE LInv'
  <1>. USE DEF CliAt
  <1>1. c \in Starter /\ c # Operator /\ cli[c].pc = "spawn"
    BY ZenonT(30), Placed, PcSets DEF StartSpawns
  <1>2. ProcsMove /\ JobMove(c)
    BY Zenon, SpawnMoves, JobStays DEF StartSpawns
  <1>0. PICK y, x : y = [cli[c] EXCEPT !.pc = "wait"] /\ x = [y EXCEPT !.child = launched + 1]
    BY Zenon
  <1>3. cli' = [cli EXCEPT ![c] = x]
    BY Zenon, <1>0 DEF StartSpawns, LInv
  <1>4. launched + 1 \in 1 .. MaxDaemons /\ launched' = launched + 1 /\ launched \in Nat
    BY LifecycleAssumption DEF StartSpawns, Spawns, LInv, ProcsOK
  <1>5. cli[c] \in CliRecord /\ ClientOK(c, cli[c])
    BY Zenon DEF LInv, ClientOK
  <1>6. x \in CliRecord /\ x.pc = "wait" /\ x.child = launched + 1 /\ x.todo = cli[c].todo
    <2>1. y \in CliRecord /\ y.pc = "wait" /\ y.todo = cli[c].todo
      BY Zenon, <1>0, <1>5 DEF CliRecord, StarterPcs, LockPcs
    <2>2. launched + 1 \in 0 .. MaxDaemons
      BY <1>4
    <2>. QED BY Zenon, <1>0, <2>1, <2>2 DEF CliRecord
  <1>7. ClientOK(c, x)
    BY Zenon, <1>1, <1>5, <1>6, PcSets DEF ClientOK, Pcs
  <1>8. ChildOK(x)'
    BY <1>4, <1>6 DEF ChildOK
  <1>9. ClientMove(c, x)
    BY Zenon, <1>1, <1>2, <1>3, <1>6, <1>7, <1>8 DEF StartSpawns, ClientMove, LockMove, JobMove, LockPcs
  <1>. QED BY Zenon, <1>2, <1>9, MoveKeeps

(* The bounded wait: an answer, or the child is terminated and reaped.      *)
LEMMA WaitKeeps == ASSUME LInv, NEW c \in Clients, StartWaits(c) PROVE LInv'
  <1>. USE DEF CliAt
  <1>1. c \in Starter /\ c # Operator /\ cli[c].pc = "wait"
    BY ZenonT(30), Placed, PcSets DEF StartWaits
  <1>2. JobMove(c)
    BY Zenon, JobStays DEF StartWaits
  <1>3. CASE CliEnds(c) /\ UNCHANGED procs
    BY Zenon, <1>1, <1>2, <1>3, ProcsStay, EndKeeps DEF StartWaits, Unmoved, LockGoes, LockPcs
  <1>4. CASE Fails(c) /\ ProcBecomes(cli[c].child, "gone")
    <2>1. cli[c] \in CliRecord /\ ClientOK(c, cli[c]) /\ ChildOK(cli[c])
      BY Zenon DEF LInv, ClientOK
    <2>0. PICK x : x = [cli[c] EXCEPT !.pc = "raised"]
      BY Zenon
    <2>2. cli' = [cli EXCEPT ![c] = x]
      BY Zenon, <1>4, <2>0 DEF Fails, CliGoto, LInv
    <2>3. x \in CliRecord /\ x.pc = "raised" /\ x.child = cli[c].child /\ x.todo = cli[c].todo
      BY Zenon, <2>0, <2>1 DEF CliRecord, StarterPcs
    <2>4. ClientOK(c, x)
      BY ZenonT(30), <1>1, <2>1, <2>3, PcSets DEF ClientOK, Pcs
    <2>5. ProcsMove /\ ChildOK(x)'
      <3>1. CASE cli[c].child = 0
        <4>1. procs' = procs
          BY <1>4, <3>1 DEF ProcBecomes, LInv, ProcsOK
        <4>. QED BY Zenon, <2>3, <3>1, <4>1, ProcsStay DEF StartWaits, Unmoved, ChildOK
      <3>2. CASE cli[c].child # 0
        <4>1. cli[c].child \in 1 .. MaxDaemons /\ cli[c].child <= launched
          BY <2>1, <3>2, LifecycleAssumption DEF ChildOK, CliRecord
        <4>2. ProcsMove
          BY Zenon, <1>4, <4>1, BecomesMoves DEF StartWaits, Unmoved, ProcStates
        <4>3. procs'[cli[c].child].st = "gone"
          BY <1>4, <4>1 DEF ProcBecomes, LInv, ProcsOK, ProcRecord
        <4>. QED BY Zenon, <2>3, <4>1, <4>2, <4>3 DEF StartWaits, Unmoved, ChildOK
      <3>. QED BY Zenon, <3>1, <3>2
    <2>6. ClientMove(c, x)
      BY Zenon, <1>1, <1>2, <2>2, <2>3, <2>4, <2>5 DEF StartWaits, ClientMove, LockMove, JobMove, LockPcs
    <2>. QED BY Zenon, <2>5, <2>6, MoveKeeps
  <1>. QED BY Zenon, <1>3, <1>4 DEF StartWaits

(* stop_daemon, alone or inside a restart or an installation.               *)
LEMMA AfterStopKeeps ==
    ASSUME LInv, ProcsMove, NEW c \in Clients, AfterStop(c), cli[c].pc \in {"stop", "poll"},
           UNCHANGED <<startLock, job>>
    PROVE  LInv'
  <1>0. JobMove(c)
    BY Zenon, JobStays
  <1>1. CASE cli[c].todo = "restart"
    <2>1. c \in Starter /\ c # Operator
      BY Zenon, <1>1, Placed, PcSets
    <2>. QED BY Zenon, <1>0, <1>1, <2>1, GotoKeeps, PcSets DEF AfterStop, LockGoes, Pcs
  <1>2. CASE cli[c].todo = "install"
    <2>1. c = Operator /\ c \notin Starter /\ job.def = cli[c].prev
      BY Zenon, <1>2, Placed, PcSets
    <2>2. CliGoto(c, "write")
      BY Zenon, <1>2 DEF AfterStop
    <2>. QED BY Zenon, <1>0, <1>2, <2>1, <2>2, GotoKeeps, PcSets DEF LockGoes
  <1>3. CASE cli[c].todo \notin {"restart", "install"}
    BY Zenon, <1>0, <1>3, EndKeeps, PcSets DEF AfterStop, LockGoes
  <1>. QED BY Zenon, <1>1, <1>2, <1>3

LEMMA StopKeeps ==
    ASSUME LInv, NEW c \in Clients, StopPings(c) \/ StopRequests(c) \/ StopPolls(c)
    PROVE  LInv'
  <1>. USE DEF CliAt
  <1>0. JobMove(c) /\ startLock' = startLock /\ job' = job
    BY Zenon, JobStays DEF StopPings, StopRequests, StopPolls
  <1>1. ASSUME ProcsMove, NEW pc \in {"shutdown", "poll", "raised"}, CliGoto(c, pc),
               cli[c].pc \in {"stop", "shutdown", "poll"}
        PROVE  LInv'
    <2>1. c = Operator => cli[c].todo = "install" /\ job.def = cli[c].prev
      BY Zenon, <1>1, Placed, PcSets
    <2>2. LockGoes(c, pc)
      BY Zenon, <1>0, <1>1, PcSets DEF LockGoes
    <2>3. pc \in StarterPcs /\ pc \in OperatorPcs
      BY Zenon, <1>1, PcSets DEF Pcs
    <2>. QED BY Zenon, <1>0, <1>1, <2>1, <2>2, <2>3, GotoKeeps
  <1>2. CASE StopPings(c)
    <2>1. ProcsMove
      BY Zenon, <1>2, ProcsStay DEF StopPings, Unmoved
    <2>. QED BY Zenon, <1>0, <1>1, <1>2, <2>1, AfterStopKeeps DEF StopPings
  <1>3. CASE StopRequests(c)
    <2>1. CASE Answering /\ Handled(sockPath, "shutdown", "uds") /\ CliGoto(c, "poll")
      <3>1. sockPath \in 1 .. MaxDaemons
        BY <2>1, LifecycleAssumption DEF Answering, LInv, ProcsOK
      <3>2. ProcsMove
        BY Zenon, <1>3, <2>1, <3>1, HandledMoves DEF StopRequests
      <3>. QED BY Zenon, <1>1, <1>3, <2>1, <3>2 DEF StopRequests
    <2>2. CASE Fails(c) /\ UNCHANGED procs
      <3>1. ProcsMove
        BY Zenon, <1>3, <2>2, ProcsStay DEF StopRequests
      <3>. QED BY Zenon, <1>1, <1>3, <2>2, <3>1 DEF StopRequests, Fails
    <2>. QED BY Zenon, <1>3, <2>1, <2>2 DEF StopRequests
  <1>4. CASE StopPolls(c)
    <2>1. ProcsMove
      BY Zenon, <1>4, ProcsStay DEF StopPolls, Unmoved
    <2>. QED BY Zenon, <1>0, <1>1, <1>4, <2>1, AfterStopKeeps DEF StopPolls, Fails
  <1>. QED BY Zenon, <1>2, <1>3, <1>4

-----------------------------------------------------------------------------
(* The service commands.                                                    *)
LEMMA LoadedMoves ==
    ASSUME LInv, NEW b \in BOOLEAN, job' = [job EXCEPT !.loaded = b], NEW c
    PROVE  JobMove(c) /\ job'.def = job.def
  BY Zenon DEF LInv, JobMove

LEMMA ServiceStartKeeps ==
    ASSUME LInv, NEW c \in Clients, ServiceStarts(c) \/ ServiceRestarts(c)
    PROVE  LInv'
  <1>. USE DEF CliAt
  <1>1. c \in Starter /\ c # Operator /\ cli[c].pc \in {"service_start", "service_restart"}
    BY Placed, PcSets DEF ServiceStarts, ServiceRestarts
  <1>2. \A pc \in {"reach", "raised"} : LockGoes(c, pc) /\ pc \in StarterPcs
    BY Zenon, <1>1, PcSets DEF ServiceStarts, ServiceRestarts, LockGoes, Pcs
  <1>3. CASE (ManagerStarts \/ ManagerRestarts) /\ CliGoto(c, "reach") /\ job' = [job EXCEPT !.loaded = TRUE]
    <2>1. ProcsMove
      BY Zenon, <1>3, ManagerMoves DEF ServiceStarts, ServiceRestarts
    <2>2. JobMove(c)
      BY Zenon, <1>3, LoadedMoves
    <2>. QED BY Zenon, <1>1, <1>2, <1>3, <2>1, <2>2, GotoKeeps
  <1>4. CASE Fails(c) /\ UNCHANGED <<procs, launched, job>>
    <2>1. ProcsMove
      BY Zenon, <1>4, ProcsStay DEF ServiceStarts, ServiceRestarts
    <2>2. JobMove(c)
      BY Zenon, <1>4, JobStays
    <2>. QED BY Zenon, <1>1, <1>2, <1>4, <2>1, <2>2, GotoKeeps DEF Fails
  <1>. QED BY Zenon, <1>3, <1>4 DEF ServiceStarts, ServiceRestarts

LEMMA ServiceStopKeeps == ASSUME LInv, NEW c \in Clients, ServiceStops(c) PROVE LInv'
  <1>. USE DEF CliAt
  <1>1. cli[c].pc = "service_stop" /\ startLock' = startLock /\ sockPath' = sockPath
    BY Zenon DEF ServiceStops
  <1>2. CASE /\ ManagerStops /\ CliEnds(c)
             /\ job' = [job EXCEPT !.loaded = FALSE,
                                   !.def = IF cli[c].todo = "uninstall" THEN "none" ELSE @]
    <2>1. ProcsMove
      BY Zenon, <1>1, <1>2, ManagerMoves
    <2>2. JobMove(c)
      <3>1. job' \in [def : Defs, loaded : BOOLEAN] /\ (cli[c].todo # "uninstall" => job'.def = job.def)
        BY Zenon, <1>2 DEF LInv, Defs
      <3>. QED BY Zenon, <3>1, Placed DEF JobMove
    <2>. QED BY Zenon, <1>1, <1>2, <2>1, <2>2, EndKeeps, PcSets DEF LockGoes
  <1>3. CASE Fails(c) /\ UNCHANGED <<procs, launched, job>>
    <2>1. ProcsMove /\ JobMove(c)
      BY Zenon, <1>1, <1>3, ProcsStay, JobStays
    <2>2. cli[c].todo # "install"
      BY Zenon, <1>1, Placed
    <2>. QED BY ZenonT(30), <1>1, <1>3, <2>1, <2>2, GotoKeeps, PcSets DEF LockGoes, Fails, Pcs
  <1>. QED BY Zenon, <1>2, <1>3 DEF ServiceStops

LEMMA ReachKeeps == ASSUME LInv, NEW c \in Clients, ServiceReached(c) PROVE LInv'
  <1>. USE DEF CliAt
  <1>1. cli[c].pc = "reach" /\ startLock' = startLock /\ job' = job
    BY Zenon DEF ServiceReached
  <1>2. ProcsMove /\ JobMove(c)
    BY Zenon, ProcsStay, JobStays DEF ServiceReached, Unmoved
  <1>3. CASE CliEnds(c)
    BY Zenon, <1>1, <1>2, <1>3, EndKeeps, PcSets DEF LockGoes
  <1>4. CASE cli[c].todo = "install" /\ CliGoto(c, "rollback")
    <2>1. c = Operator /\ c \notin Starter
      BY Zenon, <1>4, Placed
    <2>. QED BY Zenon, <1>1, <1>2, <1>4, <2>1, GotoKeeps, PcSets DEF LockGoes
  <1>5. CASE cli[c].todo # "install" /\ Fails(c)
    BY ZenonT(30), <1>1, <1>2, <1>5, GotoKeeps, PcSets DEF LockGoes, Fails, Pcs
  <1>. QED BY Zenon, <1>3, <1>4, <1>5 DEF ServiceReached

(* install_service and its rollback, by the operator alone.                 *)
LEMMA InstallBeginKeeps == ASSUME LInv, NEW c \in Clients, InstallBegins(c) PROVE LInv'
  <1>. USE DEF CliAt
  <1>1. c = Operator /\ c \notin Starter /\ cli[c].pc = "install" /\ cli[c].todo = "install"
        /\ startLock' = startLock /\ sockPath' = sockPath
    BY Zenon, Placed, PcSets DEF InstallBegins
  <1>2. cli[c] \in CliRecord /\ ChildOK(cli[c]) /\ job.def \in Defs
    BY Zenon DEF LInv, ClientOK
  <1>3. ASSUME NEW pc \in {"stop", "rollback"}, ProcsMove, JobMove(c), job'.def = job.def,
               cli' = [cli EXCEPT ![c].pc = pc, ![c].prev = job.def]
        PROVE  LInv'
    <2>1. PICK y, x : y = [cli[c] EXCEPT !.pc = pc] /\ x = [y EXCEPT !.prev = job.def]
      BY Zenon
    <2>2. cli' = [cli EXCEPT ![c] = x]
      BY Zenon, <1>3, <2>1 DEF LInv
    <2>3. y \in CliRecord /\ y.pc = pc /\ y.todo = cli[c].todo /\ y.child = cli[c].child
      BY Zenon, <1>2, <1>3, <2>1 DEF CliRecord, OperatorPcs, Installing, Stopping
    <2>4. x \in CliRecord /\ x.pc = pc /\ x.todo = "install" /\ x.child = cli[c].child /\ x.prev = job.def
      BY Zenon, <1>1, <1>2, <2>1, <2>3 DEF CliRecord
    <2>5. ClientOK(c, x) /\ x.child = 0
      BY Zenon, <1>1, <1>2, <1>3, <2>4, PcSets DEF ClientOK, ChildOK
    <2>6. ClientMove(c, x)
      BY Zenon, <1>1, <1>3, <2>2, <2>4, <2>5, PcSets DEF ClientMove, ChildOK, LockMove, DefOK, JobMove
    <2>. QED BY Zenon, <1>3, <2>6, MoveKeeps
  <1>4. CASE /\ ManagerStops /\ job' = [job EXCEPT !.loaded = FALSE]
             /\ cli' = [cli EXCEPT ![c].pc = "stop", ![c].prev = job.def]
    BY Zenon, <1>1, <1>3, <1>4, ManagerMoves, LoadedMoves
  <1>5. CASE /\ cli' = [cli EXCEPT ![c].pc = "rollback", ![c].prev = job.def]
             /\ UNCHANGED <<procs, launched, job>>
    BY Zenon, <1>1, <1>3, <1>5, ProcsStay, JobStays
  <1>. QED BY Zenon, <1>4, <1>5 DEF InstallBegins

LEMMA InstallUnchangedKeeps == ASSUME LInv, NEW c \in Clients, InstallUnchanged(c) PROVE LInv'
  <1>. USE DEF CliAt
  <1>1. c = Operator /\ c \notin Starter /\ cli[c].pc = "install" /\ cli[c].todo = "install"
        /\ startLock' = startLock /\ sockPath' = sockPath /\ job' = job
    BY Zenon, Placed, PcSets DEF InstallUnchanged
  <1>2. cli[c] \in CliRecord /\ ChildOK(cli[c]) /\ job.def \in Defs /\ JobMove(c)
    BY Zenon, <1>1, JobStays DEF LInv, ClientOK
  <1>3. CASE /\ ManagerStarts \/ ManagerRestarts
             /\ cli' = [cli EXCEPT ![c].todo = "start", ![c].pc = "reach"]
    <2>1. PICK y, x : y = [cli[c] EXCEPT !.todo = "start"] /\ x = [y EXCEPT !.pc = "reach"]
      BY Zenon
    <2>2. cli' = [cli EXCEPT ![c] = x]
      BY Zenon, <1>3, <2>1 DEF LInv
    <2>3. y \in CliRecord /\ y.child = cli[c].child
      BY Zenon, <1>2, <2>1 DEF CliRecord
    <2>4. x \in CliRecord /\ x.pc = "reach" /\ x.child = cli[c].child
      BY Zenon, <2>1, <2>3 DEF CliRecord, OperatorPcs
    <2>5. ClientOK(c, x) /\ x.child = 0
      BY Zenon, <1>1, <1>2, <2>4, PcSets DEF ClientOK, ChildOK
    <2>6. ClientMove(c, x)
      BY Zenon, <1>1, <1>2, <2>2, <2>4, <2>5, PcSets DEF ClientMove, ChildOK, LockMove, DefOK, JobMove
    <2>. QED BY Zenon, <1>1, <1>3, <2>6, ManagerMoves, MoveKeeps
  <1>4. CASE /\ cli' = [cli EXCEPT ![c].pc = "raised", ![c].prev = job.def]
             /\ UNCHANGED <<procs, launched>>
    <2>1. PICK y, x : y = [cli[c] EXCEPT !.pc = "raised"] /\ x = [y EXCEPT !.prev = job.def]
      BY Zenon
    <2>2. cli' = [cli EXCEPT ![c] = x]
      BY Zenon, <1>4, <2>1 DEF LInv
    <2>3. y \in CliRecord /\ y.pc = "raised" /\ y.child = cli[c].child
      BY Zenon, <1>2, <2>1 DEF CliRecord, OperatorPcs
    <2>4. x \in CliRecord /\ x.pc = "raised" /\ x.child = cli[c].child /\ x.prev = job.def
      BY Zenon, <1>2, <2>1, <2>3 DEF CliRecord
    <2>5. ClientOK(c, x) /\ x.child = 0
      BY Zenon, <1>1, <1>2, <2>4, PcSets DEF ClientOK, ChildOK
    <2>6. ClientMove(c, x)
      BY Zenon, <1>1, <1>2, <2>2, <2>4, <2>5, PcSets DEF ClientMove, ChildOK, LockMove, DefOK, JobMove
    <2>. QED BY Zenon, <1>1, <1>4, <2>6, ProcsStay, MoveKeeps
  <1>. QED BY Zenon, <1>3, <1>4 DEF InstallUnchanged

LEMMA InstallKeeps ==
    ASSUME LInv, NEW c \in Clients, InstallWrites(c) \/ InstallEnables(c) \/ InstallRollsBack(c)
    PROVE  LInv'
  <1>. USE DEF CliAt
  <1>1. /\ c = Operator /\ c \notin Starter /\ cli[c].pc \in {"write", "enable", "rollback"}
        /\ cli[c].todo = "install" /\ cli[c].prev \in Defs
        /\ startLock' = startLock /\ sockPath' = sockPath
    BY Zenon, Placed, PcSets DEF InstallWrites, InstallEnables, InstallRollsBack
  <1>2. job \in [def : Defs, loaded : BOOLEAN]
    BY Zenon DEF LInv
  <1>3. \A pc \in {"enable", "rollback", "reach", "raised"} : LockGoes(c, pc) /\ pc \in OperatorPcs
    BY Zenon, <1>1, PcSets DEF LockGoes
  <1>4. ASSUME NEW pc \in {"enable", "rollback", "reach"}, CliGoto(c, pc), ProcsMove, JobMove(c)
        PROVE  LInv'
    BY ZenonT(30), <1>1, <1>3, <1>4, GotoKeeps, PcSets
  <1>5. CASE InstallWrites(c)
    <2>1. ProcsMove
      BY Zenon, <1>1, <1>5, ProcsStay DEF InstallWrites, Unmoved
    <2>2. JobMove(c)
      BY Zenon, <1>1, <1>2, <1>5 DEF InstallWrites, JobMove, Defs
    <2>. QED BY Zenon, <1>4, <1>5, <2>1, <2>2 DEF InstallWrites
  <1>6. CASE InstallEnables(c)
    <2>1. ProcsMove
      BY Zenon, <1>1, <1>6, ProcsStay, ManagerMoves DEF InstallEnables
    <2>2. JobMove(c)
      BY Zenon, <1>1, <1>2, <1>6 DEF InstallEnables, JobMove
    <2>. QED BY Zenon, <1>4, <1>6, <2>1, <2>2 DEF InstallEnables
  <1>7. CASE InstallRollsBack(c)
    <2>1. ProcsMove
      BY Zenon, <1>1, <1>7, ManagerMoves DEF InstallRollsBack
    <2>2. JobMove(c) /\ job'.def = cli[c].prev
      BY Zenon, <1>1, <1>2, <1>7 DEF InstallRollsBack, RolledBack, JobMove
    <2>. QED BY Zenon, <1>1, <1>3, <1>7, <2>1, <2>2, GotoKeeps, PcSets DEF InstallRollsBack, Fails
  <1>. QED BY Zenon, <1>5, <1>6, <1>7

(* A command begins, or reports its error and exits.                        *)
LEMMA ExitKeeps == ASSUME LInv, NEW c \in Clients, Exits(c) PROVE LInv'
  BY Zenon, ProcsStay, JobStays, EndKeeps, PcSets DEF Exits, CliAt, Unmoved, LockGoes

LEMMA CommandKeeps ==
    ASSUME LInv, NEW c \in Clients, NEW pc, NEW todo, CliCommand(c, pc, todo),
           c \in Starter => pc \in {"start", "stop", "service_start", "service_stop", "service_restart"}
                             /\ todo \in {"start", "stop", "restart"},
           c = Operator => \/ pc = "install" /\ todo = "install"
                           \/ pc = "service_stop" /\ todo = "uninstall"
    PROVE  LInv'
  <1>1. ProcsMove /\ JobMove(c) /\ startLock' = startLock /\ cli[c].pc = "idle"
    BY Zenon, ProcsStay, JobStays DEF CliCommand, Unmoved, CliAt
  <1>2. PICK x : x = [IdleCli EXCEPT !.pc = pc, !.todo = todo]
    BY Zenon
  <1>3. x = [pc |-> pc, child |-> 0, todo |-> todo, prev |-> "none"]
    BY Zenon, <1>2 DEF IdleCli
  <1>4. cli' = [cli EXCEPT ![c] = x]
    BY Zenon, <1>2 DEF CliCommand
  <1>5. pc \in {"start", "stop", "service_start", "service_stop", "service_restart", "install"}
        /\ todo \in {"start", "stop", "restart", "install", "uninstall"}
        /\ (c = Operator => c \notin Starter)
    BY Zenon, LifecycleAssumption DEF Clients
  <1>6. x \in CliRecord /\ x.pc = pc /\ x.todo = todo /\ x.child = 0
    BY <1>3, <1>5, LifecycleAssumption
    DEF CliRecord, StarterPcs, OperatorPcs, Installing, Stopping, Defs
  <1>7. ClientOK(c, x)
    <2>1. CASE c \in Starter
      BY <1>5, <1>6, <2>1, PcSets DEF ClientOK, Pcs
    <2>2. CASE c = Operator
      BY ZenonT(30), <1>5, <1>6, <2>2, PcSets DEF ClientOK
    <2>. QED BY Zenon, <2>1, <2>2 DEF Clients
  <1>8. ClientMove(c, x)
    BY Zenon, <1>1, <1>4, <1>5, <1>6, <1>7, PcSets DEF ClientMove, ChildOK, LockMove, DefOK, JobMove
  <1>. QED BY Zenon, <1>1, <1>8, MoveKeeps

-----------------------------------------------------------------------------
LEMMA LifecycleInitOK == ASSUME LifecycleInit PROVE LInv
  <1>1. ProcsOK
    BY LifecycleAssumption DEF LifecycleInit, ProcsOK, NoProc, ProcRecord, ProcStates
  <1>2. job \in [def : Defs, loaded : BOOLEAN]
    BY Zenon DEF LifecycleInit, Defs
  <1>3. cli = [c \in Clients |-> IdleCli]
    BY Zenon DEF LifecycleInit
  <1>4. IdleCli \in CliRecord /\ IdleCli.pc = "idle" /\ IdleCli.child = 0 /\ IdleCli.todo = "none"
    BY LifecycleAssumption DEF IdleCli, CliRecord, StarterPcs, Defs
  <1>5. \A c \in Clients : ClientOK(c, cli[c]) /\ ChildOK(cli[c])
    BY <1>3, <1>4, PcSets DEF ClientOK, ChildOK, Pcs
  <1>6. LockOK
    BY Zenon, <1>3, <1>4, LifecycleAssumption DEF LifecycleInit, LockOK, LockPcs, Nobody, Clients
  <1>7. DefOK(cli[Operator])
    BY Zenon, <1>3, <1>4 DEF DefOK, Clients, Stopping
  <1>. QED BY Zenon, <1>1, <1>2, <1>3, <1>5, <1>6, <1>7 DEF LInv

LEMMA LifecycleKept == ASSUME LInv, [LifecycleNext]_lifecycleVars PROVE LInv'
  <1>1. ASSUME NEW c \in Starter, CmdDaemonStart(c) \/ CmdDaemonStop(c) \/ CmdDaemonRestart(c)
        PROVE  LInv'
    <2>1. c \in Clients /\ c # Operator
      BY Zenon, LifecycleAssumption DEF Clients
    <2>. QED BY Zenon, <1>1, <2>1, CommandKeeps DEF CmdDaemonStart, CmdDaemonStop, CmdDaemonRestart
  <1>2. ASSUME CmdServiceInstall(Operator) \/ CmdServiceUninstall(Operator) PROVE LInv'
    <2>1. Operator \in Clients /\ Operator \notin Starter
      BY Zenon, LifecycleAssumption DEF Clients
    <2>. QED BY Zenon, <1>2, <2>1, CommandKeeps DEF CmdServiceInstall, CmdServiceUninstall
  <1>3. ASSUME NEW c \in Clients, ClientStep(c) PROVE LInv'
    BY Zenon, <1>3, StartKeeps, SpawnKeeps, WaitKeeps, StopKeeps, ServiceStartKeeps, ServiceStopKeeps,
       ReachKeeps, InstallBeginKeeps, InstallUnchangedKeeps, InstallKeeps, ExitKeeps DEF ClientStep
  <1>4. ASSUME NEW d \in 1 .. MaxDaemons, DaemonStep(d) \/ Crashes(d) \/ ManagerRespawns(d) PROVE LInv'
    BY Zenon, <1>4, DaemonKeeps
  <1>5. ASSUME NEW d \in 1 .. MaxDaemons, NEW kind, NetworkFrame(d, kind) PROVE LInv'
    BY Zenon, <1>5, HandledMoves, ProcessKeeps DEF NetworkFrame
  <1>6. CASE UNCHANGED lifecycleVars
    BY Zenon, <1>6, ProcsStay, ProcessKeeps DEF lifecycleVars
  <1>. QED BY Zenon, <1>1, <1>2, <1>3, <1>4, <1>5, <1>6 DEF LifecycleNext

(* In every reachable state the lock, the commands, their children and the  *)
(* service definition agree.                                                *)
THEOREM LifecycleInvariance == LifecycleSpec => []LInv
  BY LifecycleInitOK, LifecycleKept, PTL DEF LifecycleSpec

(* Processes, socket path, lock and definition keep their types; the path   *)
(* only ever names a process that was launched.                             *)
THEOREM LifecycleTypeCorrect == LifecycleSpec => []LifecycleTypeOK
  <1>1. LInv => LifecycleTypeOK
    BY Zenon DEF LInv, LifecycleTypeOK, ProcsOK, ProcRecord, ProcStates, LockOK, Defs
  <1>. QED BY <1>1, LifecycleInvariance, PTL

(* start_daemon holds _start_lock from before its second ping until the     *)
(* child answers or is reaped: of any number of commands started at once,   *)
(* one at a time waits for a process it launched.                           *)
THEOREM LaunchesSerialised == LifecycleSpec => []OneLaunchAtATime
  <1>1. LInv => OneLaunchAtATime
    BY Zenon DEF LInv, LockOK, OneLaunchAtATime, CliAt, LockPcs
  <1>. QED BY <1>1, LifecycleInvariance, PTL

(* A start that raises leaves no live child (start_daemon terminates and    *)
(* reaps it), and an installation that raises leaves the service definition *)
(* it found (install_service, _rollback_service_install), whatever daemons, *)
(* the manager and other commands do meanwhile.                             *)
THEOREM FailuresPutBack == LifecycleSpec => []FailureLeavesNothing
  <1>1. LInv => FailureLeavesNothing
    <2>. SUFFICES ASSUME LInv PROVE FailureLeavesNothing
      BY Zenon
    <2>1. \A c \in Starter : cli[c].pc = "raised" /\ cli[c].child # 0 => procs[cli[c].child].st = "gone"
      BY Zenon DEF LInv, ChildOK, Clients
    <2>2. cli[Operator].pc = "raised" /\ cli[Operator].todo = "install" => job.def = cli[Operator].prev
      BY Zenon DEF LInv, DefOK
    <2>. QED BY Zenon, <2>1, <2>2 DEF FailureLeavesNothing, CliAt, Alive
  <1>. QED BY <1>1, LifecycleInvariance, PTL

---------------------------------------------------------------------------
(***************************************************************************)
(* For any announced names and any number of memberships and LAN changes,  *)
(* what the transport holds of the LAN is what the network announces.      *)
(*                                                                         *)
(* HeldIsCurrent speaks of moments when nothing is under way.  What makes  *)
(* it true at those is what is still to come at all others: the callbacks  *)
(* the holder of the callback lock has yet to make (CandidatesFollow), and *)
(* the events the current membership's browser has yet to work off, with   *)
(* the lookup it is in (TableFollows).  The last callback due for a peer,  *)
(* and the last event queued for a name, are the ones that count.          *)
(***************************************************************************)

OthersFound == {info \in PeerInfos : info.peer # SelfPeer /\ info.addr # 0}
Infos == OthersFound \cup {NoPeer}
LanReports == [name : ServiceName, gone : BOOLEAN]
Calls == [peer : LanPeers, info : Infos]
Lookups == [name : ServiceName, info : Infos] \cup {NoLookup}
Browsers == [queue : Seq(LanReports), lookup : Lookups]
IdleBrowser == [queue |-> <<>>, lookup |-> NoLookup]
RefreshPcs == {"off", "wait", "read", "remove", "close", "open", "gone"}
Scopes == {"new", "opening", "serving", "detached", "stopped", "cleared"}

MdnsTypes ==
    /\ announced \in [ServiceName -> PeerInfos \cup {NoPeer}]
    /\ lanUp \in BOOLEAN /\ mdnsActive \in BOOLEAN
    /\ opening \in 0..MaxMemberships /\ memberships \subseteq 1..opening /\ zeroconf \in memberships \cup {0}
    /\ services \in [ServiceName -> Infos]
    /\ browser \in [Membership -> Browsers]
    /\ callbacks \in Seq(Calls)
    /\ refresher \in [pc : RefreshPcs, seen : BOOLEAN, old : Nat]
    /\ scope \in Scopes /\ cleanup \in {"none", "waiting", "done"}
    /\ held \in [LanPeers -> Infos]

\* Who may do what in which phase of the scope.
MdnsPhases ==
    /\ scope \in {"new", "opening"} => zeroconf = 0 /\ refresher.pc = "off"
    /\ scope \in {"new", "cleared"} => held = NothingHeld
    /\ scope \in {"opening", "serving", "detached"} <=> mdnsActive
    /\ cleanup # "none" => scope \in {"stopped", "cleared"}
    /\ ~mdnsActive => services = NothingAnnounced /\ callbacks = <<>>
    /\ refresher.pc \in {"remove", "close", "open"} => zeroconf = 0
    /\ zeroconf = 0 /\ refresher.pc # "remove" => services = NothingAnnounced
    /\ \A m \in Membership : m > opening => browser[m] = IdleBrowser

\* A candidate of a peer that the table of services accounts for, or none.
Accounted(peer, info, table) ==
    IF info = NoPeer THEN \A name \in ServiceName : table[name] = NoPeer \/ table[name].peer # peer
    ELSE \E name \in ServiceName : table[name] = info /\ info.peer = peer

\* Once the callbacks due are made, the transport holds what the table says.
CallsFit(calls, kept, table) ==
    \A peer \in LanPeers :
        /\ (\A i \in DOMAIN calls : calls[i].peer # peer) => Accounted(peer, kept[peer], table)
        /\ \A i \in DOMAIN calls :
               calls[i].peer = peer /\ (\A j \in DOMAIN calls : j > i => calls[j].peer # peer)
                   => Accounted(peer, calls[i].info, table)

\* Once a browser has worked off its queue, the table is what is announced.
ReportsFit(queue, lookup, table, records) ==
    \A name \in ServiceName :
        /\ \A i \in DOMAIN queue :
               queue[i].name = name /\ queue[i].gone /\ (\A j \in DOMAIN queue : j > i => queue[j].name # name)
                   => records[name] = NoPeer
        /\ (\A i \in DOMAIN queue : queue[i].name # name) =>
               PeerInfoOf(records[name]) = IF lookup.name = name THEN lookup.info ELSE table[name]

\* What the transport was told, and will be told, is what the table says.
CandidatesFollow == Attached => CallsFit(callbacks, held, services)

\* What was looked up, and will be, is what the network announces.
TableFollows ==
    zeroconf # 0 /\ mdnsActive /\ ~missed =>
        ReportsFit(browser[zeroconf].queue, browser[zeroconf].lookup, services, announced)

MInv == MdnsTypes /\ MdnsPhases /\ CandidatesFollow /\ TableFollows

---------------------------------------------------------------------------
(* Sequences: what is left of one, and one more at its end.                 *)

LEMMA WithoutHead ==
    ASSUME NEW S, NEW s \in Seq(S), s # <<>>
    PROVE  /\ 1 \in DOMAIN s /\ Head(s) = s[1] /\ Head(s) \in S /\ Tail(s) \in Seq(S)
           /\ \A i \in DOMAIN Tail(s) : i \in Nat /\ i + 1 \in DOMAIN s /\ Tail(s)[i] = s[i + 1]
           /\ \A i \in DOMAIN s : i # 1 => i - 1 \in DOMAIN Tail(s) /\ Tail(s)[i - 1] = s[i]
           /\ \A i \in DOMAIN s : i \in Nat /\ i >= 1
  <1>1. Len(s) \in Nat /\ Len(s) >= 1 /\ DOMAIN s = 1..Len(s)
    OBVIOUS
  <1>2. Tail(s) \in Seq(S) /\ Len(Tail(s)) = Len(s) - 1 /\ Head(s) = s[1] /\ Head(s) \in S
    OBVIOUS
  <1>3. DOMAIN Tail(s) = 1..(Len(s) - 1)
    BY <1>1, <1>2
  <1>4. \A i \in 1..(Len(s) - 1) : Tail(s)[i] = s[i + 1]
    BY <1>1
  <1>. QED BY <1>1, <1>2, <1>3, <1>4

LEMMA WithOneMore ==
    ASSUME NEW S, NEW s \in Seq(S), NEW x \in S
    PROVE  \E k \in Nat : /\ DOMAIN Append(s, x) = DOMAIN s \cup {k} /\ k \notin DOMAIN s /\ Append(s, x)[k] = x
                          /\ Append(s, x) \in Seq(S)
                          /\ \A i \in DOMAIN s : i \in Nat /\ i < k /\ Append(s, x)[i] = s[i]
  <1>1. Len(s) \in Nat /\ DOMAIN s = 1..Len(s) /\ Append(s, x) \in Seq(S)
    OBVIOUS
  <1>2. DOMAIN Append(s, x) = 1..(Len(s) + 1) /\ Append(s, x)[Len(s) + 1] = x
    BY <1>1
  <1>3. \A i \in 1..Len(s) : Append(s, x)[i] = s[i]
    BY <1>1
  <1>4. DOMAIN Append(s, x) = DOMAIN s \cup {Len(s) + 1} /\ Len(s) + 1 \notin DOMAIN s /\ Len(s) + 1 \in Nat
    BY <1>1, <1>2
  <1>5. \A i \in DOMAIN s : i \in Nat /\ i < Len(s) + 1
    BY <1>1
  <1>. QED BY Zenon, <1>1, <1>2, <1>3, <1>4, <1>5

LEMMA Ordered ==
    ASSUME NEW S, NEW s \in Orderings(S)
    PROVE  s \in Seq(S) /\ (\A i \in DOMAIN s : s[i] \in S) /\ (\A x \in S : \E i \in DOMAIN s : s[i] = x)
  <1>1. PICK n \in 0..Cardinality(S) : s \in [1..n -> S]
    BY Zenon DEF Orderings
  <1>2. n \in Nat
    BY <1>1
  <1>3. s \in Seq(S)
    BY <1>1, <1>2
  <1>4. {s[i] : i \in DOMAIN s} = S
    BY Zenon DEF Orderings
  <1>. QED BY Zenon, <1>3, <1>4

---------------------------------------------------------------------------
(* The callbacks due and what the transport holds.                          *)

LEMMA CallMade ==
    ASSUME NEW calls \in Seq(Calls), calls # <<>>, NEW kept \in [LanPeers -> Infos], NEW table,
           CallsFit(calls, kept, table)
    PROVE  /\ CallsFit(Tail(calls), [kept EXCEPT ![Head(calls).peer] = Head(calls).info], table)
           /\ [kept EXCEPT ![Head(calls).peer] = Head(calls).info] \in [LanPeers -> Infos]
           /\ Tail(calls) \in Seq(Calls)
  <1>. DEFINE rest == Tail(calls)
              new == [kept EXCEPT ![Head(calls).peer] = Head(calls).info]
  <1>1. /\ 1 \in DOMAIN calls /\ Head(calls) = calls[1] /\ Head(calls) \in Calls /\ rest \in Seq(Calls)
        /\ \A i \in DOMAIN rest : i \in Nat /\ i + 1 \in DOMAIN calls /\ rest[i] = calls[i + 1]
        /\ \A i \in DOMAIN calls : i # 1 => i - 1 \in DOMAIN rest /\ rest[i - 1] = calls[i]
        /\ \A i \in DOMAIN calls : i \in Nat /\ i >= 1
    BY Zenon, WithoutHead
  <1>. HIDE DEF rest
  <1>2. calls[1].peer \in LanPeers /\ calls[1].info \in Infos
    BY Zenon, <1>1 DEF Calls
  <1>3. /\ new \in [LanPeers -> Infos] /\ new[calls[1].peer] = calls[1].info
        /\ \A p \in LanPeers : p # calls[1].peer => new[p] = kept[p]
    BY Zenon, <1>1, <1>2
  <1>. HIDE DEF new
  <1>4. ASSUME NEW peer \in LanPeers, \A i \in DOMAIN rest : rest[i].peer # peer
        PROVE  Accounted(peer, new[peer], table)
    <2>1. \A i \in DOMAIN calls : i > 1 => calls[i].peer # peer
      <3>. SUFFICES ASSUME NEW i \in DOMAIN calls, i > 1 PROVE calls[i].peer # peer
        BY Zenon
      <3>1. i # 1
        OBVIOUS
      <3>. QED BY Zenon, <1>1, <1>4, <3>1
    <2>2. CASE calls[1].peer = peer
      BY ZenonT(30), <1>1, <1>3, <2>1, <2>2 DEF CallsFit
    <2>3. CASE calls[1].peer # peer
      <3>1. \A i \in DOMAIN calls : i = 1 \/ i > 1
        BY <1>1
      <3>. QED BY Zenon, <1>3, <2>1, <2>3, <3>1 DEF CallsFit
    <2>. QED BY Zenon, <2>2, <2>3
  <1>5. ASSUME NEW peer \in LanPeers, NEW i \in DOMAIN rest, rest[i].peer = peer,
               \A j \in DOMAIN rest : j > i => rest[j].peer # peer
        PROVE  Accounted(peer, rest[i].info, table)
    <2>1. \A j \in DOMAIN calls : j > i + 1 => calls[j].peer # peer
      <3>. SUFFICES ASSUME NEW j \in DOMAIN calls, j > i + 1 PROVE calls[j].peer # peer
        BY Zenon
      <3>1. j # 1 /\ j - 1 > i
        BY <1>1
      <3>2. j - 1 \in DOMAIN rest /\ rest[j - 1] = calls[j]
        BY Zenon, <1>1, <3>1
      <3>3. rest[j - 1].peer # peer
        BY Zenon, <1>5, <3>1, <3>2
      <3>. QED BY Zenon, <3>2, <3>3
    <2>2. i + 1 \in DOMAIN calls /\ calls[i + 1].peer = peer /\ calls[i + 1].info = rest[i].info
      BY Zenon, <1>1, <1>5
    <2>3. Accounted(peer, calls[i + 1].info, table)
      BY Zenon, <2>1, <2>2 DEF CallsFit
    <2>. QED BY Zenon, <2>2, <2>3
  <1>6. CallsFit(rest, new, table)
    BY Zenon, <1>4, <1>5 DEF CallsFit
  <1>. QED BY Zenon, <1>1, <1>3, <1>6 DEF rest, new

LEMMA NoCallsFit ==
    ASSUME NEW kept, NEW table
    PROVE  CallsFit(<<>>, kept, table) <=> \A peer \in LanPeers : Accounted(peer, kept[peer], table)
  <1>1. DOMAIN <<>> = {}
    OBVIOUS
  <1>. QED BY Zenon, <1>1 DEF CallsFit

LEMMA OneCallFits ==
    ASSUME NEW kept, NEW table, NEW c \in Calls, Accounted(c.peer, c.info, table),
           \A peer \in LanPeers : peer # c.peer => Accounted(peer, kept[peer], table)
    PROVE  <<c>> \in Seq(Calls) /\ CallsFit(<<c>>, kept, table)
  <1>1. DOMAIN <<c>> = {1} /\ <<c>>[1] = c /\ <<c>> \in Seq(Calls)
    OBVIOUS
  <1>. QED BY Zenon, <1>1 DEF CallsFit

LEMMA TwoCallsFit ==
    ASSUME NEW kept, NEW table, NEW c \in Calls, NEW d \in Calls, c.peer # d.peer,
           Accounted(c.peer, c.info, table), Accounted(d.peer, d.info, table),
           \A peer \in LanPeers : peer # c.peer /\ peer # d.peer => Accounted(peer, kept[peer], table)
    PROVE  Append(<<c>>, d) \in Seq(Calls) /\ CallsFit(Append(<<c>>, d), kept, table)
  <1>. DEFINE s == Append(<<c>>, d)
  <1>1. DOMAIN s = {1, 2} /\ s[1] = c /\ s[2] = d /\ s \in Seq(Calls)
    OBVIOUS
  <1>. HIDE DEF s
  <1>2. 1 # 2
    OBVIOUS
  <1>3. CallsFit(s, kept, table)
    BY Zenon, <1>1, <1>2 DEF CallsFit
  <1>. QED BY Zenon, <1>1, <1>3 DEF s

\* Listing something under one name touches only the peers it was and is listed for.
LEMMA Relisted ==
    ASSUME NEW table \in [ServiceName -> Infos], NEW name \in ServiceName, NEW new, NEW peer, NEW info,
           table[name] = NoPeer \/ table[name].peer # peer, new = NoPeer \/ new.peer # peer,
           Accounted(peer, info, table)
    PROVE  Accounted(peer, info, [table EXCEPT ![name] = new])
  <1>1. /\ [table EXCEPT ![name] = new][name] = new
        /\ \A n \in ServiceName : n # name => [table EXCEPT ![name] = new][n] = table[n]
    BY Zenon
  <1>. QED BY Zenon, <1>1 DEF Accounted

---------------------------------------------------------------------------
(* The browser's queue and what is announced.                               *)

LEMMA CandidateTypes ==
    ASSUME NEW record \in PeerInfos \cup {NoPeer}
    PROVE  PeerInfoOf(record) \in Infos /\ PeerInfoOf(NoPeer) = NoPeer
  BY Zenon DEF PeerInfoOf, Infos, OthersFound

LEMMA ReportQueued ==
    ASSUME NEW queue \in Seq(LanReports), NEW lookup, NEW table, NEW records \in [ServiceName -> PeerInfos \cup {NoPeer}],
           NEW name \in ServiceName, NEW info, ReportsFit(queue, lookup, table, records)
    PROVE  ReportsFit(Append(queue, [name |-> name, gone |-> info = NoPeer]), lookup, table,
                      [records EXCEPT ![name] = info])
  <1>. DEFINE report == [name |-> name, gone |-> info = NoPeer]
              more == Append(queue, report)
              new == [records EXCEPT ![name] = info]
  <1>1. report \in LanReports /\ report.name = name /\ (report.gone <=> info = NoPeer)
    BY Zenon DEF LanReports
  <1>. HIDE DEF report
  <1>2. PICK k \in Nat : /\ DOMAIN more = DOMAIN queue \cup {k} /\ k \notin DOMAIN queue /\ more[k] = report
                         /\ more \in Seq(LanReports)
                         /\ \A i \in DOMAIN queue : i \in Nat /\ i < k /\ more[i] = queue[i]
    BY <1>1, WithOneMore
  <1>3. new[name] = info /\ \A n \in ServiceName : n # name => new[n] = records[n]
    BY Zenon
  <1>4. \A i \in DOMAIN queue : k > i /\ ~(i > k)
    BY <1>2
  <1>. HIDE DEF more, new
  <1>5. ASSUME NEW n \in ServiceName, NEW i \in DOMAIN more, more[i].name = n, more[i].gone,
               \A j \in DOMAIN more : j > i => more[j].name # n
        PROVE  new[n] = NoPeer
    <2>1. CASE i = k
      BY Zenon, <2>1, <1>1, <1>2, <1>3, <1>5
    <2>2. CASE i # k
      <3>1. i \in DOMAIN queue /\ more[i] = queue[i] /\ k \in DOMAIN more /\ k > i
        BY Zenon, <1>2, <1>4, <2>2
      <3>2. n # name
        BY Zenon, <3>1, <1>1, <1>2, <1>5
      <3>3. \A j \in DOMAIN queue : j > i => queue[j].name # n
        BY Zenon, <1>2, <1>5
      <3>. QED BY Zenon, <3>1, <3>2, <3>3, <1>3, <1>5 DEF ReportsFit
    <2>. QED BY Zenon, <2>1, <2>2
  <1>6. ASSUME NEW n \in ServiceName, \A i \in DOMAIN more : more[i].name # n
        PROVE  PeerInfoOf(new[n]) = IF lookup.name = n THEN lookup.info ELSE table[n]
    <2>1. n # name /\ \A i \in DOMAIN queue : queue[i].name # n
      BY Zenon, <1>1, <1>2, <1>6
    <2>. QED BY Zenon, <2>1, <1>3 DEF ReportsFit
  <1>7. ReportsFit(more, lookup, table, new)
    BY Zenon, <1>5, <1>6 DEF ReportsFit
  <1>. QED BY Zenon, <1>7 DEF more, report, new

\* Without its first report a queue says the same, but for that report's name.
LEMMA ReportTaken ==
    ASSUME NEW queue \in Seq(LanReports), queue # <<>>, NEW lookup, NEW table, NEW records,
           ReportsFit(queue, lookup, table, records)
    PROVE  /\ Head(queue) \in LanReports /\ Tail(queue) \in Seq(LanReports)
           /\ \A n \in ServiceName : \A i \in DOMAIN Tail(queue) :
                  /\ Tail(queue)[i].name = n /\ Tail(queue)[i].gone
                  /\ \A j \in DOMAIN Tail(queue) : j > i => Tail(queue)[j].name # n
                  => records[n] = NoPeer
           /\ \A n \in ServiceName : (\A i \in DOMAIN Tail(queue) : Tail(queue)[i].name # n) =>
                  IF n = Head(queue).name THEN Head(queue).gone => records[n] = NoPeer
                  ELSE PeerInfoOf(records[n]) = IF lookup.name = n THEN lookup.info ELSE table[n]
  <1>. DEFINE rest == Tail(queue)
  <1>1. /\ 1 \in DOMAIN queue /\ Head(queue) = queue[1] /\ Head(queue) \in LanReports /\ rest \in Seq(LanReports)
        /\ \A i \in DOMAIN rest : i \in Nat /\ i + 1 \in DOMAIN queue /\ rest[i] = queue[i + 1]
        /\ \A i \in DOMAIN queue : i # 1 => i - 1 \in DOMAIN rest /\ rest[i - 1] = queue[i]
        /\ \A i \in DOMAIN queue : i \in Nat /\ i >= 1
    BY Zenon, WithoutHead
  <1>. HIDE DEF rest
  <1>2. ASSUME NEW n \in ServiceName, NEW i \in DOMAIN rest, rest[i].name = n, rest[i].gone,
               \A j \in DOMAIN rest : j > i => rest[j].name # n
        PROVE  records[n] = NoPeer
    <2>1. ASSUME NEW j \in DOMAIN queue, j > i + 1
          PROVE  queue[j].name # n
      <3>1. j # 1 /\ j - 1 > i
        BY <1>1, <2>1
      <3>2. j - 1 \in DOMAIN rest /\ rest[j - 1] = queue[j]
        BY Zenon, <1>1, <3>1
      <3>3. rest[j - 1].name # n
        BY Zenon, <1>2, <3>1, <3>2
      <3>. QED BY Zenon, <3>2, <3>3
    <2>2. i + 1 \in DOMAIN queue /\ queue[i + 1].name = n /\ queue[i + 1].gone
      BY Zenon, <1>1, <1>2
    <2>. QED BY Zenon, <2>1, <2>2 DEF ReportsFit
  <1>3. ASSUME NEW n \in ServiceName, \A i \in DOMAIN rest : rest[i].name # n
        PROVE  IF n = Head(queue).name THEN Head(queue).gone => records[n] = NoPeer
               ELSE PeerInfoOf(records[n]) = IF lookup.name = n THEN lookup.info ELSE table[n]
    <2>1. ASSUME NEW j \in DOMAIN queue, j # 1
          PROVE  queue[j].name # n
      BY Zenon, <1>1, <1>3, <2>1
    <2>2. \A j \in DOMAIN queue : j > 1 => j # 1
      BY <1>1
    <2>3. CASE n = Head(queue).name
      <3>1. \A j \in DOMAIN queue : j > 1 => queue[j].name # n
        BY Zenon, <2>1, <2>2
      <3>2. queue[1].name = n /\ queue[1].gone => records[n] = NoPeer
        BY Zenon, <1>1, <3>1 DEF ReportsFit
      <3>. QED BY Zenon, <1>1, <2>3, <3>2
    <2>4. CASE n # Head(queue).name
      <3>1. \A j \in DOMAIN queue : queue[j].name # n
        BY Zenon, <1>1, <2>1, <2>4
      <3>. QED BY Zenon, <3>1, <2>4 DEF ReportsFit
    <2>. QED BY Zenon, <2>3, <2>4
  <1>. QED BY Zenon, <1>1, <1>2, <1>3 DEF rest

LEMMA ReportLookedUp ==
    ASSUME NEW queue \in Seq(LanReports), queue # <<>>, NEW table, NEW records, ~Head(queue).gone,
           ReportsFit(queue, NoLookup, table, records)
    PROVE  ReportsFit(Tail(queue), [name |-> Head(queue).name, info |-> PeerInfoOf(records[Head(queue).name])],
                      table, records)
  <1>1. \A n \in ServiceName : NoLookup.name # n
    BY Zenon, MdnsAssumption DEF NoLookup
  <1>. DEFINE rest == Tail(queue)
              found == [name |-> Head(queue).name, info |-> PeerInfoOf(records[Head(queue).name])]
  <1>2. /\ \A n \in ServiceName : \A i \in DOMAIN rest :
               rest[i].name = n /\ rest[i].gone /\ (\A j \in DOMAIN rest : j > i => rest[j].name # n)
                   => records[n] = NoPeer
        /\ \A n \in ServiceName : (\A i \in DOMAIN rest : rest[i].name # n) =>
               IF n = Head(queue).name THEN Head(queue).gone => records[n] = NoPeer
               ELSE PeerInfoOf(records[n]) = IF NoLookup.name = n THEN NoLookup.info ELSE table[n]
    BY ReportTaken
  <1>. HIDE DEF rest
  <1>3. found.name = Head(queue).name /\ found.info = PeerInfoOf(records[Head(queue).name])
    BY Zenon
  <1>. HIDE DEF found
  <1>4. ReportsFit(rest, found, table, records)
    BY Zenon, <1>1, <1>2, <1>3 DEF ReportsFit
  <1>. QED BY Zenon, <1>4 DEF rest, found

LEMMA ReportRemoved ==
    ASSUME NEW queue \in Seq(LanReports), queue # <<>>, NEW table \in [ServiceName -> Infos], NEW records,
           Head(queue).gone, ReportsFit(queue, NoLookup, table, records)
    PROVE  ReportsFit(Tail(queue), NoLookup, [table EXCEPT ![Head(queue).name] = NoPeer], records)
  <1>1. \A n \in ServiceName : NoLookup.name # n
    BY Zenon, MdnsAssumption DEF NoLookup
  <1>2. Head(queue) \in LanReports
    BY Zenon, ReportTaken
  <1>3. Head(queue).name \in ServiceName
    BY Zenon, <1>2 DEF LanReports
  <1>. DEFINE new == [table EXCEPT ![Head(queue).name] = NoPeer]
  <1>4. /\ new[Head(queue).name] = NoPeer
        /\ \A n \in ServiceName : n # Head(queue).name => new[n] = table[n]
    BY Zenon, <1>3
  <1>5. PeerInfoOf(NoPeer) = NoPeer
    BY Zenon DEF PeerInfoOf
  <1>. HIDE DEF new
  <1>. DEFINE rest == Tail(queue)
  <1>6. /\ \A n \in ServiceName : \A i \in DOMAIN rest :
               rest[i].name = n /\ rest[i].gone /\ (\A j \in DOMAIN rest : j > i => rest[j].name # n)
                   => records[n] = NoPeer
        /\ \A n \in ServiceName : (\A i \in DOMAIN rest : rest[i].name # n) =>
               IF n = Head(queue).name THEN Head(queue).gone => records[n] = NoPeer
               ELSE PeerInfoOf(records[n]) = IF NoLookup.name = n THEN NoLookup.info ELSE table[n]
    BY ReportTaken
  <1>. HIDE DEF rest
  <1>7. ReportsFit(rest, NoLookup, new, records)
    BY ZenonT(30), <1>1, <1>4, <1>5, <1>6 DEF ReportsFit
  <1>. QED BY Zenon, <1>7 DEF new, rest

LEMMA LookupApplied ==
    ASSUME NEW queue, NEW lookup, lookup.name \in ServiceName, NEW table \in [ServiceName -> Infos], NEW records,
           ReportsFit(queue, lookup, table, records)
    PROVE  ReportsFit(queue, NoLookup, [table EXCEPT ![lookup.name] = lookup.info], records)
  <1>1. \A n \in ServiceName : NoLookup.name # n
    BY Zenon, MdnsAssumption DEF NoLookup
  <1>. DEFINE new == [table EXCEPT ![lookup.name] = lookup.info]
  <1>2. /\ new[lookup.name] = lookup.info
        /\ \A n \in ServiceName : n # lookup.name => new[n] = table[n]
    BY Zenon
  <1>. HIDE DEF new
  <1>3. ReportsFit(queue, NoLookup, new, records)
    BY Zenon, <1>1, <1>2 DEF ReportsFit
  <1>. QED BY Zenon, <1>3 DEF new

LEMMA ReportsBegin ==
    ASSUME NEW records,
           NEW reports \in Orderings({[name |-> name, gone |-> FALSE] : name \in {n \in ServiceName : records[n] # NoPeer}})
    PROVE  reports \in Seq(LanReports) /\ ReportsFit(reports, NoLookup, NothingAnnounced, records)
  <1>. DEFINE S == {[name |-> name, gone |-> FALSE] : name \in {n \in ServiceName : records[n] # NoPeer}}
  <1>1. /\ reports \in Seq(S)
        /\ \A i \in DOMAIN reports : reports[i] \in S
        /\ \A x \in S : \E i \in DOMAIN reports : reports[i] = x
    BY Zenon, Ordered
  <1>2. \A x \in S : x \in LanReports /\ x.gone = FALSE
    <2>. SUFFICES ASSUME NEW x \in S PROVE x \in LanReports /\ x.gone = FALSE
      BY Zenon
    <2>1. PICK n \in ServiceName : x = [name |-> n, gone |-> FALSE]
      BY Zenon
    <2>. QED BY Zenon, <2>1 DEF LanReports
  <1>3. \A n \in ServiceName : records[n] # NoPeer => \E x \in S : x.name = n
    <2>. SUFFICES ASSUME NEW n \in ServiceName, records[n] # NoPeer PROVE \E x \in S : x.name = n
      BY Zenon
    <2>1. [name |-> n, gone |-> FALSE] \in S /\ [name |-> n, gone |-> FALSE].name = n
      BY Zenon
    <2>. QED BY Zenon, <2>1
  <1>. HIDE DEF S
  <1>4. reports \in Seq(LanReports)
    BY <1>1, <1>2
  <1>5. \A n \in ServiceName : NoLookup.name # n /\ NothingAnnounced[n] = NoPeer
    BY Zenon, MdnsAssumption DEF NoLookup, NothingAnnounced
  <1>6. PeerInfoOf(NoPeer) = NoPeer
    BY Zenon DEF PeerInfoOf
  <1>7. \A n \in ServiceName : (\A i \in DOMAIN reports : reports[i].name # n) => records[n] = NoPeer
    BY ZenonT(30), <1>1, <1>3
  <1>8. ReportsFit(reports, NoLookup, NothingAnnounced, records)
    BY Zenon, <1>1, <1>2, <1>5, <1>6, <1>7 DEF ReportsFit
  <1>. QED BY Zenon, <1>4, <1>8

---------------------------------------------------------------------------
(* Steps that leave one half of the argument alone.                         *)

LEMMA CandidatesKept ==
    ASSUME CandidatesFollow, UNCHANGED <<callbacks, held, services>>, Attached' => Attached
    PROVE  CandidatesFollow'
  BY Zenon DEF CandidatesFollow

LEMMA TableKept ==
    ASSUME TableFollows, UNCHANGED <<services, announced>>, zeroconf' # 0 => zeroconf' = zeroconf,
           mdnsActive' => mdnsActive, missed => missed',
           zeroconf' # 0 => browser'[zeroconf].queue = browser[zeroconf].queue,
           zeroconf' # 0 => browser'[zeroconf].lookup = browser[zeroconf].lookup
    PROVE  TableFollows'
  BY Zenon DEF TableFollows

LEMMA CurrentIsOpen ==
    ASSUME MdnsTypes, zeroconf # 0
    PROVE  zeroconf \in memberships /\ zeroconf \in Membership
  <1>1. zeroconf \in memberships /\ memberships \subseteq 1..opening /\ opening \in 0..MaxMemberships
    BY Zenon DEF MdnsTypes
  <1>. QED BY <1>1, MdnsAssumption DEF Membership

\* _open_membership on an empty table: the browser reports all there is.
LEMMA MembershipOpens ==
    ASSUME MdnsTypes, MdnsPhases, OpensMembership, services = NothingAnnounced, UNCHANGED <<services, announced>>
    PROVE  /\ opening' \in 0..MaxMemberships /\ memberships' \subseteq 1..opening' /\ zeroconf' \in memberships'
           /\ browser' \in [Membership -> Browsers]
           /\ \A m \in Membership : m > opening' => browser'[m] = IdleBrowser
           /\ TableFollows'
  <1>1. PICK reports \in Orderings({[name |-> name, gone |-> FALSE] :
                                       name \in {n \in ServiceName : announced[n] # NoPeer}}) :
            browser' = [browser EXCEPT ![opening + 1].queue = reports]
    BY Zenon DEF OpensMembership
  <1>2. reports \in Seq(LanReports) /\ ReportsFit(reports, NoLookup, NothingAnnounced, announced)
    BY Zenon, ReportsBegin
  <1>3. /\ opening \in Nat /\ opening + 1 \in Membership /\ opening' = opening + 1 /\ zeroconf' = opening + 1
        /\ memberships \subseteq 1..opening /\ memberships' = memberships \cup {opening + 1}
    BY MdnsAssumption DEF MdnsTypes, OpensMembership, Membership
  <1>4. browser \in [Membership -> Browsers] /\ browser[opening + 1] = IdleBrowser
    BY <1>3 DEF MdnsTypes, MdnsPhases
  <1>. DEFINE b == [browser[opening + 1] EXCEPT !.queue = reports]
  <1>5. b = [queue |-> reports, lookup |-> NoLookup] /\ b.queue = reports /\ b.lookup = NoLookup
    BY <1>4 DEF IdleBrowser
  <1>6. b \in Browsers
    BY Zenon, <1>2, <1>5 DEF Browsers, Lookups
  <1>7. browser' = [browser EXCEPT ![opening + 1] = b]
    BY Zenon, <1>1
  <1>. HIDE DEF b
  <1>8. /\ browser' \in [Membership -> Browsers] /\ browser'[opening + 1] = b
        /\ \A m \in Membership : m # opening + 1 => browser'[m] = browser[m]
    BY Zenon, <1>3, <1>4, <1>6, <1>7
  <1>9. opening' \in 0..MaxMemberships /\ memberships' \subseteq 1..opening' /\ zeroconf' \in memberships'
    <2>1. opening' \in 0..MaxMemberships
      BY <1>3, MdnsAssumption DEF Membership
    <2>2. /\ opening + 1 \in 1..(opening + 1)
          /\ \A m \in 1..opening : m \in 1..(opening + 1)
      <3>1. opening \in Nat
        BY Zenon, <1>3
      <3>. QED BY <3>1
    <2>. QED BY Zenon, <1>3, <2>1, <2>2
  <1>10. \A m \in Membership : m > opening' => m # opening + 1 /\ m > opening
    BY <1>3 DEF Membership
  <1>11. \A m \in Membership : m > opening' => browser'[m] = IdleBrowser
    BY Zenon, <1>8, <1>10 DEF MdnsPhases
  <1>12. ReportsFit(browser'[zeroconf'].queue, browser'[zeroconf'].lookup, services', announced')
    BY Zenon, <1>2, <1>3, <1>5, <1>8
  <1>. QED BY Zenon, <1>8, <1>9, <1>11, <1>12 DEF TableFollows

---------------------------------------------------------------------------
(* The network.                                                             *)

LEMMA AnnouncementKeeps ==
    ASSUME MInv, NEW name \in ServiceName, NEW info \in PeerInfos \cup {NoPeer}, NetworkChanges(name, info)
    PROVE  MInv'
  <1>. DEFINE report == [name |-> name, gone |-> info = NoPeer]
              more(m) == [browser[m] EXCEPT !.queue = Append(@, report)]
  <1>1. report \in LanReports
    BY Zenon DEF LanReports
  <1>2. browser' = [m \in Membership |-> IF m \in memberships THEN more(m) ELSE browser[m]]
    BY Zenon DEF NetworkChanges
  <1>. HIDE DEF report
  <1>3. ASSUME NEW m \in Membership
        PROVE  more(m) \in Browsers /\ more(m).queue = Append(browser[m].queue, report) /\ more(m).lookup = browser[m].lookup
    <2>1. browser[m] \in Browsers
      BY Zenon, <1>3 DEF MInv, MdnsTypes
    <2>2. browser[m].queue \in Seq(LanReports) /\ browser[m].lookup \in Lookups
      BY Zenon, <2>1 DEF Browsers
    <2>3. Append(browser[m].queue, report) \in Seq(LanReports)
      BY <1>1, <2>2
    <2>. QED BY Zenon, <2>1, <2>2, <2>3 DEF Browsers
  <1>. HIDE DEF more
  <1>4. browser' \in [Membership -> Browsers] /\ announced' \in [ServiceName -> PeerInfos \cup {NoPeer}]
    <2>1. browser \in [Membership -> Browsers] /\ announced \in [ServiceName -> PeerInfos \cup {NoPeer}]
      BY Zenon DEF MInv, MdnsTypes
    <2>2. announced' = [announced EXCEPT ![name] = info]
      BY Zenon DEF NetworkChanges
    <2>. QED BY Zenon, <1>2, <1>3, <2>1, <2>2
  <1>5. MdnsTypes'
    BY Zenon, <1>4 DEF MInv, MdnsTypes, NetworkChanges
  <1>6. \A m \in Membership : m > opening' => browser'[m] = IdleBrowser
    <2>1. \A m \in Membership : m > opening => m \notin memberships /\ browser[m] = IdleBrowser
      BY DEF MInv, MdnsTypes, MdnsPhases, Membership
    <2>. QED BY Zenon, <1>2, <2>1 DEF NetworkChanges
  <1>7. MdnsPhases'
    BY Zenon, <1>6 DEF MInv, MdnsPhases, NetworkChanges
  <1>8. CandidatesFollow'
    <2>1. UNCHANGED <<callbacks, held, services>> /\ UNCHANGED scope
      BY Zenon DEF NetworkChanges
    <2>. QED BY Zenon, <2>1, CandidatesKept DEF MInv, Attached
  <1>9. TableFollows'
    <2>. SUFFICES ASSUME zeroconf' # 0, mdnsActive', ~missed'
                  PROVE  ReportsFit(browser'[zeroconf'].queue, browser'[zeroconf'].lookup, services', announced')
      BY Zenon DEF TableFollows
    <2>1. /\ UNCHANGED <<zeroconf, mdnsActive, missed, services>>
          /\ announced' = [announced EXCEPT ![name] = info]
      BY Zenon DEF NetworkChanges
    <2>2. zeroconf \in memberships /\ zeroconf \in Membership /\ zeroconf # 0
      BY Zenon, <2>1, CurrentIsOpen DEF MInv
    <2>3. browser'[zeroconf] = more(zeroconf)
      BY Zenon, <1>2, <2>2
    <2>4. ReportsFit(browser[zeroconf].queue, browser[zeroconf].lookup, services, announced)
      BY Zenon, <2>1, <2>2 DEF MInv, TableFollows
    <2>5. browser[zeroconf].queue \in Seq(LanReports) /\ announced \in [ServiceName -> PeerInfos \cup {NoPeer}]
      BY Zenon, <2>2 DEF MInv, MdnsTypes, Browsers
    <2>6. ReportsFit(Append(browser[zeroconf].queue, report), browser[zeroconf].lookup, services,
                     [announced EXCEPT ![name] = info])
      BY Zenon, <2>4, <2>5, ReportQueued DEF report
    <2>. QED BY Zenon, <1>3, <2>1, <2>2, <2>3, <2>6
  <1>. QED BY Zenon, <1>5, <1>7, <1>8, <1>9 DEF MInv

LEMMA LanChangeKeeps ==
    ASSUME MInv, LanChanges
    PROVE  MInv'
  <1>1. MdnsTypes'
    BY Zenon DEF MInv, MdnsTypes, LanChanges
  <1>2. MdnsPhases'
    BY Zenon DEF MInv, MdnsPhases, LanChanges
  <1>3. CandidatesFollow' /\ TableFollows'
    BY Zenon DEF MInv, CandidatesFollow, TableFollows, Attached, LanChanges
  <1>. QED BY Zenon, <1>1, <1>2, <1>3 DEF MInv

---------------------------------------------------------------------------
(* The browser threads.                                                     *)

\* A browser has done something; nothing but its own state has changed.
LEMMA BrowserStep ==
    ASSUME MdnsTypes, NEW m \in Membership, NEW b \in Browsers, browser' = [browser EXCEPT ![m] = b],
           browser[m] # IdleBrowser, MdnsPhases, opening' = opening
    PROVE  /\ browser' \in [Membership -> Browsers] /\ browser'[m] = b
           /\ \A n \in Membership : n # m => browser'[n] = browser[n]
           /\ \A n \in Membership : n > opening' => browser'[n] = IdleBrowser
  <1>1. browser \in [Membership -> Browsers]
    BY Zenon DEF MdnsTypes
  <1>2. /\ browser' \in [Membership -> Browsers] /\ browser'[m] = b
        /\ \A n \in Membership : n # m => browser'[n] = browser[n]
    BY Zenon, <1>1
  <1>3. \A n \in Membership : n > opening => n # m /\ browser[n] = IdleBrowser
    BY Zenon DEF MdnsPhases
  <1>. QED BY Zenon, <1>2, <1>3

\* The callbacks for a name that loses its candidate: one for the peer it had,
\* which another name may account for.
LEMMA LossIsAccounted ==
    ASSUME NEW table \in [ServiceName -> Infos], NEW name \in ServiceName, table[name] # NoPeer,
           NEW calls \in RemovedOrRemaining([table EXCEPT ![name] = NoPeer], table[name])
    PROVE  \E c \in Calls : /\ calls = <<c>> /\ c.peer = table[name].peer
                            /\ Accounted(c.peer, c.info, [table EXCEPT ![name] = NoPeer])
  <1>. DEFINE left == [table EXCEPT ![name] = NoPeer]
              lost == table[name]
              others == {n \in ServiceName : left[n] # NoPeer /\ left[n].peer = lost.peer}
  <1>1. lost \in OthersFound /\ left \in [ServiceName -> Infos]
    BY Zenon DEF Infos
  <1>2. lost.peer \in LanPeers
    BY Zenon, <1>1 DEF OthersFound, LanPeers
  <1>3. calls \in IF others = {} THEN {<<[peer |-> lost.peer, info |-> NoPeer]>>}
                  ELSE {<<[peer |-> lost.peer, info |-> left[n]]>> : n \in others}
    BY Zenon DEF RemovedOrRemaining
  <1>. HIDE DEF left, lost
  <1>4. CASE others = {}
    <2>. DEFINE c == [peer |-> lost.peer, info |-> NoPeer]
    <2>1. c \in Calls /\ c.peer = lost.peer /\ c.info = NoPeer
      BY Zenon, <1>2 DEF Calls, Infos
    <2>2. calls = <<c>>
      BY Zenon, <1>3, <1>4
    <2>. HIDE DEF c
    <2>3. \A n \in ServiceName : left[n] = NoPeer \/ left[n].peer # lost.peer
      BY Zenon, <1>4
    <2>. QED BY Zenon, <2>1, <2>2, <2>3 DEF Accounted, left, lost
  <1>5. CASE others # {}
    <2>1. PICK n \in others : calls = <<[peer |-> lost.peer, info |-> left[n]]>>
      BY Zenon, <1>3, <1>5
    <2>. DEFINE c == [peer |-> lost.peer, info |-> left[n]]
    <2>2. n \in ServiceName /\ left[n] # NoPeer /\ left[n].peer = lost.peer
      BY Zenon, <2>1
    <2>3. c \in Calls /\ c.peer = lost.peer /\ c.info = left[n]
      BY Zenon, <1>1, <1>2, <2>2 DEF Calls
    <2>. HIDE DEF c
    <2>4. Accounted(c.peer, c.info, left)
      BY Zenon, <2>2, <2>3 DEF Accounted
    <2>. QED BY Zenon, <2>1, <2>3, <2>4 DEF c, left, lost
  <1>. QED BY Zenon, <1>4, <1>5

LEMMA CallsAreTyped ==
    ASSUME NEW name \in ServiceName, services \in [ServiceName -> Infos], NEW info \in Infos,
           NEW calls \in Replaced(name, info)
    PROVE  /\ calls \in Seq(Calls)
           /\ info # NoPeer => Append(calls, [peer |-> info.peer, info |-> info]) \in Seq(Calls)
  <1>1. calls = <<>> \/ \E c \in Calls : calls = <<c>>
    BY Zenon, LossIsAccounted DEF Replaced
  <1>2. calls \in Seq(Calls)
    <2>1. <<>> \in Seq(Calls) /\ \A c \in Calls : <<c>> \in Seq(Calls)
      OBVIOUS
    <2>. QED BY Zenon, <1>1, <2>1
  <1>3. ASSUME info # NoPeer PROVE [peer |-> info.peer, info |-> info] \in Calls
    <2>1. info.peer \in LanPeers
      BY Zenon, <1>3 DEF Infos, OthersFound, LanPeers
    <2>. QED BY Zenon, <2>1 DEF Calls
  <1>. QED BY <1>2, <1>3

\* The table without a name, and the callbacks that brings.
LEMMA NameDropped ==
    ASSUME NEW name \in ServiceName, services \in [ServiceName -> Infos], NEW calls \in Replaced(name, NoPeer),
           NEW kept, CallsFit(<<>>, kept, services)
    PROVE  calls \in Seq(Calls) /\ CallsFit(calls, kept, [services EXCEPT ![name] = NoPeer])
  <1>. DEFINE left == [services EXCEPT ![name] = NoPeer]
  <1>0. \A peer \in LanPeers : Accounted(peer, kept[peer], services)
    BY Zenon, NoCallsFit
  <1>1. CASE services[name] = NoPeer
    <2>1. calls = <<>>
      BY Zenon, <1>1 DEF Replaced
    <2>2. left = services
      BY Zenon, <1>1
    <2>3. <<>> \in Seq(Calls)
      OBVIOUS
    <2>. QED BY Zenon, <2>1, <2>2, <2>3
  <1>2. CASE services[name] # NoPeer
    <2>1. calls \in RemovedOrRemaining(left, services[name])
      BY Zenon, <1>2 DEF Replaced
    <2>2. PICK c \in Calls : calls = <<c>> /\ c.peer = services[name].peer /\ Accounted(c.peer, c.info, left)
      BY Zenon, <1>2, <2>1, LossIsAccounted
    <2>3. \A peer \in LanPeers : peer # c.peer => Accounted(peer, kept[peer], left)
      BY Zenon, <1>0, <2>2, Relisted
    <2>. HIDE DEF left
    <2>4. <<c>> \in Seq(Calls) /\ CallsFit(<<c>>, kept, left)
      BY Zenon, <2>2, <2>3, OneCallFits
    <2>. QED BY Zenon, <2>2, <2>4 DEF left
  <1>. QED BY Zenon, <1>1, <1>2

\* The table with a candidate under a name, and the callbacks that brings.
LEMMA NameListed ==
    ASSUME NEW name \in ServiceName, services \in [ServiceName -> Infos], NEW info \in OthersFound,
           NEW calls \in Replaced(name, info), NEW kept, CallsFit(<<>>, kept, services), info # NoPeer
    PROVE  /\ Append(calls, [peer |-> info.peer, info |-> info]) \in Seq(Calls)
           /\ CallsFit(Append(calls, [peer |-> info.peer, info |-> info]), kept, [services EXCEPT ![name] = info])
  <1>. DEFINE left == [services EXCEPT ![name] = NoPeer]
              new == [services EXCEPT ![name] = info]
              d == [peer |-> info.peer, info |-> info]
  <1>0. \A peer \in LanPeers : Accounted(peer, kept[peer], services)
    BY Zenon, NoCallsFit
  <1>1. info.peer \in LanPeers
    BY Zenon DEF OthersFound, LanPeers
  <1>2. d \in Calls /\ d.peer = info.peer /\ d.info = info
    BY Zenon, <1>1 DEF Calls, Infos
  <1>3. new[name] = info
    BY Zenon
  <1>4. Accounted(d.peer, d.info, new)
    BY Zenon, <1>2, <1>3 DEF Accounted
  <1>5. CASE services[name] = NoPeer \/ services[name].peer = info.peer
    <2>1. calls = <<>>
      BY Zenon, <1>5 DEF Replaced
    <2>2. \A peer \in LanPeers : peer # d.peer => Accounted(peer, kept[peer], new)
      BY Zenon, <1>0, <1>2, <1>5, Relisted
    <2>. HIDE DEF d, new
    <2>3. <<d>> \in Seq(Calls) /\ CallsFit(<<d>>, kept, new)
      BY Zenon, <1>2, <1>4, <2>2, OneCallFits
    <2>4. Append(calls, d) = <<d>>
      BY <2>1
    <2>. QED BY Zenon, <2>3, <2>4 DEF d, new
  <1>6. CASE services[name] # NoPeer /\ services[name].peer # info.peer
    <2>1. calls \in RemovedOrRemaining(left, services[name])
      BY Zenon, <1>6 DEF Replaced
    <2>2. PICK c \in Calls : calls = <<c>> /\ c.peer = services[name].peer /\ Accounted(c.peer, c.info, left)
      BY Zenon, <1>6, <2>1, LossIsAccounted
    <2>3. \A peer \in LanPeers : peer # c.peer /\ peer # d.peer => Accounted(peer, kept[peer], new)
      BY Zenon, <1>0, <1>2, <2>2, Relisted
    <2>4. left \in [ServiceName -> Infos] /\ left[name] = NoPeer /\ new = [left EXCEPT ![name] = info]
      BY Zenon DEF Infos
    <2>. HIDE DEF d, new, left
    <2>5. c.peer # info.peer /\ c.peer # d.peer
      BY Zenon, <1>2, <1>6, <2>2
    <2>6. Accounted(c.peer, c.info, new)
      BY Zenon, <2>2, <2>4, <2>5, Relisted
    <2>7. Append(<<c>>, d) \in Seq(Calls) /\ CallsFit(Append(<<c>>, d), kept, new)
      BY Zenon, <1>2, <1>4, <2>3, <2>5, <2>6, TwoCallsFit
    <2>. QED BY Zenon, <2>2, <2>7 DEF d, new
  <1>. QED BY Zenon, <1>5, <1>6

\* remove_service.
LEMMA BrowserRemovesKeeps ==
    ASSUME MInv, NEW m \in Membership, BrowserRemoves(m)
    PROVE  MInv'
  <1>. DEFINE name == Head(browser[m].queue).name
              b == [browser[m] EXCEPT !.queue = Tail(@)]
  <1>1. /\ browser[m].lookup = NoLookup /\ browser[m].queue # <<>> /\ Head(browser[m].queue).gone
        /\ callbacks = <<>> /\ browser' = [browser EXCEPT ![m] = b]
        /\ UNCHANGED <<announced, lanUp, mdnsActive, zeroconf, memberships, opening, refresher, scope, cleanup, held, missed>>
    BY Zenon DEF BrowserRemoves, CallbackLockFree
  <1>2. IF Listening(m) THEN services' = [services EXCEPT ![name] = NoPeer] /\ callbacks' \in Replaced(name, NoPeer)
        ELSE UNCHANGED <<services, callbacks>>
    BY Zenon DEF BrowserRemoves
  <1>3. MdnsTypes /\ MdnsPhases /\ CandidatesFollow /\ TableFollows
    BY Zenon DEF MInv
  <1>4. browser[m] \in Browsers /\ services \in [ServiceName -> Infos]
    BY Zenon, <1>3 DEF MdnsTypes
  <1>5. browser[m].queue \in Seq(LanReports) /\ browser[m].lookup \in Lookups
    BY Zenon, <1>4 DEF Browsers
  <1>6. Tail(browser[m].queue) \in Seq(LanReports) /\ Head(browser[m].queue) \in LanReports
    BY Zenon, <1>1, <1>5, WithoutHead
  <1>7. name \in ServiceName
    BY Zenon, <1>6 DEF LanReports
  <1>8. b \in Browsers /\ b.queue = Tail(browser[m].queue) /\ b.lookup = NoLookup
    BY Zenon, <1>1, <1>4, <1>6 DEF Browsers
  <1>9. browser[m] # IdleBrowser
    BY <1>1 DEF IdleBrowser
  <1>. HIDE DEF name, b
  <1>10. /\ browser' \in [Membership -> Browsers] /\ browser'[m] = b
         /\ \A n \in Membership : n # m => browser'[n] = browser[n]
         /\ \A n \in Membership : n > opening' => browser'[n] = IdleBrowser
    BY Zenon, <1>1, <1>3, <1>8, <1>9, BrowserStep
  <1>11. m # 0 /\ NoPeer \in Infos
    BY DEF Membership, Infos
  <1>12. services' \in [ServiceName -> Infos] /\ callbacks' \in Seq(Calls)
    <2>1. CASE Listening(m)
      <3>1. services' \in [ServiceName -> Infos]
        BY Zenon, <1>2, <1>4, <1>7, <1>11, <2>1
      <3>. QED BY Zenon, <1>2, <1>4, <1>7, <1>11, <2>1, <3>1, CallsAreTyped
    <2>2. CASE ~Listening(m)
      BY Zenon, <1>2, <1>3, <2>2 DEF MdnsTypes
    <2>. QED BY Zenon, <2>1, <2>2
  <1>13. MdnsTypes'
    BY Zenon, <1>1, <1>3, <1>10, <1>12 DEF MdnsTypes
  <1>14. MdnsPhases'
    <2>1. (mdnsActive /\ zeroconf # 0) \/ UNCHANGED <<services, callbacks>>
      BY Zenon, <1>2, <1>11 DEF Listening
    <2>. QED BY Zenon, <1>1, <1>3, <1>10, <2>1 DEF MdnsPhases
  <1>15. CandidatesFollow'
    <2>1. CASE Listening(m)
      <3>1. Attached => CallsFit(callbacks', held, services')
        BY Zenon, <1>1, <1>2, <1>3, <1>4, <1>7, <2>1, NameDropped DEF CandidatesFollow
      <3>. QED BY Zenon, <1>1, <3>1 DEF CandidatesFollow, Attached
    <2>2. CASE ~Listening(m)
      BY Zenon, <1>1, <1>2, <1>3, <2>2, CandidatesKept DEF Attached
    <2>. QED BY Zenon, <2>1, <2>2
  <1>16. TableFollows'
    <2>. SUFFICES ASSUME zeroconf' # 0, mdnsActive', ~missed'
                  PROVE  ReportsFit(browser'[zeroconf'].queue, browser'[zeroconf'].lookup, services', announced')
      BY Zenon DEF TableFollows
    <2>1. ReportsFit(browser[zeroconf].queue, browser[zeroconf].lookup, services, announced)
      BY Zenon, <1>1, <1>3 DEF TableFollows
    <2>2. CASE zeroconf = m
      <3>1. services' = [services EXCEPT ![name] = NoPeer]
        BY Zenon, <1>1, <1>2, <2>2 DEF Listening
      <3>2. ReportsFit(Tail(browser[m].queue), NoLookup, [services EXCEPT ![name] = NoPeer], announced)
        BY Zenon, <1>1, <1>4, <1>5, <2>1, <2>2, ReportRemoved DEF name
      <3>. QED BY Zenon, <1>1, <1>8, <1>10, <2>2, <3>1, <3>2
    <2>3. CASE zeroconf # m
      <3>1. UNCHANGED services /\ zeroconf \in Membership
        BY Zenon, <1>1, <1>2, <1>3, <2>3, CurrentIsOpen DEF Listening
      <3>. QED BY Zenon, <1>1, <1>10, <2>1, <2>3, <3>1
    <2>. QED BY Zenon, <2>2, <2>3
  <1>. QED BY Zenon, <1>13, <1>14, <1>15, <1>16 DEF MInv

\* get_service_info: a look at the network that nothing else waits for.
LEMMA BrowserLooksUpKeeps ==
    ASSUME MInv, NEW m \in Membership, BrowserLooksUp(m)
    PROVE  MInv'
  <1>. DEFINE name == Head(browser[m].queue).name
              b(lookup) == [queue |-> Tail(browser[m].queue), lookup |-> lookup]
  <1>1. /\ browser[m].lookup = NoLookup /\ browser[m].queue # <<>> /\ ~Head(browser[m].queue).gone
        /\ UNCHANGED <<announced, lanUp, mdnsActive, zeroconf, memberships, opening, services, callbacks,
                       refresher, scope, cleanup, held>>
    BY Zenon DEF BrowserLooksUp
  <1>2. MdnsTypes /\ MdnsPhases /\ CandidatesFollow /\ TableFollows
    BY Zenon DEF MInv
  <1>3. browser[m] \in Browsers /\ announced \in [ServiceName -> PeerInfos \cup {NoPeer}]
        /\ browser \in [Membership -> Browsers]
    BY Zenon, <1>2 DEF MdnsTypes
  <1>4. browser[m].queue \in Seq(LanReports)
    BY Zenon, <1>3 DEF Browsers
  <1>5. Tail(browser[m].queue) \in Seq(LanReports) /\ Head(browser[m].queue) \in LanReports
    BY Zenon, <1>1, <1>4, WithoutHead
  <1>6. name \in ServiceName
    BY Zenon, <1>5 DEF LanReports
  <1>. DEFINE found == [name |-> name, info |-> PeerInfoOf(announced[name])]
              nothing == [name |-> name, info |-> NoPeer]
  <1>7. PICK lookup \in {NoLookup, found, nothing} :
            /\ browser' = [browser EXCEPT ![m] = b(lookup)]
            /\ \/ missed' = TRUE
               \/ missed' = missed /\ (Listening(m) => lookup = found)
    <2>1. \A lookup : [browser EXCEPT ![m] = [queue |-> Tail(@.queue), lookup |-> lookup]] = [browser EXCEPT ![m] = b(lookup)]
      BY Zenon, <1>3
    <2>. QED BY Zenon, <2>1 DEF BrowserLooksUp
  <1>8. lookup \in Lookups
    <2>1. PeerInfoOf(announced[name]) \in Infos /\ NoPeer \in Infos
      BY Zenon, <1>3, <1>6, CandidateTypes DEF Infos
    <2>2. found \in Lookups /\ nothing \in Lookups /\ NoLookup \in Lookups
      BY Zenon, <1>6, <2>1 DEF Lookups
    <2>. HIDE DEF found, nothing
    <2>. QED BY Zenon, <1>7, <2>2
  <1>9. b(lookup) \in Browsers /\ b(lookup).queue = Tail(browser[m].queue) /\ b(lookup).lookup = lookup
    BY Zenon, <1>5, <1>8 DEF Browsers
  <1>10. browser[m] # IdleBrowser
    BY <1>1 DEF IdleBrowser
  <1>. HIDE DEF b
  <1>11. /\ browser' \in [Membership -> Browsers] /\ browser'[m] = b(lookup)
         /\ \A n \in Membership : n # m => browser'[n] = browser[n]
         /\ \A n \in Membership : n > opening' => browser'[n] = IdleBrowser
    BY Zenon, <1>1, <1>2, <1>7, <1>9, <1>10, BrowserStep
  <1>12. MdnsTypes'
    BY Zenon, <1>1, <1>2, <1>11 DEF MdnsTypes
  <1>13. MdnsPhases'
    BY Zenon, <1>1, <1>2, <1>11 DEF MdnsPhases
  <1>14. CandidatesFollow'
    BY Zenon, <1>1, <1>2, CandidatesKept DEF Attached
  <1>15. TableFollows'
    <2>. SUFFICES ASSUME zeroconf' # 0, mdnsActive', ~missed'
                  PROVE  ReportsFit(browser'[zeroconf'].queue, browser'[zeroconf'].lookup, services', announced')
      BY Zenon DEF TableFollows
    <2>1. /\ ReportsFit(browser[zeroconf].queue, browser[zeroconf].lookup, services, announced)
          /\ Listening(m) => lookup = found
      BY Zenon, <1>1, <1>2, <1>7 DEF TableFollows
    <2>2. CASE zeroconf = m
      <3>1. lookup = found
        BY Zenon, <1>1, <2>1, <2>2 DEF Listening
      <3>2. ReportsFit(Tail(browser[m].queue), found, services, announced)
        BY Zenon, <1>1, <1>4, <2>1, <2>2, ReportLookedUp
      <3>. HIDE DEF found
      <3>. QED BY Zenon, <1>1, <1>9, <1>11, <2>2, <3>1, <3>2
    <2>3. CASE zeroconf # m
      <3>1. zeroconf \in Membership
        BY Zenon, <1>1, <1>2, CurrentIsOpen
      <3>. QED BY Zenon, <1>1, <1>11, <2>1, <2>3, <3>1
    <2>. QED BY Zenon, <2>2, <2>3
  <1>. QED BY Zenon, <1>12, <1>13, <1>14, <1>15 DEF MInv

\* The rest of _update_service.
LEMMA BrowserAppliesKeeps ==
    ASSUME MInv, NEW m \in Membership, BrowserApplies(m)
    PROVE  MInv'
  <1>. DEFINE name == browser[m].lookup.name
              info == browser[m].lookup.info
              b == [browser[m] EXCEPT !.lookup = NoLookup]
  <1>1. /\ browser[m].lookup # NoLookup /\ callbacks = <<>> /\ browser' = [browser EXCEPT ![m] = b]
        /\ UNCHANGED <<announced, lanUp, mdnsActive, zeroconf, memberships, opening, refresher, scope, cleanup, held, missed>>
    BY Zenon DEF BrowserApplies, CallbackLockFree
  <1>2. IF Listening(m)
        THEN /\ services' = [services EXCEPT ![name] = info]
             /\ \E calls \in Replaced(name, info) :
                    callbacks' = IF info = NoPeer THEN calls ELSE Append(calls, [peer |-> info.peer, info |-> info])
        ELSE UNCHANGED <<services, callbacks>>
    BY Zenon DEF BrowserApplies, StillListening
  <1>3. MdnsTypes /\ MdnsPhases /\ CandidatesFollow /\ TableFollows
    BY Zenon DEF MInv
  <1>4. browser[m] \in Browsers /\ services \in [ServiceName -> Infos]
    BY Zenon, <1>3 DEF MdnsTypes
  <1>5. browser[m].queue \in Seq(LanReports) /\ browser[m].lookup \in [name : ServiceName, info : Infos]
    BY Zenon, <1>1, <1>4 DEF Browsers, Lookups
  <1>6. name \in ServiceName /\ info \in Infos
    BY Zenon, <1>5
  <1>7. b \in Browsers /\ b.queue = browser[m].queue /\ b.lookup = NoLookup
    BY Zenon, <1>4, <1>5 DEF Browsers, Lookups
  <1>8. browser[m] # IdleBrowser
    BY <1>1 DEF IdleBrowser
  <1>. HIDE DEF name, info, b
  <1>9. /\ browser' \in [Membership -> Browsers] /\ browser'[m] = b
        /\ \A n \in Membership : n # m => browser'[n] = browser[n]
        /\ \A n \in Membership : n > opening' => browser'[n] = IdleBrowser
    BY Zenon, <1>1, <1>3, <1>7, <1>8, BrowserStep
  <1>10. m # 0
    BY DEF Membership
  <1>11. services' \in [ServiceName -> Infos] /\ callbacks' \in Seq(Calls)
    <2>1. CASE Listening(m)
      <3>1. services' \in [ServiceName -> Infos]
        BY Zenon, <1>2, <1>4, <1>6, <2>1
      <3>. QED BY Zenon, <1>2, <1>4, <1>6, <2>1, <3>1, CallsAreTyped
    <2>2. CASE ~Listening(m)
      BY Zenon, <1>2, <1>3, <2>2 DEF MdnsTypes
    <2>. QED BY Zenon, <2>1, <2>2
  <1>12. MdnsTypes'
    BY Zenon, <1>1, <1>3, <1>9, <1>11 DEF MdnsTypes
  <1>13. MdnsPhases'
    <2>1. (mdnsActive /\ zeroconf # 0) \/ UNCHANGED <<services, callbacks>>
      BY Zenon, <1>2, <1>10 DEF Listening
    <2>. QED BY Zenon, <1>1, <1>3, <1>9, <2>1 DEF MdnsPhases
  <1>14. CandidatesFollow'
    <2>1. CASE Listening(m)
      <3>1. PICK calls \in Replaced(name, info) :
                callbacks' = IF info = NoPeer THEN calls ELSE Append(calls, [peer |-> info.peer, info |-> info])
        BY Zenon, <1>2, <2>1
      <3>2. services' = [services EXCEPT ![name] = info]
        BY Zenon, <1>2, <2>1
      <3>3. ASSUME Attached PROVE CallsFit(callbacks', held, services')
        <4>1. CallsFit(<<>>, held, services)
          BY Zenon, <1>1, <1>3, <3>3 DEF CandidatesFollow
        <4>2. CASE info = NoPeer
          BY Zenon, <1>4, <1>6, <3>1, <3>2, <4>1, <4>2, NameDropped
        <4>3. CASE info # NoPeer
          <5>1. info \in OthersFound
            BY Zenon, <1>6, <4>3 DEF Infos
          <5>. QED BY Zenon, <1>4, <1>6, <3>1, <3>2, <4>1, <4>3, <5>1, NameListed
        <4>. QED BY Zenon, <4>2, <4>3
      <3>. QED BY Zenon, <1>1, <3>3 DEF CandidatesFollow, Attached
    <2>2. CASE ~Listening(m)
      BY Zenon, <1>1, <1>2, <1>3, <2>2, CandidatesKept DEF Attached
    <2>. QED BY Zenon, <2>1, <2>2
  <1>15. TableFollows'
    <2>. SUFFICES ASSUME zeroconf' # 0, mdnsActive', ~missed'
                  PROVE  ReportsFit(browser'[zeroconf'].queue, browser'[zeroconf'].lookup, services', announced')
      BY Zenon DEF TableFollows
    <2>1. ReportsFit(browser[zeroconf].queue, browser[zeroconf].lookup, services, announced)
      BY Zenon, <1>1, <1>3 DEF TableFollows
    <2>2. CASE zeroconf = m
      <3>1. services' = [services EXCEPT ![name] = info]
        BY Zenon, <1>1, <1>2, <2>2 DEF Listening
      <3>2. ReportsFit(browser[m].queue, NoLookup, [services EXCEPT ![name] = info], announced)
        BY Zenon, <1>4, <1>6, <2>1, <2>2, LookupApplied DEF name, info
      <3>. QED BY Zenon, <1>1, <1>7, <1>9, <2>2, <3>1, <3>2
    <2>3. CASE zeroconf # m
      <3>1. UNCHANGED services /\ zeroconf \in Membership
        BY Zenon, <1>1, <1>2, <1>3, <2>3, CurrentIsOpen DEF Listening
      <3>. QED BY Zenon, <1>1, <1>9, <2>1, <2>3, <3>1
    <2>. QED BY Zenon, <2>2, <2>3
  <1>. QED BY Zenon, <1>12, <1>13, <1>14, <1>15 DEF MInv

---------------------------------------------------------------------------
(* The transport's callbacks.                                               *)

LEMMA CallbackKeeps ==
    ASSUME MInv, Callback
    PROVE  MInv'
  <1>1. /\ callbacks # <<>> /\ callbacks' = Tail(callbacks)
        /\ \/ held' = [held EXCEPT ![Head(callbacks).peer] = Head(callbacks).info]
           \/ ~Attached /\ UNCHANGED held
        /\ UNCHANGED <<announced, lanUp, mdnsActive, zeroconf, memberships, opening, services, browser,
                       refresher, scope, cleanup, missed>>
    BY Zenon DEF Callback
  <1>2. MdnsTypes /\ MdnsPhases /\ CandidatesFollow /\ TableFollows
    BY Zenon DEF MInv
  <1>3. callbacks \in Seq(Calls) /\ held \in [LanPeers -> Infos]
    BY Zenon, <1>2 DEF MdnsTypes
  <1>4. callbacks' \in Seq(Calls) /\ Head(callbacks) \in Calls
    BY Zenon, <1>1, <1>3, WithoutHead
  <1>5. held' \in [LanPeers -> Infos]
    <2>1. Head(callbacks).peer \in LanPeers /\ Head(callbacks).info \in Infos
      BY Zenon, <1>4 DEF Calls
    <2>. QED BY Zenon, <1>1, <1>3, <2>1
  <1>6. MdnsTypes'
    BY Zenon, <1>1, <1>2, <1>4, <1>5 DEF MdnsTypes
  <1>7. mdnsActive /\ scope \notin {"new", "cleared"}
    BY Zenon, <1>1, <1>2 DEF MdnsPhases
  <1>8. MdnsPhases'
    BY Zenon, <1>1, <1>2, <1>7 DEF MdnsPhases
  <1>9. CandidatesFollow'
    <2>1. ASSUME Attached PROVE CallsFit(callbacks', held', services')
      <3>1. CallsFit(callbacks, held, services)
        BY Zenon, <1>2, <2>1 DEF CandidatesFollow
      <3>2. CallsFit(Tail(callbacks), [held EXCEPT ![Head(callbacks).peer] = Head(callbacks).info], services)
        BY Zenon, <1>1, <1>3, <3>1, CallMade
      <3>. QED BY Zenon, <1>1, <2>1, <3>2
    <2>. QED BY Zenon, <1>1, <2>1 DEF CandidatesFollow, Attached
  <1>10. TableFollows'
    BY Zenon, <1>1, <1>2 DEF TableFollows
  <1>. QED BY Zenon, <1>6, <1>8, <1>9, <1>10 DEF MInv

---------------------------------------------------------------------------
(* The refresh thread.                                                      *)

\* A step that only moves the refresh thread on, and perhaps closes a membership.
LEMMA RefresherStep ==
    ASSUME MInv, refresher' \in [pc : RefreshPcs, seen : BOOLEAN, old : Nat],
           memberships' \subseteq memberships, zeroconf' = 0 \/ (zeroconf' = zeroconf /\ zeroconf \in memberships'),
           UNCHANGED <<announced, lanUp, mdnsActive, opening, services, browser, callbacks, scope, cleanup, held, missed>>,
           scope \notin {"new", "opening"},
           refresher'.pc \in {"remove", "close", "open"} => zeroconf' = 0,
           zeroconf' = 0 /\ refresher'.pc # "remove" => services = NothingAnnounced
    PROVE  MInv'
  <1>1. MdnsTypes'
    <2>1. memberships' \subseteq 1..opening'
      BY Zenon DEF MInv, MdnsTypes
    <2>. QED BY Zenon, <2>1 DEF MInv, MdnsTypes
  <1>2. MdnsPhases'
    BY Zenon DEF MInv, MdnsPhases
  <1>3. CandidatesFollow'
    BY Zenon, CandidatesKept DEF MInv, Attached
  <1>4. TableFollows'
    BY Zenon DEF MInv, TableFollows
  <1>. QED BY Zenon, <1>1, <1>2, <1>3, <1>4 DEF MInv

LEMMA RefreshReadsKeeps ==
    ASSUME MInv, RefreshReads
    PROVE  MInv'
  <1>1. /\ refresher.pc = "wait" /\ zeroconf' = zeroconf /\ memberships' = memberships
        /\ UNCHANGED <<announced, lanUp, mdnsActive, opening, services, browser, callbacks, scope, cleanup, held, missed>>
    BY Zenon DEF RefreshReads
  <1>2. refresher \in [pc : RefreshPcs, seen : BOOLEAN, old : Nat] /\ lanUp \in BOOLEAN /\ zeroconf \in memberships \cup {0}
    BY Zenon DEF MInv, MdnsTypes
  <1>3. refresher' \in [pc : RefreshPcs, seen : BOOLEAN, old : Nat] /\ refresher'.pc \in {"gone", "read"}
    BY Zenon, <1>2 DEF RefreshReads, RefreshPcs
  <1>4. /\ scope \notin {"new", "opening"}
        /\ zeroconf = 0 => services = NothingAnnounced
    BY Zenon, <1>1 DEF MInv, MdnsPhases
  <1>5. refresher'.pc \notin {"remove", "close", "open"}
    BY Zenon, <1>3
  <1>. QED BY Zenon, <1>1, <1>2, <1>3, <1>4, <1>5, RefresherStep

LEMMA RefreshDetachesKeeps ==
    ASSUME MInv, RefreshDetaches
    PROVE  MInv'
  <1>1. /\ refresher.pc = "read" /\ memberships' = memberships
        /\ UNCHANGED <<announced, lanUp, mdnsActive, opening, services, browser, callbacks, scope, cleanup, held, missed>>
    BY Zenon DEF RefreshDetaches
  <1>2. /\ refresher \in [pc : RefreshPcs, seen : BOOLEAN, old : Nat] /\ zeroconf \in memberships \cup {0}
        /\ memberships \subseteq 1..opening /\ opening \in Nat
    BY DEF MInv, MdnsTypes
  <1>3. zeroconf \in Nat
    BY <1>2
  <1>4. /\ scope \notin {"new", "opening"}
        /\ zeroconf = 0 => services = NothingAnnounced
    BY Zenon, <1>1 DEF MInv, MdnsPhases
  <1>5. CASE zeroconf' = zeroconf /\ \E pc \in {"gone", "wait"} : refresher' = [refresher EXCEPT !.pc = pc]
    <2>1. /\ refresher' \in [pc : RefreshPcs, seen : BOOLEAN, old : Nat]
          /\ refresher'.pc \notin {"remove", "close", "open"}
      BY Zenon, <1>2, <1>5 DEF RefreshPcs
    <2>. QED BY Zenon, <1>1, <1>2, <1>4, <1>5, <2>1, RefresherStep
  <1>6. CASE zeroconf' = 0 /\ refresher' = [[refresher EXCEPT !.pc = "remove"] EXCEPT !.old = zeroconf]
    <2>1. refresher' \in [pc : RefreshPcs, seen : BOOLEAN, old : Nat] /\ refresher'.pc = "remove"
      BY Zenon, <1>2, <1>3, <1>6 DEF RefreshPcs
    <2>. QED BY Zenon, <1>1, <1>4, <1>6, <2>1, RefresherStep
  <1>. QED BY Zenon, <1>5, <1>6 DEF RefreshDetaches

LEMMA RefreshClosesKeeps ==
    ASSUME MInv, RefreshCloses
    PROVE  MInv'
  <1>1. /\ refresher.pc = "close" /\ zeroconf' = zeroconf /\ memberships' \subseteq memberships
        /\ UNCHANGED <<announced, lanUp, mdnsActive, opening, services, browser, callbacks, scope, cleanup, held, missed>>
    BY Zenon DEF RefreshCloses
  <1>2. refresher \in [pc : RefreshPcs, seen : BOOLEAN, old : Nat]
    BY Zenon DEF MInv, MdnsTypes
  <1>3. /\ refresher' \in [pc : RefreshPcs, seen : BOOLEAN, old : Nat]
        /\ refresher'.pc \in {"open", "wait"}
    BY Zenon, <1>2 DEF RefreshCloses, RefreshPcs
  <1>4. zeroconf = 0 /\ services = NothingAnnounced /\ scope \notin {"new", "opening"}
    BY Zenon, <1>1 DEF MInv, MdnsPhases
  <1>. QED BY Zenon, <1>1, <1>3, <1>4, RefresherStep

\* _remove_all_candidates: a call for every peer that a name accounted for.
LEMMA AllRemoved ==
    ASSUME NEW table \in [ServiceName -> Infos], NEW kept, CallsFit(<<>>, kept, table),
           NEW calls \in Orderings({[peer |-> table[name].peer, info |-> NoPeer] :
                                       name \in {n \in ServiceName : table[n] # NoPeer}})
    PROVE  CallsFit(calls, kept, NothingAnnounced)
  <1>. DEFINE S == {[peer |-> table[name].peer, info |-> NoPeer] : name \in {n \in ServiceName : table[n] # NoPeer}}
  <1>1. /\ \A i \in DOMAIN calls : calls[i] \in S
        /\ \A x \in S : \E i \in DOMAIN calls : calls[i] = x
    <2>1. calls \in Orderings(S)
      BY Zenon
    <2>. HIDE DEF S
    <2>. QED BY Zenon, <2>1, Ordered
  <1>2. \A x \in S : x.info = NoPeer
    <2>. SUFFICES ASSUME NEW x \in S PROVE x.info = NoPeer
      BY Zenon
    <2>1. PICK name \in ServiceName : x = [peer |-> table[name].peer, info |-> NoPeer]
      BY Zenon
    <2>. QED BY Zenon, <2>1
  <1>3. \A n \in ServiceName : table[n] # NoPeer => \E x \in S : x.peer = table[n].peer
    <2>. SUFFICES ASSUME NEW n \in ServiceName, table[n] # NoPeer PROVE \E x \in S : x.peer = table[n].peer
      BY Zenon
    <2>. DEFINE x == [peer |-> table[n].peer, info |-> NoPeer]
    <2>1. x \in S /\ x.peer = table[n].peer
      BY Zenon
    <2>. QED BY Zenon, <2>1
  <1>. HIDE DEF S
  <1>4. \A peer : Accounted(peer, NoPeer, NothingAnnounced)
    BY Zenon DEF Accounted, NothingAnnounced
  <1>5. ASSUME NEW peer \in LanPeers, \A i \in DOMAIN calls : calls[i].peer # peer
        PROVE  Accounted(peer, kept[peer], NothingAnnounced)
    <2>1. \A n \in ServiceName : table[n] = NoPeer \/ table[n].peer # peer
      BY Zenon, <1>1, <1>3, <1>5
    <2>2. Accounted(peer, kept[peer], table)
      BY Zenon, NoCallsFit
    <2>3. kept[peer] = NoPeer
      BY Zenon, <2>1, <2>2 DEF Accounted
    <2>. QED BY Zenon, <1>4, <2>3
  <1>6. \A i \in DOMAIN calls : calls[i].info = NoPeer
    BY Zenon, <1>1, <1>2
  <1>. QED BY Zenon, <1>4, <1>5, <1>6 DEF CallsFit

LEMMA RefreshRemovesAllKeeps ==
    ASSUME MInv, RefreshRemovesAll
    PROVE  MInv'
  <1>. DEFINE gone == {[peer |-> services[name].peer, info |-> NoPeer] : name \in {n \in ServiceName : services[n] # NoPeer}}
  <1>1. /\ refresher.pc = "remove" /\ callbacks = <<>> /\ services' = NothingAnnounced
        /\ IF mdnsActive THEN callbacks' \in Orderings(gone) ELSE callbacks' = <<>>
        /\ refresher' = [refresher EXCEPT !.pc = "close"]
        /\ UNCHANGED <<announced, lanUp, mdnsActive, zeroconf, memberships, opening, browser, scope, cleanup, held, missed>>
    BY Zenon DEF RefreshRemovesAll, CallbackLockFree
  <1>2. MdnsTypes /\ MdnsPhases /\ CandidatesFollow /\ TableFollows
    BY Zenon DEF MInv
  <1>3. services \in [ServiceName -> Infos] /\ refresher \in [pc : RefreshPcs, seen : BOOLEAN, old : Nat]
    BY Zenon, <1>2 DEF MdnsTypes
  <1>4. services' \in [ServiceName -> Infos]
    BY Zenon, <1>1 DEF NothingAnnounced, Infos
  <1>5. refresher' \in [pc : RefreshPcs, seen : BOOLEAN, old : Nat] /\ refresher'.pc = "close"
    BY Zenon, <1>1, <1>3 DEF RefreshPcs
  <1>6. callbacks' \in Seq(Calls)
    <2>1. <<>> \in Seq(Calls)
      OBVIOUS
    <2>2. gone \subseteq Calls
      <3>1. ASSUME NEW n \in ServiceName, services[n] # NoPeer PROVE [peer |-> services[n].peer, info |-> NoPeer] \in Calls
        <4>1. services[n] \in OthersFound
          BY Zenon, <1>3, <3>1 DEF Infos
        <4>2. services[n].peer \in LanPeers
          BY Zenon, <4>1 DEF OthersFound, LanPeers
        <4>. QED BY Zenon, <4>2 DEF Calls, Infos
      <3>. QED BY Zenon, <3>1
    <2>. HIDE DEF gone
    <2>3. callbacks' \in Orderings(gone) => callbacks' \in Seq(gone)
      BY Zenon, Ordered
    <2>4. callbacks' \in Seq(gone) => callbacks' \in Seq(Calls)
      BY <2>2
    <2>. QED BY Zenon, <1>1, <2>1, <2>3, <2>4
  <1>7. MdnsTypes'
    BY Zenon, <1>1, <1>2, <1>4, <1>5, <1>6 DEF MdnsTypes
  <1>8. zeroconf = 0 /\ scope \notin {"new", "opening"}
    BY Zenon, <1>1, <1>2 DEF MdnsPhases
  <1>9. MdnsPhases'
    BY Zenon, <1>1, <1>2, <1>5, <1>8 DEF MdnsPhases
  <1>10. CandidatesFollow'
    <2>1. ASSUME Attached PROVE CallsFit(callbacks', held, services')
      <3>1. mdnsActive
        BY Zenon, <1>2, <2>1 DEF MdnsPhases, Attached
      <3>2. CallsFit(<<>>, held, services)
        BY Zenon, <1>1, <1>2, <2>1 DEF CandidatesFollow
      <3>. QED BY Zenon, <1>1, <1>3, <3>1, <3>2, AllRemoved
    <2>. QED BY Zenon, <1>1, <2>1 DEF CandidatesFollow, Attached
  <1>11. TableFollows'
    BY Zenon, <1>1, <1>8 DEF TableFollows
  <1>. QED BY Zenon, <1>7, <1>9, <1>10, <1>11 DEF MInv

LEMMA RefreshOpensKeeps ==
    ASSUME MInv, RefreshOpens
    PROVE  MInv'
  <1>1. /\ refresher.pc = "open" /\ refresher' = [refresher EXCEPT !.pc = "wait"]
        /\ UNCHANGED <<announced, lanUp, mdnsActive, services, callbacks, scope, cleanup, held, missed>>
    BY Zenon DEF RefreshOpens
  <1>2. MdnsTypes /\ MdnsPhases /\ CandidatesFollow /\ TableFollows
    BY Zenon DEF MInv
  <1>3. refresher' \in [pc : RefreshPcs, seen : BOOLEAN, old : Nat] /\ refresher'.pc = "wait"
    BY Zenon, <1>1, <1>2 DEF MdnsTypes, RefreshPcs
  <1>4. zeroconf = 0 /\ services = NothingAnnounced /\ scope \notin {"new", "opening"}
    BY Zenon, <1>1, <1>2 DEF MdnsPhases
  <1>5. CASE OpensMembership
    <2>1. /\ opening' \in 0..MaxMemberships /\ memberships' \subseteq 1..opening' /\ zeroconf' \in memberships'
          /\ browser' \in [Membership -> Browsers]
          /\ \A m \in Membership : m > opening' => browser'[m] = IdleBrowser
          /\ TableFollows'
      BY Zenon, <1>1, <1>2, <1>4, <1>5, MembershipOpens
    <2>2. MdnsTypes'
      BY Zenon, <1>1, <1>2, <1>3, <2>1 DEF MdnsTypes
    <2>3. MdnsPhases'
      BY Zenon, <1>1, <1>2, <1>3, <1>4, <2>1 DEF MdnsPhases
    <2>4. CandidatesFollow'
      BY Zenon, <1>1, <1>2, CandidatesKept DEF Attached
    <2>. QED BY Zenon, <2>1, <2>2, <2>3, <2>4 DEF MInv
  <1>6. CASE OpenFails
    <2>1. zeroconf' = 0 /\ UNCHANGED <<opening, memberships, browser>>
      BY Zenon, <1>6 DEF OpenFails
    <2>2. refresher'.pc \notin {"remove", "close", "open"}
      BY Zenon, <1>3
    <2>. QED BY Zenon, <1>1, <1>3, <1>4, <2>1, <2>2, RefresherStep
  <1>. QED BY Zenon, <1>5, <1>6 DEF RefreshOpens

---------------------------------------------------------------------------
(* The scope: started, retired, stopped and cleaned up after.               *)

LEMMA StartMdnsKeeps ==
    ASSUME MInv, StartMdns
    PROVE  MInv'
  <1>1. /\ scope = "new" /\ mdnsActive' = TRUE
        /\ IF lanUp THEN scope' = "opening" /\ UNCHANGED refresher
           ELSE scope' = "serving" /\ refresher' = [refresher EXCEPT !.pc = "wait"]
        /\ UNCHANGED <<announced, lanUp, zeroconf, memberships, opening, services, browser, callbacks, cleanup, held, missed>>
    BY Zenon DEF StartMdns
  <1>2. MdnsTypes /\ MdnsPhases
    BY Zenon DEF MInv
  <1>3. /\ zeroconf = 0 /\ refresher.pc = "off" /\ held = NothingHeld /\ ~mdnsActive /\ cleanup = "none"
        /\ services = NothingAnnounced /\ callbacks = <<>>
    BY Zenon, <1>1, <1>2 DEF MdnsPhases, MdnsTypes
  <1>4. /\ refresher' \in [pc : RefreshPcs, seen : BOOLEAN, old : Nat]
        /\ scope' \in {"opening", "serving"} /\ refresher'.pc \in {"off", "wait"}
        /\ scope' = "opening" => refresher'.pc = "off"
    <2>1. refresher \in [pc : RefreshPcs, seen : BOOLEAN, old : Nat]
      BY Zenon, <1>2 DEF MdnsTypes
    <2>. QED BY Zenon, <1>1, <1>3, <2>1 DEF RefreshPcs
  <1>5. MdnsTypes'
    BY Zenon, <1>1, <1>2, <1>4 DEF MdnsTypes, Scopes
  <1>6. MdnsPhases'
    BY Zenon, <1>1, <1>2, <1>3, <1>4 DEF MdnsPhases
  <1>7. CandidatesFollow'
    <2>1. \A peer \in LanPeers : Accounted(peer, held[peer], services)
      BY Zenon, <1>3 DEF Accounted, NothingHeld, NothingAnnounced
    <2>2. CallsFit(<<>>, held, services)
      BY Zenon, <2>1, NoCallsFit
    <2>. QED BY Zenon, <1>1, <1>3, <2>2 DEF CandidatesFollow
  <1>8. TableFollows'
    BY Zenon, <1>1, <1>3 DEF TableFollows
  <1>. QED BY Zenon, <1>5, <1>6, <1>7, <1>8 DEF MInv

LEMMA StartOpensKeeps ==
    ASSUME MInv, StartOpens
    PROVE  MInv'
  <1>1. /\ scope = "opening"
        /\ UNCHANGED <<announced, lanUp, mdnsActive, services, callbacks, cleanup, held, missed>>
    BY Zenon DEF StartOpens
  <1>2. MdnsTypes /\ MdnsPhases /\ CandidatesFollow /\ TableFollows
    BY Zenon DEF MInv
  <1>3. zeroconf = 0 /\ refresher.pc = "off" /\ services = NothingAnnounced /\ mdnsActive /\ cleanup = "none"
    BY Zenon, <1>1, <1>2 DEF MdnsPhases, MdnsTypes
  <1>4. refresher \in [pc : RefreshPcs, seen : BOOLEAN, old : Nat]
    BY Zenon, <1>2 DEF MdnsTypes
  <1>5. CASE OpensMembership /\ scope' = "serving" /\ refresher' = [refresher EXCEPT !.pc = "wait"]
    <2>1. /\ opening' \in 0..MaxMemberships /\ memberships' \subseteq 1..opening' /\ zeroconf' \in memberships'
          /\ browser' \in [Membership -> Browsers]
          /\ \A m \in Membership : m > opening' => browser'[m] = IdleBrowser
          /\ TableFollows'
      BY Zenon, <1>1, <1>2, <1>3, <1>5, MembershipOpens
    <2>2. refresher' \in [pc : RefreshPcs, seen : BOOLEAN, old : Nat] /\ refresher'.pc = "wait"
      BY Zenon, <1>4, <1>5 DEF RefreshPcs
    <2>3. MdnsTypes'
      BY Zenon, <1>1, <1>2, <1>5, <2>1, <2>2 DEF MdnsTypes, Scopes
    <2>4. MdnsPhases'
      BY Zenon, <1>1, <1>2, <1>3, <1>5, <2>1, <2>2 DEF MdnsPhases
    <2>5. CandidatesFollow'
      BY Zenon, <1>1, <1>2 DEF CandidatesFollow, Attached
    <2>. QED BY Zenon, <2>1, <2>3, <2>4, <2>5 DEF MInv
  <1>6. CASE OpenFails /\ scope' = "detached" /\ UNCHANGED refresher
    <2>1. zeroconf' = 0 /\ UNCHANGED <<opening, memberships, browser>>
      BY Zenon, <1>6 DEF OpenFails
    <2>2. MdnsTypes'
      BY Zenon, <1>1, <1>2, <1>6, <2>1 DEF MdnsTypes, Scopes
    <2>3. MdnsPhases'
      BY Zenon, <1>1, <1>2, <1>3, <1>6, <2>1 DEF MdnsPhases
    <2>4. CandidatesFollow' /\ TableFollows'
      BY Zenon, <1>6, <2>1 DEF CandidatesFollow, TableFollows, Attached
    <2>. QED BY Zenon, <2>2, <2>3, <2>4 DEF MInv
  <1>. QED BY Zenon, <1>5, <1>6 DEF StartOpens

LEMMA RetireScopeKeeps ==
    ASSUME MInv, RetireScope
    PROVE  MInv'
  <1>1. MdnsTypes'
    BY Zenon DEF MInv, MdnsTypes, RetireScope, Scopes
  <1>2. MdnsPhases'
    BY Zenon DEF MInv, MdnsPhases, RetireScope
  <1>3. CandidatesFollow'
    BY Zenon DEF CandidatesFollow, RetireScope, Attached
  <1>4. TableFollows'
    BY Zenon DEF MInv, TableFollows, RetireScope
  <1>. QED BY Zenon, <1>1, <1>2, <1>3, <1>4 DEF MInv

\* stop() waits for the callbacks under way.
LEMMA StopListeningKeeps ==
    ASSUME MInv, StopListening
    PROVE  MInv'
  <1>1. MdnsTypes'
    <2>1. NothingAnnounced \in [ServiceName -> Infos]
      BY Zenon DEF NothingAnnounced, Infos
    <2>. QED BY Zenon, <2>1 DEF MInv, MdnsTypes, StopListening, Scopes
  <1>2. MdnsPhases'
    BY Zenon DEF MInv, MdnsPhases, StopListening, CallbackLockFree
  <1>3. CandidatesFollow' /\ TableFollows'
    BY Zenon DEF CandidatesFollow, TableFollows, StopListening, Attached
  <1>. QED BY Zenon, <1>1, <1>2, <1>3 DEF MInv

LEMMA CleanupClosesKeeps ==
    ASSUME MInv, CleanupCloses
    PROVE  MInv'
  <1>1. /\ zeroconf' = 0 /\ memberships' \subseteq memberships /\ cleanup = "waiting" /\ cleanup' = "done"
        /\ UNCHANGED <<announced, lanUp, mdnsActive, opening, services, browser, callbacks, refresher, scope, held, missed>>
    BY Zenon DEF CleanupCloses
  <1>2. MdnsTypes'
    <2>1. memberships' \subseteq 1..opening'
      BY Zenon, <1>1 DEF MInv, MdnsTypes
    <2>. QED BY Zenon, <1>1, <2>1 DEF MInv, MdnsTypes
  <1>3. ~mdnsActive /\ services = NothingAnnounced
    BY Zenon, <1>1 DEF MInv, MdnsPhases
  <1>4. MdnsPhases'
    BY Zenon, <1>1, <1>3 DEF MInv, MdnsPhases
  <1>5. CandidatesFollow'
    BY Zenon, <1>1, CandidatesKept DEF MInv, Attached
  <1>6. TableFollows'
    BY Zenon, <1>1 DEF TableFollows
  <1>. QED BY Zenon, <1>2, <1>4, <1>5, <1>6 DEF MInv

LEMMA RetireClearsKeeps ==
    ASSUME MInv, RetireClears
    PROVE  MInv'
  <1>1. MdnsTypes'
    <2>1. NothingHeld \in [LanPeers -> Infos]
      BY Zenon DEF NothingHeld, Infos
    <2>. QED BY Zenon, <2>1 DEF MInv, MdnsTypes, RetireClears, Scopes
  <1>2. MdnsPhases'
    BY Zenon DEF MInv, MdnsPhases, RetireClears
  <1>3. CandidatesFollow'
    BY Zenon DEF CandidatesFollow, RetireClears, Attached
  <1>4. TableFollows'
    BY Zenon DEF MInv, TableFollows, RetireClears
  <1>. QED BY Zenon, <1>1, <1>2, <1>3, <1>4 DEF MInv

---------------------------------------------------------------------------
(* The theorems.                                                            *)

LEMMA MdnsStarts ==
    ASSUME MdnsInit
    PROVE  MInv
  <1>1. <<>> \in Seq(LanReports) /\ <<>> \in Seq(Calls)
    OBVIOUS
  <1>2. browser \in [Membership -> Browsers] /\ \A m \in Membership : browser[m] = IdleBrowser
    BY Zenon, <1>1 DEF MdnsInit, Browsers, Lookups, IdleBrowser
  <1>3. services \in [ServiceName -> Infos] /\ held \in [LanPeers -> Infos]
        /\ announced \in [ServiceName -> PeerInfos \cup {NoPeer}]
    BY Zenon DEF MdnsInit, NothingAnnounced, NothingHeld, Infos
  <1>4. refresher \in [pc : RefreshPcs, seen : BOOLEAN, old : Nat]
    BY Zenon DEF MdnsInit, RefreshPcs
  <1>5. MdnsTypes
    <2>1. opening \in 0..MaxMemberships /\ memberships \subseteq 1..opening /\ zeroconf \in memberships \cup {0}
      BY MdnsAssumption DEF MdnsInit
    <2>2. scope \in Scopes /\ cleanup \in {"none", "waiting", "done"} /\ callbacks \in Seq(Calls)
          /\ lanUp \in BOOLEAN /\ mdnsActive \in BOOLEAN
      BY Zenon, <1>1 DEF MdnsInit, Scopes
    <2>. QED BY Zenon, <1>2, <1>3, <1>4, <2>1, <2>2 DEF MdnsTypes
  <1>6. MdnsPhases
    BY Zenon, <1>2 DEF MdnsPhases, MdnsInit
  <1>7. CandidatesFollow /\ TableFollows
    BY Zenon DEF CandidatesFollow, TableFollows, MdnsInit, Attached
  <1>. QED BY Zenon, <1>5, <1>6, <1>7 DEF MInv

LEMMA MdnsStep ==
    ASSUME MInv, [MdnsNext]_mdnsVars
    PROVE  MInv'
  <1>1. CASE UNCHANGED mdnsVars
    <2>1. UNCHANGED <<announced, lanUp, mdnsActive, zeroconf, memberships, opening, services, browser, callbacks,
                      refresher, scope, cleanup, held, missed>>
      BY Zenon, <1>1 DEF mdnsVars
    <2>2. MdnsTypes'
      BY Zenon, <2>1 DEF MInv, MdnsTypes
    <2>3. MdnsPhases'
      BY Zenon, <2>1 DEF MInv, MdnsPhases
    <2>4. CandidatesFollow' /\ TableFollows'
      BY Zenon, <2>1 DEF MInv, CandidatesFollow, TableFollows, Attached
    <2>. QED BY Zenon, <2>2, <2>3, <2>4 DEF MInv
  <1>2. ASSUME NEW m \in Membership, BrowserThread(m) PROVE MInv'
    BY Zenon, <1>2, BrowserRemovesKeeps, BrowserLooksUpKeeps, BrowserAppliesKeeps DEF BrowserThread
  <1>3. CASE RefreshThread
    BY Zenon, <1>3, RefreshReadsKeeps, RefreshDetachesKeeps, RefreshRemovesAllKeeps, RefreshClosesKeeps,
       RefreshOpensKeeps DEF RefreshThread
  <1>4. CASE ScopeThread
    BY ZenonT(30), <1>4, StartMdnsKeeps, StartOpensKeeps, StopListeningKeeps, RetireClearsKeeps DEF ScopeThread
  <1>. QED BY Zenon, <1>1, <1>2, <1>3, <1>4, AnnouncementKeeps, LanChangeKeeps, CallbackKeeps, RetireScopeKeeps,
              CleanupClosesKeeps DEF MdnsNext

\* Whatever the threads of the discovery service and the network do, in any order,
\* the callbacks still due and the browser's queue make up for what the transport
\* and the table do not show yet.  (DaemonMDNS)
THEOREM MdnsInvariance == MdnsSpec => []MInv
  BY PTL, MdnsStarts, MdnsStep DEF MdnsSpec

\* The discovery service's variables keep their types, and its current membership
\* is open.  (DaemonMDNS)
THEOREM MdnsTypeCorrect == MdnsSpec => []MdnsTypeOK
  <1>1. MInv => MdnsTypeOK
    <2>. SUFFICES ASSUME MInv PROVE MdnsTypeOK
      BY Zenon
    <2>1. services \in [ServiceName -> Infos] /\ held \in [LanPeers -> Infos] /\ zeroconf \in memberships \cup {0}
          /\ memberships \subseteq 1..opening /\ opening \in 0..MaxMemberships
          /\ scope \in Scopes /\ cleanup \in {"none", "waiting", "done"}
      BY Zenon DEF MInv, MdnsTypes
    <2>2. Infos \subseteq PeerInfos \cup {NoPeer}
      BY Zenon DEF Infos, OthersFound
    <2>3. services \in [ServiceName -> PeerInfos \cup {NoPeer}] /\ held \in [LanPeers -> PeerInfos \cup {NoPeer}]
      BY Zenon, <2>1, <2>2
    <2>4. memberships \subseteq Membership
      BY <2>1, MdnsAssumption DEF Membership
    <2>5. refresher.pc \in RefreshPcs
      BY Zenon DEF MInv, MdnsTypes
    <2>. QED BY Zenon, <2>1, <2>3, <2>4, <2>5 DEF MdnsTypeOK, Scopes, RefreshPcs
  <1>. QED BY PTL, <1>1, MdnsInvariance

\* What the transport holds is what the network announces, as soon as nothing is
\* under way; between memberships nothing is listed, and a retired scope holds
\* nothing.  (_publish_removed_or_remaining, _remove_all_candidates,
\* _update_service, _retire_host_scope)
THEOREM HoldsWhatIsAnnounced == MdnsSpec => []HeldIsCurrent
  <1>1. MInv => HeldIsCurrent
    <2>. SUFFICES ASSUME MInv PROVE HeldIsCurrent
      BY Zenon
    <2>1. MdnsTypes /\ MdnsPhases /\ CandidatesFollow /\ TableFollows
      BY Zenon DEF MInv
    <2>2. Attached /\ CallbackLockFree => \A peer \in LanPeers : Accounted(peer, held[peer], services)
      BY Zenon, <2>1, NoCallsFit DEF CandidatesFollow, CallbackLockFree
    <2>3. zeroconf = 0 /\ refresher.pc # "remove" => services = NothingAnnounced
      BY Zenon, <2>1 DEF MdnsPhases
    <2>4. scope = "cleared" => held = NothingHeld
      BY Zenon, <2>1 DEF MdnsPhases
    <2>5. ASSUME zeroconf # 0, mdnsActive, ~missed, browser[zeroconf] = IdleBrowser
          PROVE  services = [name \in ServiceName |-> PeerInfoOf(announced[name])]
      <3>1. browser[zeroconf].queue = <<>> /\ browser[zeroconf].lookup = NoLookup
        BY <2>5 DEF IdleBrowser
      <3>2. ReportsFit(<<>>, NoLookup, services, announced)
        BY Zenon, <2>1, <2>5, <3>1 DEF TableFollows
      <3>3. DOMAIN <<>> = {} /\ \A n \in ServiceName : NoLookup.name # n
        BY MdnsAssumption DEF NoLookup
      <3>4. \A n \in ServiceName : PeerInfoOf(announced[n]) = services[n]
        BY Zenon, <3>2, <3>3 DEF ReportsFit
      <3>5. services \in [ServiceName -> Infos]
        BY Zenon, <2>1 DEF MdnsTypes
      <3>. QED BY Zenon, <3>4, <3>5
    <2>. QED BY Zenon, <2>2, <2>3, <2>4, <2>5 DEF HeldIsCurrent, Accounted, IdleBrowser
  <1>. QED BY PTL, <1>1, MdnsInvariance

-----------------------------------------------------------------------------
(* The route to a peer (TransportBinding).  What a candidate, an attempt   *)
(* and a stream may hold decides which endpoint an install can write.      *)

Routes == [endpoint : Endpoints \cup {None}, available : BOOLEAN]

Attempts ==
    [phase : {"close", "dial", "stream", "claims", "install", "settle", "finish"},
     endpoint : Endpoints, mdns : BOOLEAN, hint : Hints \cup {None}, current : Routes,
     healthy : BOOLEAN]

Streams ==
    [phase : {"claims", "install"}, path : {"direct", "circuit"},
     endpoint : Endpoints \cup {None}, current : Routes]

Deliveries ==
    [phase : {"io", "answered", "failed"}, endpoint : Endpoints \cup {None},
     gen : 0..MaxGenerations]

Callbacks == [kind : {"mdns", "hint", "retry"}, candidate : Candidates, gen : 1..MaxGenerations]

GenerationTyped ==
    /\ host_up \in BOOLEAN /\ generation \in 0..MaxGenerations
    /\ host_up => generation \in 1..MaxGenerations
ConnectionsTyped == connections \subseteq {"direct", "circuit"}
RouteTyped == discovered \in Routes
SlotsTyped ==
    /\ candidate_infos \in Circuits \cup {"boot", None}
    /\ mdns_candidate_infos \in Announcements \cup Hints \cup {None}
    /\ direct_hint_nodes \in Hints \cup {None}
NotifiedTyped == notified \in Endpoints \cup {None}
TupleTyped ==
    binding_state \in [endpoint : Endpoints \cup {None},
                       state : {"inflight", "healthy", "rejected", "retry_queued", None},
                       owner : Inbounds \cup {Outbound, None}]
DialTyped == circuit_dial \in Circuits \cup {None}
CallbacksTyped ==
    /\ scheduled \subseteq Callbacks
    /\ \A s \in scheduled : s.kind = "hint" => s.candidate \in Hints
SpawnedTyped == spawned \subseteq Candidates
AttemptTyped == attempt = Idle \/ attempt \in Attempts
StreamsTyped == inbound \in [Inbounds -> {Idle} \cup Streams]
SendingTyped == sending = Idle \/ sending \in Deliveries

\* Beside the types: a direct hint names a hint object, a live listener has a generation,
\* and what attempts, streams and deliveries carry.
BindingInv ==
    /\ GenerationTyped /\ ConnectionsTyped /\ RouteTyped /\ SlotsTyped
    /\ NotifiedTyped /\ TupleTyped /\ DialTyped /\ CallbacksTyped
    /\ SpawnedTyped /\ AttemptTyped /\ StreamsTyped /\ SendingTyped

\* What RouteLostForCause says of one step.
RouteKept ==
    /\ discovered.available /\ discovered.endpoint = Lan => discovered'.endpoint = Lan
    /\ binding_state.state = "healthy" => binding_state'.state # "rejected"
    /\ discovered.available /\ ~discovered'.available =>
         \/ connections # {} /\ connections' = {}
         \/ sending.phase = "io" /\ sending'.phase = "failed"
            /\ sending.endpoint = discovered.endpoint

\* Whatever a candidate is, its endpoint is a circuit or the LAN address (_peer_endpoint).
LEMMA EndpointTyped == \A c : EndpointOf(c) \in Endpoints
  BY Zenon DEF EndpointOf, Endpoints

\* A task that is spawned works on a candidate (_spawn_scope_task).
LEMMA SpawnTyped ==
  ASSUME SpawnedTyped, NEW c, c = None \/ c \in Candidates
  PROVE  Spawn({c}) \subseteq Candidates
  BY Zenon DEF Spawn, SpawnedTyped

\* The slots hold candidates, and so does what a new connection binds (_transport_connected).
LEMMA SlotsAreCandidates ==
  ASSUME SlotsTyped
  PROVE  /\ candidate_infos = None \/ candidate_infos \in Candidates
         /\ mdns_candidate_infos = None \/ mdns_candidate_infos \in Candidates
         /\ ConnectedCandidate \in Candidates
  BY Zenon DEF SlotsTyped, Candidates, ConnectedCandidate

\* The finally block of an attempt (_bind_candidate).
LEMMA FinishKeeps ==
  ASSUME SpawnedTyped, SlotsTyped, NEW known, known \in Endpoints \cup {None}, Finish(known)
  PROVE  NotifiedTyped' /\ SpawnedTyped' /\ AttemptTyped' /\ attempt' = Idle
PROOF
  <1> DEFINE next == IF (attempt.mdns /\ ~attempt.healthy) \/ mdns_candidate_infos = None
                     THEN candidate_infos ELSE mdns_candidate_infos
  <1>1. next = None \/ next \in Candidates
    BY Zenon, SlotsAreCandidates
  <1>2. Spawn({next}) \subseteq Candidates
    BY Zenon, <1>1, SpawnTyped
  <1>3. spawned' = Spawn({next}) \/ spawned' = spawned
    BY Zenon DEF Finish
  <1>4. SpawnedTyped'
    BY Zenon, <1>2, <1>3 DEF SpawnedTyped
  <1>5. NotifiedTyped'
    BY Zenon, EndpointTyped DEF Finish, NotifiedTyped
  <1>6. attempt' = Idle
    BY Zenon DEF Finish
  <1> QED BY Zenon, <1>4, <1>5, <1>6 DEF AttemptTyped

\* An open stream is closed first.
LEMMA CloseStreamKeeps ==
  ASSUME SpawnedTyped, AttemptTyped, attempt # Idle,
         NEW known, known \in Endpoints \cup {None}, CloseStream(known)
  PROVE  NotifiedTyped' /\ SpawnedTyped' /\ AttemptTyped'
PROOF
  <1>1. attempt \in Attempts
    BY Zenon DEF AttemptTyped
  <1>2. attempt' \in Attempts
    BY Zenon, <1>1 DEF CloseStream, Attempts
  <1> QED BY Zenon, <1>2 DEF CloseStream, NotifiedTyped, SpawnedTyped, AttemptTyped

\* An attempt that is under way is one.
LEMMA AttemptUnderWay ==
  ASSUME AttemptTyped, attempt.phase # "idle"
  PROVE  attempt \in Attempts /\ attempt # Idle
  BY DEF AttemptTyped, Idle

\* install_discovered writes a route, keeps an available direct one over a circuit, and
\* never makes an available route unavailable.
LEMMA InstallKeepsDirect ==
  ASSUME RouteTyped, NEW e \in Endpoints
  PROVE  /\ InstallDiscovered(e) \in Routes
         /\ discovered.available /\ discovered.endpoint = Lan => InstallDiscovered(e).endpoint = Lan
         /\ discovered.available => InstallDiscovered(e).available
PROOF
  <1>1. Lan \notin Circuits
    BY Zenon, BindingAssumption
  <1>2. CASE discovered.available /\ discovered.endpoint \notin Circuits /\ e \in Circuits
    BY Zenon, <1>2 DEF InstallDiscovered, RouteTyped
  <1>3. CASE ~(discovered.available /\ discovered.endpoint \notin Circuits /\ e \in Circuits)
    <2>1. InstallDiscovered(e) = [endpoint |-> e, available |-> TRUE]
      BY Zenon, <1>3 DEF InstallDiscovered
    <2> QED BY <2>1, <1>1, <1>3 DEF Routes, Endpoints
  <1> QED BY Zenon, <1>2, <1>3

\* What may stand in the peer's tuple once it is settled.
LEMMA SettledTyped ==
  ASSUME NEW e \in Endpoints \cup {None}, NEW s \in {"healthy", "rejected", "retry_queued"},
         binding_state' = Settled(e, s)
  PROVE  TupleTyped'
  BY Zenon DEF Settled, TupleTyped

LEMMA NoStateTyped ==
  ASSUME binding_state' = NoState
  PROVE  TupleTyped'
  BY Zenon DEF NoState, TupleTyped

\* Only the attempt that still owns the tuple rejects it.
LEMMA RejectsItsOwn ==
  ASSUME TupleTyped, attempt \in Attempts, RejectOwned
  PROVE  TupleTyped' /\ (binding_state.state = "healthy" => binding_state'.state # "rejected")
PROOF
  <1>1. CASE Owns(Outbound)
    <2>1. binding_state' = Settled(attempt.endpoint, "rejected")
      BY Zenon, <1>1 DEF RejectOwned
    <2>2. attempt.endpoint \in Endpoints
      BY Zenon DEF Attempts
    <2> QED BY Zenon, <2>1, <2>2, <1>1, SettledTyped DEF Owns
  <1>2. CASE ~Owns(Outbound)
    BY Zenon, <1>2 DEF RejectOwned, TupleTyped
  <1> QED BY Zenon, <1>1, <1>2


\* A step that leaves the route alone and rejects nothing healthy keeps the route.
LEMMA RouteUntouched ==
  ASSUME discovered' = discovered,
         binding_state.state = "healthy" => binding_state'.state # "rejected"
  PROVE  RouteKept
  BY Zenon DEF RouteKept

\* The same when the peer's tuple is left alone as well.
LEMMA NothingSettled ==
  ASSUME discovered' = discovered, binding_state' = binding_state
  PROVE  RouteKept
  BY Zenon DEF RouteKept

\* The listener generations (_run_host_scope, _retire_host_scope).
LEMMA HostStepsKeep ==
  ASSUME BindingInv, HostUp \/ HostRetire \/ HostClosed
  PROVE  BindingInv' /\ RouteKept
PROOF
  <1> USE DEF BindingInv
  <1>1. CASE HostUp
    <2>1. GenerationTyped'
      BY <1>1, BindingAssumption DEF HostUp, GenerationTyped
    <2>2. SlotsTyped' /\ SpawnedTyped'
      BY Zenon, <1>1 DEF HostUp, SlotsTyped, SpawnedTyped, Candidates
    <2>3. UNCHANGED <<connections, discovered, notified, binding_state, circuit_dial, scheduled,
                      attempt, inbound, sending>>
      BY Zenon, <1>1 DEF HostUp
    <2> QED BY Zenon, <2>1, <2>2, <2>3, NothingSettled DEF ConnectionsTyped, RouteTyped, NotifiedTyped,
            TupleTyped, DialTyped, CallbacksTyped, AttemptTyped, StreamsTyped, SendingTyped
  <1>2. CASE HostRetire
    <2>1. GenerationTyped'
      BY Zenon, <1>2 DEF HostRetire, GenerationTyped
    <2>2. SlotsTyped' /\ SpawnedTyped' /\ NotifiedTyped' /\ DialTyped'
      BY Zenon, <1>2 DEF HostRetire, SlotsTyped, SpawnedTyped, NotifiedTyped, DialTyped
    <2>3. TupleTyped' /\ binding_state'.state # "rejected"
      BY Zenon, <1>2, NoStateTyped DEF HostRetire, NoState, None
    <2>4. UNCHANGED <<connections, discovered, scheduled, attempt, inbound, sending>>
      BY Zenon, <1>2 DEF HostRetire
    <2> QED BY Zenon, <2>1, <2>2, <2>3, <2>4, RouteUntouched DEF ConnectionsTyped, RouteTyped,
            CallbacksTyped, AttemptTyped, StreamsTyped, SendingTyped
  <1>3. CASE HostClosed
    <2>1. RouteTyped' /\ discovered'.endpoint = discovered.endpoint
      BY Zenon, <1>3 DEF HostClosed, MarkTransportUnavailable, RouteTyped, Routes
    <2>2. connections # {} /\ connections' = {}
      BY Zenon, <1>3 DEF HostClosed
    <2>3. UNCHANGED <<host_up, generation, candidate_infos, mdns_candidate_infos,
                      direct_hint_nodes, notified, binding_state, circuit_dial, scheduled,
                      spawned, attempt, inbound, sending>>
      BY Zenon, <1>3 DEF HostClosed, hostVars, candidateVars
    <2>4. RouteKept
      BY Zenon, <2>1, <2>2, <2>3 DEF RouteKept
    <2> QED BY <2>1, <2>2, <2>3, <2>4 DEF GenerationTyped, ConnectionsTyped, SlotsTyped,
            NotifiedTyped, TupleTyped, DialTyped, CallbacksTyped, SpawnedTyped, AttemptTyped,
            StreamsTyped, SendingTyped
  <1> QED BY Zenon, <1>1, <1>2, <1>3

\* Announcements, hints and retries are scheduled from other threads (discovered, removed,
\* submit_direct_candidate, admission_changed).
LEMMA DiscoveryKeeps ==
  ASSUME BindingInv,
         \/ \E a \in Announcements : Announce(a)
         \/ Withdraw
         \/ \E h \in Hints : SubmitDirectCandidate(h)
         \/ AdmissionChanged
  PROVE  BindingInv' /\ RouteKept
PROOF
  <1> USE DEF BindingInv
  <1>0. ASSUME host_up PROVE generation \in 1..MaxGenerations
    BY Zenon, <1>0 DEF GenerationTyped
  <1>1. ASSUME NEW a \in Announcements, Announce(a) PROVE BindingInv' /\ RouteKept
    <2>1. SlotsTyped'
      BY Zenon, <1>1 DEF Announce, SlotsTyped
    <2>2. NotifiedTyped'
      BY Zenon, <1>1 DEF Announce, NotifiedTyped, Endpoints
    <2>3. [kind |-> "mdns", candidate |-> a, gen |-> generation] \in Callbacks
      BY Zenon, <1>0, <1>1 DEF Announce, Callbacks, Candidates
    <2>4. CallbacksTyped'
      BY <1>1, <2>3 DEF Announce, CallbacksTyped
    <2>5. UNCHANGED <<host_up, generation, connections, discovered, binding_state, circuit_dial,
                      spawned, attempt, inbound, sending>>
      BY Zenon, <1>1 DEF Announce, hostVars
    <2> QED BY ZenonT(30), <2>1, <2>2, <2>4, <2>5, NothingSettled DEF GenerationTyped, ConnectionsTyped,
            RouteTyped, TupleTyped, DialTyped, SpawnedTyped, AttemptTyped, StreamsTyped, SendingTyped
  <1>2. CASE Withdraw
    <2>1. SlotsTyped'
      BY Zenon, <1>2 DEF Withdraw, SlotsTyped
    <2>2. UNCHANGED <<host_up, generation, connections, discovered, notified, binding_state,
                      circuit_dial, scheduled, spawned, attempt, inbound, sending>>
      BY Zenon, <1>2 DEF Withdraw, hostVars
    <2> QED BY <2>1, <2>2, NothingSettled DEF GenerationTyped, ConnectionsTyped, RouteTyped,
            NotifiedTyped, TupleTyped, DialTyped, CallbacksTyped, SpawnedTyped, AttemptTyped,
            StreamsTyped, SendingTyped
  <1>3. ASSUME NEW h \in Hints, SubmitDirectCandidate(h) PROVE BindingInv' /\ RouteKept
    <2>1. [kind |-> "hint", candidate |-> h, gen |-> generation] \in Callbacks
      BY Zenon, <1>0, <1>3 DEF SubmitDirectCandidate, Callbacks, Candidates
    <2>2. CallbacksTyped'
      BY <1>3, <2>1 DEF SubmitDirectCandidate, CallbacksTyped
    <2>3. UNCHANGED <<host_up, generation, connections, discovered, candidate_infos,
                      mdns_candidate_infos, direct_hint_nodes, notified, binding_state,
                      circuit_dial, spawned, attempt, inbound, sending>>
      BY Zenon, <1>3 DEF SubmitDirectCandidate, hostVars, candidateVars
    <2> QED BY <2>2, <2>3, NothingSettled DEF GenerationTyped, ConnectionsTyped, RouteTyped,
            SlotsTyped, NotifiedTyped, TupleTyped, DialTyped, SpawnedTyped, AttemptTyped,
            StreamsTyped, SendingTyped
  <1>4. CASE AdmissionChanged
    <2>1. UNCHANGED <<host_up, generation, connections, discovered, candidate_infos,
                      mdns_candidate_infos, direct_hint_nodes, notified, circuit_dial, spawned,
                      attempt, inbound, sending>>
      BY Zenon, <1>4 DEF AdmissionChanged, hostVars, candidateVars
    <2>2. TupleTyped' /\ (binding_state.state = "healthy" => binding_state'.state # "rejected")
      BY <1>4 DEF AdmissionChanged, Settled, TupleTyped
    <2>3. CASE scheduled' = scheduled
      BY <2>1, <2>2, <2>3, RouteUntouched DEF GenerationTyped, ConnectionsTyped, RouteTyped,
         SlotsTyped, NotifiedTyped, DialTyped, CallbacksTyped, SpawnedTyped, AttemptTyped,
         StreamsTyped, SendingTyped
    <2>4. CASE scheduled' # scheduled
      <3>1. RetryCandidate # None
            /\ scheduled' = scheduled \cup
                 {[kind |-> "retry", candidate |-> RetryCandidate, gen |-> generation]}
        BY Zenon, <1>4, <2>4 DEF AdmissionChanged
      <3>2. RetryCandidate \in Candidates
        BY Zenon, <3>1, SlotsAreCandidates DEF RetryCandidate
      <3>3. [kind |-> "retry", candidate |-> RetryCandidate, gen |-> generation] \in Callbacks
        BY Zenon, <1>0, <1>4, <3>2 DEF AdmissionChanged, Callbacks
      <3>4. CallbacksTyped'
        BY <3>1, <3>3 DEF CallbacksTyped
      <3> QED BY ZenonT(30), <2>1, <2>2, <3>4, RouteUntouched DEF GenerationTyped, ConnectionsTyped,
              RouteTyped, SlotsTyped, NotifiedTyped, DialTyped, SpawnedTyped, AttemptTyped,
              StreamsTyped, SendingTyped
    <2> QED BY Zenon, <2>3, <2>4
  <1> QED BY Zenon, <1>1, <1>2, <1>3, <1>4

\* The callbacks on the trio thread: only a retry that was queued goes back to a rejection.
LEMMA ScheduledKeeps ==
  ASSUME BindingInv, NEW s \in scheduled, RunScheduled(s)
  PROVE  BindingInv' /\ RouteKept
PROOF
  <1> USE DEF BindingInv
  <1>1. UNCHANGED <<host_up, generation, connections, discovered, notified, circuit_dial,
                    attempt, inbound, sending>>
    BY Zenon DEF RunScheduled, hostVars
  <1>2. CallbacksTyped'
    BY Zenon DEF RunScheduled, CallbacksTyped
  <1>3. s.candidate \in Candidates /\ (s.kind = "hint" => s.candidate \in Hints)
    BY Zenon DEF CallbacksTyped, Callbacks
  <1>4. Spawn({s.candidate}) \subseteq Candidates
    BY Zenon, <1>3, SpawnTyped
  <1>5. ASSUME SlotsTyped', SpawnedTyped', TupleTyped',
               binding_state.state = "healthy" => binding_state'.state # "rejected"
        PROVE  BindingInv' /\ RouteKept
    BY Zenon, <1>1, <1>2, <1>5, RouteUntouched DEF GenerationTyped, ConnectionsTyped, RouteTyped,
       NotifiedTyped, DialTyped, AttemptTyped, StreamsTyped, SendingTyped
  <1>6. CASE RunMdns(s) \/ RunRetry(s)
    <2>1. SpawnedTyped'
      BY Zenon, <1>4, <1>6 DEF RunMdns, RunRetry, SpawnedTyped
    <2>2. UNCHANGED <<candidate_infos, mdns_candidate_infos, direct_hint_nodes, binding_state>>
      BY Zenon, <1>6 DEF RunMdns, RunRetry, candidateVars
    <2> QED BY ZenonT(30), <1>5, <2>1, <2>2 DEF SlotsTyped, TupleTyped
  <1>7. CASE s.kind = "hint" /\ RunHint(s)
    <2>1. SpawnedTyped'
      BY Zenon, <1>4, <1>7 DEF RunHint, SpawnedTyped
    <2>2. SlotsTyped'
      BY Zenon, <1>3, <1>7 DEF RunHint, SlotsTyped
    <2>3. TupleTyped' /\ (binding_state.state = "healthy" => binding_state'.state # "rejected")
      BY Zenon, <1>7 DEF RunHint, Settled, TupleTyped, Endpoints
    <2> QED BY Zenon, <1>5, <2>1, <2>2, <2>3
  <1>8. CASE RunExpired(s)
    <2>1. UNCHANGED <<candidate_infos, mdns_candidate_infos, direct_hint_nodes, spawned>>
      BY Zenon, <1>8 DEF RunExpired, candidateVars
    <2>2. TupleTyped' /\ (binding_state.state = "healthy" => binding_state'.state # "rejected")
      BY <1>8, EndpointTyped DEF RunExpired, Settled, TupleTyped
    <2> QED BY Zenon, <1>5, <2>1, <2>2 DEF SlotsTyped, SpawnedTyped
  <1>9. \/ RunMdns(s) \/ RunRetry(s) \/ RunExpired(s)
        \/ s.kind = "hint" /\ RunHint(s)
    BY Zenon DEF RunScheduled
  <1> QED BY Zenon, <1>6, <1>7, <1>8, <1>9

\* A relay offers its circuit or fails; the peer dials in or its last connection closes
\* (_queue_rss_route_candidates, _transport_connected, _transport_disconnected).
LEMMA ConnectionsKeep ==
  ASSUME BindingInv,
         \/ \E c \in Circuits : OfferCircuit(c) \/ RelayFails(c)
         \/ \E kind \in {"direct", "circuit"} : PeerConnects(kind) \/ ConnectionCloses(kind)
  PROVE  BindingInv' /\ RouteKept
PROOF
  <1> USE DEF BindingInv
  <1>1. ASSUME NEW c \in Circuits, OfferCircuit(c) PROVE BindingInv' /\ RouteKept
    <2>1. c \in Candidates /\ c \in Endpoints
      BY Zenon DEF Candidates, Endpoints
    <2>2. Spawn({c}) \subseteq Candidates
      BY Zenon, <2>1, SpawnTyped
    <2>3. SlotsTyped'
      BY Zenon, <1>1 DEF OfferCircuit, SlotsTyped
    <2>4. NotifiedTyped' /\ SpawnedTyped'
      BY Zenon, <1>1, <2>1, <2>2 DEF OfferCircuit, NotifiedTyped, SpawnedTyped
    <2>5. UNCHANGED <<host_up, generation, connections, discovered, binding_state, circuit_dial,
                      scheduled, attempt, inbound, sending>>
      BY Zenon, <1>1 DEF OfferCircuit, hostVars
    <2> QED BY <2>3, <2>4, <2>5, NothingSettled DEF GenerationTyped, ConnectionsTyped,
            RouteTyped, TupleTyped, DialTyped, CallbacksTyped, AttemptTyped, StreamsTyped,
            SendingTyped
  <1>2. ASSUME NEW c \in Circuits, RelayFails(c) PROVE BindingInv' /\ RouteKept
    <2>1. UNCHANGED <<host_up, generation, connections, discovered, candidate_infos,
                      mdns_candidate_infos, direct_hint_nodes, notified, binding_state,
                      circuit_dial, scheduled, spawned, attempt, inbound, sending>>
      BY Zenon, <1>2 DEF RelayFails, hostVars, candidateVars
    <2> QED BY <2>1, NothingSettled DEF GenerationTyped, ConnectionsTyped, RouteTyped,
            SlotsTyped, NotifiedTyped, TupleTyped, DialTyped, CallbacksTyped, SpawnedTyped,
            AttemptTyped, StreamsTyped, SendingTyped
  <1>3. ASSUME NEW kind \in {"direct", "circuit"}, PeerConnects(kind)
        PROVE  BindingInv' /\ RouteKept
    <2>1. Spawn({ConnectedCandidate}) \subseteq Candidates
      BY Zenon, SlotsAreCandidates, SpawnTyped
    <2>2. SpawnedTyped' /\ ConnectionsTyped'
      BY Zenon, <1>3, <2>1 DEF PeerConnects, SpawnedTyped, ConnectionsTyped
    <2>3. UNCHANGED <<host_up, generation, discovered, candidate_infos, mdns_candidate_infos,
                      direct_hint_nodes, notified, binding_state, circuit_dial, scheduled,
                      attempt, inbound, sending>>
      BY Zenon, <1>3 DEF PeerConnects, hostVars, candidateVars
    <2> QED BY <2>2, <2>3, NothingSettled DEF GenerationTyped, RouteTyped, SlotsTyped,
            NotifiedTyped, TupleTyped, DialTyped, CallbacksTyped, AttemptTyped, StreamsTyped,
            SendingTyped
  <1>4. ASSUME NEW kind \in {"direct", "circuit"}, ConnectionCloses(kind)
        PROVE  BindingInv' /\ RouteKept
    <2>1. UNCHANGED <<host_up, generation, candidate_infos, mdns_candidate_infos,
                      direct_hint_nodes, circuit_dial, scheduled, attempt, inbound, sending>>
      BY Zenon, <1>4 DEF ConnectionCloses, hostVars, candidateVars
    <2>2. ConnectionsTyped'
      BY Zenon, <1>4 DEF ConnectionCloses, ConnectionsTyped
    <2>3. Spawn({candidate_infos}) \subseteq Candidates
      BY Zenon, SlotsAreCandidates, SpawnTyped
    <2>4. ASSUME RouteTyped', NotifiedTyped', TupleTyped', SpawnedTyped'
          PROVE  BindingInv'
      BY Zenon, <2>1, <2>2, <2>4 DEF GenerationTyped, SlotsTyped, DialTyped, CallbacksTyped,
         AttemptTyped, StreamsTyped, SendingTyped
    <2>5. CASE connections # {kind}
      <3>1. UNCHANGED <<discovered, binding_state, notified, spawned>>
        BY Zenon, <1>4, <2>5 DEF ConnectionCloses
      <3> QED BY Zenon, <2>4, <3>1, NothingSettled DEF RouteTyped, NotifiedTyped, TupleTyped,
              SpawnedTyped
    <2>6. CASE connections = {kind}
      <3>1. discovered' = MarkTransportUnavailable /\ DisconnectedState
            /\ connections' = connections \ {kind}
        BY Zenon, <1>4, <2>6 DEF ConnectionCloses
      <3>2. connections # {} /\ connections' = {}
        BY Zenon, <2>6, <3>1
      <3>3. RouteTyped' /\ discovered'.endpoint = discovered.endpoint
        BY Zenon, <3>1 DEF MarkTransportUnavailable, RouteTyped, Routes
      <3>4. NotifiedTyped' /\ SpawnedTyped'
        BY Zenon, <2>3, <3>1 DEF DisconnectedState, NotifiedTyped, SpawnedTyped
      <3>5. TupleTyped' /\ (binding_state.state = "healthy" => binding_state'.state # "rejected")
        BY <3>1 DEF DisconnectedState, TupleTyped, NoState, None
      <3>6. RouteKept
        BY Zenon, <3>2, <3>3, <3>5 DEF RouteKept
      <3> QED BY Zenon, <2>4, <3>3, <3>4, <3>5, <3>6
    <2> QED BY Zenon, <2>5, <2>6
  <1> QED BY Zenon, <1>1, <1>2, <1>3, <1>4

\* An attempt starts, closes the old connections and dials (_connect_and_bind).
LEMMA DiallingKeeps ==
  ASSUME BindingInv,
         \/ \E c \in spawned : AttemptStart(c)
         \/ AttemptClose
         \/ AttemptDial
  PROVE  BindingInv' /\ RouteKept
PROOF
  <1> USE DEF BindingInv
  <1>1. ASSUME NEW c \in spawned, AttemptStart(c) PROVE BindingInv' /\ RouteKept
    <2>1. UNCHANGED <<host_up, generation, connections, discovered, candidate_infos,
                      mdns_candidate_infos, direct_hint_nodes, notified, circuit_dial,
                      scheduled, inbound, sending>>
      BY Zenon, <1>1 DEF AttemptStart, hostVars, candidateVars
    <2>2. SpawnedTyped'
      BY Zenon, <1>1 DEF AttemptStart, SpawnedTyped
    <2>3. EndpointOf(c) \in Endpoints
      BY Zenon, EndpointTyped
    <2>4. TupleTyped' /\ (binding_state.state = "healthy" => binding_state'.state # "rejected")
      <3>1. CASE Refused(c)
        <4>1. binding_state' = binding_state
          BY Zenon, <1>1, <3>1 DEF AttemptStart
        <4>2. binding_state.state = "healthy" => binding_state.state # "rejected"
          BY Zenon
        <4> QED BY Zenon, <4>1, <4>2 DEF TupleTyped
      <3>2. CASE ~Refused(c)
        <4>1. binding_state' = [endpoint |-> EndpointOf(c), state |-> "inflight", owner |-> Outbound]
          BY Zenon, <1>1, <3>2 DEF AttemptStart
        <4>2. TupleTyped'
          BY Zenon, <2>3, <4>1 DEF TupleTyped
        <4> QED BY Zenon, <4>1, <4>2
      <3> QED BY Zenon, <3>1, <3>2
    <2>5. AttemptTyped'
      <3>1. CASE Refused(c)
        BY Zenon, <1>1, <3>1 DEF AttemptStart, AttemptTyped
      <3>2. CASE ~Refused(c)
        <4>1. attempt' = [phase |-> IF NeedsClose(c) THEN "close" ELSE "dial",
                          endpoint |-> EndpointOf(c), mdns |-> mdns_candidate_infos = c,
                          hint |-> direct_hint_nodes, current |-> NoRoute, healthy |-> FALSE]
          BY Zenon, <1>1, <3>2 DEF AttemptStart
        <4>2. NoRoute \in Routes /\ direct_hint_nodes \in Hints \cup {None}
          BY Zenon DEF NoRoute, Routes, SlotsTyped
        <4>3. (mdns_candidate_infos = c) \in BOOLEAN
          BY Zenon
        <4> QED BY Zenon, <2>3, <4>1, <4>2, <4>3 DEF AttemptTyped, Attempts
      <3> QED BY Zenon, <3>1, <3>2
    <2> QED BY ZenonT(30), <2>1, <2>2, <2>4, <2>5, RouteUntouched DEF GenerationTyped, ConnectionsTyped,
            RouteTyped, SlotsTyped, NotifiedTyped, DialTyped, CallbacksTyped, StreamsTyped,
            SendingTyped
  <1>2. CASE AttemptClose
    <2>1. UNCHANGED <<host_up, generation, candidate_infos, mdns_candidate_infos,
                      direct_hint_nodes, notified, binding_state, circuit_dial, scheduled,
                      spawned, inbound, sending>>
      BY Zenon, <1>2 DEF AttemptClose, hostVars, candidateVars
    <2>2. connections' = {} /\ ConnectionsTyped'
      BY Zenon, <1>2 DEF AttemptClose, ConnectionsTyped
    <2>3. RouteTyped' /\ discovered'.endpoint = discovered.endpoint
          /\ (discovered' # discovered => connections # {})
      BY Zenon, <1>2 DEF AttemptClose, MarkTransportUnavailable, RouteTyped, Routes
    <2>4. attempt \in Attempts
      BY Zenon, <1>2, AttemptUnderWay DEF AttemptClose
    <2>5. AttemptTyped'
      BY Zenon, <1>2, <2>4 DEF AttemptClose, AttemptTyped, Attempts
    <2>6. RouteKept
      BY Zenon, <2>1, <2>2, <2>3 DEF RouteKept
    <2> QED BY <2>1, <2>2, <2>3, <2>5, <2>6 DEF GenerationTyped, SlotsTyped, NotifiedTyped,
            TupleTyped, DialTyped, CallbacksTyped, SpawnedTyped, StreamsTyped, SendingTyped
  <1>3. CASE AttemptDial
    <2>1. UNCHANGED <<host_up, generation, discovered, candidate_infos, mdns_candidate_infos,
                      direct_hint_nodes, notified, binding_state, scheduled, inbound, sending>>
      BY Zenon, <1>3 DEF AttemptDial, hostVars, candidateVars
    <2>2. attempt \in Attempts
      BY Zenon, <1>3, AttemptUnderWay DEF AttemptDial
    <2>3. AttemptTyped'
      BY Zenon, <1>3, <2>2 DEF AttemptDial, AttemptTyped, Attempts
    <2>4. Spawn({ConnectedCandidate}) \subseteq Candidates
      BY Zenon, SlotsAreCandidates, SpawnTyped
    <2>5. ConnectionsTyped' /\ SpawnedTyped' /\ DialTyped'
      BY Zenon, <1>3, <2>4 DEF AttemptDial, ConnectionsTyped, SpawnedTyped, DialTyped
    <2> QED BY <2>1, <2>3, <2>5, NothingSettled DEF GenerationTyped, RouteTyped, SlotsTyped,
            NotifiedTyped, TupleTyped, CallbacksTyped, StreamsTyped, SendingTyped
  <1> QED BY Zenon, <1>1, <1>2, <1>3

\* An attempt ends without a route: an error, its deadline, a stream of the wrong kind or
\* the finally block (_bind_candidate).
LEMMA FailingKeeps ==
  ASSUME BindingInv,
         \/ AttemptFails \/ AttemptInterrupted \/ AttemptFinish
         \/ \E path \in {"direct", "circuit"} : AttemptStream(path)
  PROVE  BindingInv' /\ RouteKept
PROOF
  <1> USE DEF BindingInv
  <1>1. ASSUME UNCHANGED <<host_up, generation, connections, discovered, candidate_infos,
                           mdns_candidate_infos, direct_hint_nodes, circuit_dial, scheduled,
                           inbound, sending>>,
               NotifiedTyped', SpawnedTyped', AttemptTyped', TupleTyped',
               binding_state.state = "healthy" => binding_state'.state # "rejected"
        PROVE  BindingInv' /\ RouteKept
    BY Zenon, <1>1, RouteUntouched DEF GenerationTyped, ConnectionsTyped, RouteTyped, SlotsTyped,
       DialTyped, CallbacksTyped, StreamsTyped, SendingTyped
  <1>2. notified \in Endpoints \cup {None}
    BY Zenon DEF NotifiedTyped
  <1>3. CASE AttemptFails
    <2>1. UNCHANGED <<host_up, generation, connections, discovered, candidate_infos,
                      mdns_candidate_infos, direct_hint_nodes, circuit_dial, scheduled,
                      inbound, sending>>
      BY Zenon, <1>3 DEF AttemptFails, hostVars, candidateVars
    <2>2. attempt \in Attempts /\ attempt # Idle
      BY Zenon, <1>3, AttemptUnderWay DEF AttemptFails
    <2>3. TupleTyped' /\ (binding_state.state = "healthy" => binding_state'.state # "rejected")
      BY Zenon, <1>3, <2>2, RejectsItsOwn DEF AttemptFails
    <2>4. CloseStream(notified) \/ Finish(notified)
      BY Zenon, <1>3 DEF AttemptFails
    <2>5. NotifiedTyped' /\ SpawnedTyped' /\ AttemptTyped'
      BY Zenon, <1>2, <2>2, <2>4, CloseStreamKeeps, FinishKeeps
    <2> QED BY Zenon, <1>1, <2>1, <2>3, <2>5
  <1>4. CASE AttemptInterrupted
    <2> DEFINE known == IF Owns(Outbound) /\ notified = attempt.endpoint THEN None ELSE notified
    <2>1. UNCHANGED <<host_up, generation, connections, discovered, candidate_infos,
                      mdns_candidate_infos, direct_hint_nodes, circuit_dial, scheduled,
                      inbound, sending>>
      BY Zenon, <1>4 DEF AttemptInterrupted, hostVars, candidateVars
    <2>2. attempt \in Attempts /\ attempt # Idle
      BY Zenon, <1>4, AttemptUnderWay DEF AttemptInterrupted
    <2>3. TupleTyped' /\ (binding_state.state = "healthy" => binding_state'.state # "rejected")
      BY Zenon, <1>4 DEF AttemptInterrupted, TupleTyped, NoState, None
    <2>4. known \in Endpoints \cup {None}
      BY Zenon, <1>2
    <2>5. CloseStream(known) \/ Finish(known)
      BY Zenon, <1>4 DEF AttemptInterrupted
    <2> HIDE DEF known
    <2>6. NotifiedTyped' /\ SpawnedTyped' /\ AttemptTyped'
      BY Zenon, <2>2, <2>4, <2>5, CloseStreamKeeps, FinishKeeps
    <2> QED BY Zenon, <1>1, <2>1, <2>3, <2>6
  <1>5. CASE AttemptFinish
    <2>1. UNCHANGED <<host_up, generation, connections, discovered, candidate_infos,
                      mdns_candidate_infos, direct_hint_nodes, circuit_dial, scheduled,
                      inbound, sending, binding_state>>
      BY Zenon, <1>5 DEF AttemptFinish, hostVars, candidateVars
    <2>2. NotifiedTyped' /\ SpawnedTyped' /\ AttemptTyped'
      BY Zenon, <1>2, <1>5, FinishKeeps DEF AttemptFinish
    <2> QED BY Zenon, <1>1, <2>1, <2>2 DEF TupleTyped
  <1>6. ASSUME NEW path \in {"direct", "circuit"}, AttemptStream(path)
        PROVE  BindingInv' /\ RouteKept
    <2>1. UNCHANGED <<host_up, generation, discovered, candidate_infos, mdns_candidate_infos,
                      direct_hint_nodes, notified, circuit_dial, scheduled, inbound, sending>>
      BY Zenon, <1>6 DEF AttemptStream, hostVars, candidateVars
    <2>2. attempt \in Attempts
      BY Zenon, <1>6, AttemptUnderWay DEF AttemptStream
    <2>3. AttemptTyped'
      BY <1>6, <2>2 DEF AttemptStream, AttemptTyped, Attempts
    <2>4. Spawn({ConnectedCandidate}) \subseteq Candidates
      BY Zenon, SlotsAreCandidates, SpawnTyped
    <2>5. ConnectionsTyped' /\ SpawnedTyped'
      BY Zenon, <1>6, <2>4 DEF AttemptStream, ConnectionsTyped, SpawnedTyped
    <2>6. RejectOwned \/ binding_state' = binding_state
      BY Zenon, <1>6 DEF AttemptStream
    <2>7. TupleTyped' /\ (binding_state.state = "healthy" => binding_state'.state # "rejected")
      BY Zenon, <2>2, <2>6, RejectsItsOwn DEF TupleTyped
    <2> QED BY ZenonT(30), <2>1, <2>3, <2>5, <2>7, RouteUntouched DEF GenerationTyped, RouteTyped,
            SlotsTyped, NotifiedTyped, DialTyped, CallbacksTyped, StreamsTyped, SendingTyped
  <1> QED BY Zenon, <1>3, <1>4, <1>5, <1>6

\* An authenticated attempt installs its route, unless the direct one has won meanwhile
\* (_bind_candidate, install_discovered).
LEMMA InstallingKeeps ==
  ASSUME BindingInv, AttemptCheck \/ AttemptInstall \/ AttemptSettle
  PROVE  BindingInv' /\ RouteKept
PROOF
  <1> USE DEF BindingInv
  <1>1. UNCHANGED <<host_up, generation, connections, candidate_infos, mdns_candidate_infos,
                    direct_hint_nodes, circuit_dial, scheduled, inbound, sending>>
    BY Zenon DEF AttemptCheck, AttemptInstall, AttemptSettle, hostVars, candidateVars
  <1>2. ASSUME RouteTyped', NotifiedTyped', SpawnedTyped', AttemptTyped', TupleTyped'
        PROVE  BindingInv'
    BY Zenon, <1>1, <1>2 DEF GenerationTyped, ConnectionsTyped, SlotsTyped, DialTyped, CallbacksTyped,
       StreamsTyped, SendingTyped
  <1>3. notified \in Endpoints \cup {None}
    BY Zenon DEF NotifiedTyped
  <1>4. attempt \in Attempts
    BY Zenon, AttemptUnderWay DEF AttemptCheck, AttemptInstall, AttemptSettle
  <1>5. attempt.endpoint \in Endpoints /\ attempt.current.endpoint \in Endpoints \cup {None}
    BY Zenon, <1>4 DEF Attempts, Routes
  <1>6. CASE AttemptCheck
    <2>1. discovered' = discovered
      BY Zenon, <1>6 DEF AttemptCheck
    <2>2. CASE RejectOwned /\ Finish(notified)
      <3>1. TupleTyped' /\ (binding_state.state = "healthy" => binding_state'.state # "rejected")
        BY Zenon, <1>4, <2>2, RejectsItsOwn
      <3>2. NotifiedTyped' /\ SpawnedTyped' /\ AttemptTyped'
        BY Zenon, <1>3, <2>2, FinishKeeps
      <3> QED BY Zenon, <1>2, <2>1, <3>1, <3>2, RouteUntouched DEF RouteTyped
    <2>3. CASE /\ attempt' = [attempt EXCEPT !.phase = "install", !.current = discovered]
               /\ UNCHANGED <<binding_state, binding_inflight, notified, spawned>>
      <3>1. AttemptTyped'
        BY Zenon, <1>4, <2>3 DEF AttemptTyped, Attempts, RouteTyped
      <3> QED BY Zenon, <1>2, <2>1, <2>3, <3>1, NothingSettled DEF RouteTyped, TupleTyped,
              NotifiedTyped, SpawnedTyped
    <2> QED BY Zenon, <1>6, <2>2, <2>3 DEF AttemptCheck
  <1>7. CASE AttemptInstall
    <2>1. CASE DirectWon
      <3>1. discovered' = discovered /\ Finish(notified)
            /\ binding_state' = IF Owns(Outbound) THEN Settled(attempt.current.endpoint, "healthy")
                                ELSE binding_state
        BY Zenon, <1>7, <2>1 DEF AttemptInstall
      <3>2. TupleTyped' /\ (binding_state.state = "healthy" => binding_state'.state # "rejected")
        BY Zenon, <1>5, <3>1 DEF Settled, TupleTyped
      <3>3. NotifiedTyped' /\ SpawnedTyped' /\ AttemptTyped'
        BY Zenon, <1>3, <3>1, FinishKeeps
      <3> QED BY Zenon, <1>2, <3>1, <3>2, <3>3, RouteUntouched DEF RouteTyped
    <2>2. CASE ~DirectWon
      <3>1. /\ discovered' = InstallDiscovered(attempt.endpoint)
            /\ attempt' = [attempt EXCEPT !.phase = "settle", !.healthy = TRUE]
            /\ UNCHANGED <<binding_state, notified, spawned>>
        BY Zenon, <1>7, <2>2 DEF AttemptInstall
      <3>2. AttemptTyped'
        BY Zenon, <1>4, <3>1 DEF AttemptTyped, Attempts
      <3>3. RouteTyped' /\ RouteKept
        BY Zenon, <1>5, <3>1, InstallKeepsDirect DEF RouteTyped, RouteKept
      <3> QED BY Zenon, <1>2, <3>1, <3>2, <3>3 DEF TupleTyped, NotifiedTyped, SpawnedTyped
    <2> QED BY Zenon, <2>1, <2>2
  <1>8. CASE AttemptSettle
    <2>1. discovered' = discovered /\ Finish(notified)
          /\ (binding_state' = Settled(attempt.endpoint, "healthy") \/ binding_state' = binding_state)
      BY Zenon, <1>8 DEF AttemptSettle
    <2>2. TupleTyped' /\ (binding_state.state = "healthy" => binding_state'.state # "rejected")
      BY <1>5, <2>1 DEF Settled, TupleTyped
    <2>3. NotifiedTyped' /\ SpawnedTyped' /\ AttemptTyped'
      BY Zenon, <1>3, <2>1, FinishKeeps
    <2> QED BY Zenon, <1>2, <2>1, <2>2, <2>3, RouteUntouched DEF RouteTyped
  <1> QED BY Zenon, <1>6, <1>7, <1>8

\* An inbound stream stands for a circuit, the LAN address or nothing (_handle_binding_stream).
LEMMA InboundEndpointTyped ==
  ASSUME DialTyped, NEW b \in Streams
  PROVE  InboundEndpoint(b) \in Endpoints \cup {None}
PROOF
  <1>1. b.endpoint \in Endpoints \cup {None} /\ b.current.endpoint \in Endpoints \cup {None}
    BY Zenon DEF Streams, Routes
  <1>2. circuit_dial \in Endpoints \cup {None}
    BY Zenon DEF DialTyped, Endpoints
  <1>3. EndpointOf(mdns_candidate_infos) \in Endpoints
    BY Zenon, EndpointTyped
  <1> QED BY Zenon, <1>1, <1>2, <1>3 DEF InboundEndpoint

\* Streams that peers open, verify and end.
LEMMA InboundKeeps ==
  ASSUME BindingInv, NEW i \in Inbounds,
         \/ \E path \in {"direct", "circuit"}, e \in Endpoints \cup {None} :
               InboundStart(i, path, e)
         \/ InboundVerified(i) \/ InboundInstall(i) \/ InboundFails(i)
  PROVE  BindingInv' /\ RouteKept
PROOF
  <1> USE DEF BindingInv
  <1>1. UNCHANGED <<host_up, generation, connections, candidate_infos, mdns_candidate_infos,
                    direct_hint_nodes, notified, circuit_dial, scheduled, spawned, attempt,
                    sending>>
    BY Zenon DEF InboundStart, InboundVerified, InboundInstall, InboundFails, hostVars,
       candidateVars
  <1>2. ASSUME RouteTyped', TupleTyped', StreamsTyped'
        PROVE  BindingInv'
    BY ZenonT(30), <1>1, <1>2 DEF GenerationTyped, ConnectionsTyped, SlotsTyped, NotifiedTyped, DialTyped,
       CallbacksTyped, SpawnedTyped, AttemptTyped, SendingTyped
  <1>3. ASSUME NEW b \in {Idle} \cup Streams, inbound' = [inbound EXCEPT ![i] = b]
        PROVE  StreamsTyped'
    BY Zenon, <1>3 DEF StreamsTyped
  <1>4. ASSUME inbound[i].phase # "idle" PROVE inbound[i] \in Streams
    BY <1>4 DEF StreamsTyped, Idle
  <1>5. ASSUME NEW path \in {"direct", "circuit"}, NEW e \in Endpoints \cup {None},
               InboundStart(i, path, e)
        PROVE  BindingInv' /\ RouteKept
    <2>1. [phase |-> "claims", path |-> path, endpoint |-> e, current |-> NoRoute] \in Streams
      BY Zenon DEF Streams, Routes, NoRoute
    <2>2. StreamsTyped'
      BY Zenon, <1>3, <1>5, <2>1 DEF InboundStart
    <2>3. TupleTyped' /\ binding_state'.state # "rejected"
      BY Zenon, <1>5 DEF InboundStart, TupleTyped
    <2>4. discovered' = discovered
      BY Zenon, <1>5 DEF InboundStart
    <2> QED BY Zenon, <1>2, <2>2, <2>3, <2>4, RouteUntouched DEF RouteTyped
  <1>6. CASE InboundVerified(i)
    <2>1. inbound[i] \in Streams
      BY Zenon, <1>4, <1>6 DEF InboundVerified
    <2>2. [inbound[i] EXCEPT !.phase = "install", !.current = discovered] \in Streams
      BY Zenon, <2>1 DEF Streams, RouteTyped
    <2>3. inbound' = [inbound EXCEPT ![i] = [inbound[i] EXCEPT !.phase = "install",
                                                              !.current = discovered]]
      BY Zenon, <1>6, <2>1 DEF InboundVerified, StreamsTyped, Streams
    <2>4. StreamsTyped'
      BY Zenon, <1>3, <2>2, <2>3
    <2>5. UNCHANGED <<discovered, binding_state>>
      BY Zenon, <1>6 DEF InboundVerified
    <2> QED BY Zenon, <1>2, <2>4, <2>5, NothingSettled DEF RouteTyped, TupleTyped
  <1>7. CASE InboundInstall(i)
    <2> DEFINE e == InboundEndpoint(inbound[i])
    <2>1. inbound[i] \in Streams
      BY Zenon, <1>4, <1>7 DEF InboundInstall
    <2>2. e \in Endpoints \cup {None}
      BY Zenon, <2>1, InboundEndpointTyped
    <2>3. /\ discovered' = IF e = None THEN discovered ELSE InstallDiscovered(e)
          /\ \/ binding_state' = Settled(IF e = None THEN None ELSE discovered'.endpoint, "healthy")
             \/ binding_state' = binding_state
          /\ inbound' = [inbound EXCEPT ![i] = Idle]
      BY Zenon, <1>7 DEF InboundInstall
    <2> HIDE DEF e
    <2>4. RouteTyped'
      BY Zenon, <2>2, <2>3, InstallKeepsDirect DEF RouteTyped
    <2>5. TupleTyped' /\ (binding_state.state = "healthy" => binding_state'.state # "rejected")
      BY <2>3, <2>4 DEF Settled, TupleTyped, RouteTyped, Routes
    <2>6. StreamsTyped'
      BY Zenon, <1>3, <2>3
    <2>7. RouteKept
      BY Zenon, <2>2, <2>3, <2>5, InstallKeepsDirect DEF RouteKept
    <2> QED BY Zenon, <1>2, <2>4, <2>5, <2>6, <2>7
  <1>8. CASE InboundFails(i)
    <2>1. inbound[i] \in Streams
      BY Zenon, <1>4, <1>8 DEF InboundFails
    <2>2. inbound[i].endpoint \in Endpoints \cup {None}
      BY Zenon, <2>1 DEF Streams
    <2>3. TupleTyped' /\ (binding_state.state = "healthy" => binding_state'.state # "rejected")
      BY Zenon, <1>8, <2>2 DEF InboundFails, Owns, Settled, TupleTyped
    <2>4. StreamsTyped'
      BY Zenon, <1>3, <1>8 DEF InboundFails
    <2>5. discovered' = discovered
      BY Zenon, <1>8 DEF InboundFails
    <2> QED BY Zenon, <1>2, <2>3, <2>4, <2>5, RouteUntouched DEF RouteTyped
  <1> QED BY Zenon, <1>5, <1>6, <1>7, <1>8

\* Deliveries over the route: a late failure marks only the endpoint it used (send,
\* mark_contact, mark_unavailable).
LEMMA DeliveryKeeps ==
  ASSUME BindingInv, SendStart \/ SendAnswered \/ SendContact \/ SendFails \/ SendFallback
  PROVE  BindingInv' /\ RouteKept
PROOF
  <1> USE DEF BindingInv
  <1>1. UNCHANGED <<host_up, generation, candidate_infos, mdns_candidate_infos,
                    direct_hint_nodes, circuit_dial, scheduled, attempt, inbound>>
    BY Zenon DEF SendStart, SendAnswered, SendContact, SendFails, SendFallback, hostVars,
       candidateVars
  <1>2. ASSUME ConnectionsTyped', RouteTyped', NotifiedTyped', TupleTyped', SpawnedTyped',
               SendingTyped'
        PROVE  BindingInv'
    BY Zenon, <1>1, <1>2 DEF GenerationTyped, SlotsTyped, DialTyped, CallbacksTyped, AttemptTyped,
       StreamsTyped
  <1>3. ASSUME sending.phase # "idle" PROVE sending \in Deliveries
    BY <1>3 DEF SendingTyped, Idle
  <1>4. CASE SendStart
    <2>1. sending' \in Deliveries
      BY Zenon, <1>4 DEF SendStart, ResolveRetained, Deliveries, RouteTyped, Routes, GenerationTyped
    <2>2. UNCHANGED <<connections, discovered, notified, binding_state, spawned>>
      BY Zenon, <1>4 DEF SendStart
    <2> QED BY Zenon, <1>2, <2>1, <2>2, NothingSettled DEF ConnectionsTyped, RouteTyped,
            NotifiedTyped, TupleTyped, SpawnedTyped, SendingTyped
  <1>5. CASE SendAnswered
    <2>1. sending' \in Deliveries
      BY Zenon, <1>3, <1>5 DEF SendAnswered, Deliveries
    <2>2. Spawn({ConnectedCandidate}) \subseteq Candidates
      BY Zenon, SlotsAreCandidates, SpawnTyped
    <2>3. ConnectionsTyped' /\ SpawnedTyped'
      BY Zenon, <1>5, <2>2 DEF SendAnswered, ConnectionsTyped, SpawnedTyped
    <2>4. UNCHANGED <<discovered, notified, binding_state>>
      BY Zenon, <1>5 DEF SendAnswered
    <2> QED BY Zenon, <1>2, <2>1, <2>3, <2>4, NothingSettled DEF RouteTyped, NotifiedTyped,
            TupleTyped, SendingTyped
  <1>6. CASE SendContact
    <2>1. UNCHANGED <<connections, notified, binding_state, spawned>> /\ sending' = Idle
      BY Zenon, <1>6 DEF SendContact
    <2>2. RouteTyped' /\ discovered'.endpoint = discovered.endpoint
          /\ (discovered.available => discovered'.available)
      BY Zenon, <1>6 DEF SendContact, MarkContact, RouteTyped, Routes
    <2>3. RouteKept
      BY Zenon, <2>1, <2>2 DEF RouteKept
    <2> QED BY Zenon, <1>2, <2>1, <2>2, <2>3 DEF ConnectionsTyped, NotifiedTyped, TupleTyped,
            SpawnedTyped, SendingTyped
  <1>7. CASE SendFails
    <2>1. UNCHANGED <<connections, notified, binding_state, spawned>>
      BY Zenon, <1>7 DEF SendFails
    <2>2. sending \in Deliveries /\ sending.phase = "io"
      BY Zenon, <1>3, <1>7 DEF SendFails
    <2>3. sending' \in Deliveries /\ sending'.phase = "failed"
      BY Zenon, <1>7, <2>2 DEF SendFails, Deliveries
    <2>4. RouteTyped' /\ discovered'.endpoint = discovered.endpoint
          /\ (discovered' # discovered => sending.endpoint = discovered.endpoint)
      BY Zenon, <1>7 DEF SendFails, MarkUnavailable, RouteTyped, Routes
    <2>5. RouteKept
      BY Zenon, <2>1, <2>2, <2>3, <2>4 DEF RouteKept
    <2> QED BY Zenon, <1>2, <2>1, <2>3, <2>4, <2>5 DEF ConnectionsTyped, NotifiedTyped, TupleTyped,
            SpawnedTyped, SendingTyped
  <1>8. CASE SendFallback
    <2>1. UNCHANGED <<connections, discovered>> /\ sending' = Idle
      BY Zenon, <1>8 DEF SendFallback
    <2>2. Spawn({candidate_infos}) \subseteq Candidates
      BY Zenon, SlotsAreCandidates, SpawnTyped
    <2>3. NotifiedTyped' /\ SpawnedTyped'
      BY Zenon, <1>8, <2>2, EndpointTyped DEF SendFallback, NotifiedTyped, SpawnedTyped
    <2>4. TupleTyped' /\ (binding_state.state = "healthy" => binding_state'.state # "rejected")
      BY <1>8 DEF SendFallback, TupleTyped, NoState, None
    <2> QED BY Zenon, <1>2, <2>1, <2>3, <2>4, RouteUntouched DEF ConnectionsTyped, RouteTyped,
            SendingTyped
  <1> QED BY Zenon, <1>4, <1>5, <1>6, <1>7, <1>8

\* Before any listener generation.
LEMMA BindingInitially ==
  ASSUME BindingInit
  PROVE  BindingInv
PROOF
  <1>1. GenerationTyped /\ ConnectionsTyped /\ SlotsTyped /\ NotifiedTyped /\ DialTyped
    <2>1. generation \in 0..MaxGenerations
      BY BindingAssumption DEF BindingInit
    <2>2. host_up = FALSE
      BY Zenon DEF BindingInit
    <2>3. GenerationTyped
      BY Zenon, <2>1, <2>2 DEF GenerationTyped
    <2>4. ConnectionsTyped /\ SlotsTyped /\ NotifiedTyped /\ DialTyped
      BY Zenon DEF BindingInit, ConnectionsTyped, SlotsTyped, NotifiedTyped, DialTyped
    <2> QED
      BY Zenon, <2>3, <2>4
  <1>2. RouteTyped
    BY Zenon DEF BindingInit, RouteTyped, Routes, NoRoute
  <1>3. TupleTyped
    BY Zenon DEF BindingInit, TupleTyped, NoState, None
  <1>4. CallbacksTyped /\ SpawnedTyped
    BY Zenon DEF BindingInit, CallbacksTyped, SpawnedTyped
  <1>5. AttemptTyped /\ SendingTyped
    BY Zenon DEF BindingInit, AttemptTyped, SendingTyped
  <1>6. StreamsTyped
    BY Zenon DEF BindingInit, StreamsTyped
  <1> QED BY Zenon, <1>1, <1>2, <1>3, <1>4, <1>5, <1>6 DEF BindingInv

\* A step of any thread keeps the invariant and the route.
LEMMA BindingStepKeeps ==
  ASSUME BindingInv, [BindingNext]_bindingVars
  PROVE  BindingInv' /\ (bindingVars' # bindingVars => RouteKept)
PROOF
  <1>1. CASE UNCHANGED bindingVars
    BY <1>1 DEF bindingVars, hostVars, candidateVars, BindingInv, GenerationTyped,
       ConnectionsTyped, RouteTyped, SlotsTyped, NotifiedTyped, TupleTyped, DialTyped,
       CallbacksTyped, SpawnedTyped, AttemptTyped, StreamsTyped, SendingTyped
  <1>2. CASE BindingEnvironment
    BY Zenon, <1>2, DiscoveryKeeps, ConnectionsKeep, InboundKeeps, DeliveryKeeps, HostStepsKeep
       DEF BindingEnvironment
  <1>3. CASE AttemptStep
    BY Zenon, <1>3, DiallingKeeps, FailingKeeps, InstallingKeeps DEF AttemptStep
  <1>4. CASE BindingWork
    BY Zenon, <1>3, <1>4, HostStepsKeep, ScheduledKeeps, DiallingKeeps, InboundKeeps,
       DeliveryKeeps DEF BindingWork
  <1> QED BY Zenon, <1>1, <1>2, <1>4 DEF BindingNext

\* Candidates, the tuple, the route and what is scheduled or spawned keep their types,
\* whichever threads of transport.py interleave.
THEOREM BindingTypeCorrect == BindingSpec => []BindingTypeOK
PROOF
  <1>1. BindingInit => BindingInv
    BY Zenon, BindingInitially
  <1>2. BindingInv /\ [BindingNext]_bindingVars => BindingInv'
    BY Zenon, BindingStepKeeps
  <1>3. BindingInv => BindingTypeOK
    BY Zenon DEF BindingInv, GenerationTyped, ConnectionsTyped, RouteTyped, Routes, SlotsTyped,
       NotifiedTyped, TupleTyped, DialTyped, CallbacksTyped, Callbacks, SpawnedTyped,
       BindingTypeOK
  <1> QED BY <1>1, <1>2, <1>3, PTL DEF BindingSpec

\* A route gets worse only for a cause (RouteLostForCause), for any relays, announcements,
\* hints and inbound streams: install_discovered, mark_unavailable and the ownership of the
\* binding tuple in transport.py.
THEOREM RouteIsKept == BindingSpec => RouteLostForCause
PROOF
  <1>1. BindingInit => BindingInv
    BY Zenon, BindingInitially
  <1>2. BindingInv /\ [BindingNext]_bindingVars => BindingInv'
    BY Zenon, BindingStepKeeps
  <1>3. BindingInv /\ [BindingNext]_bindingVars => [RouteKept]_bindingVars
    BY Zenon, BindingStepKeeps
  <1>4. BindingSpec => [][RouteKept]_bindingVars
    BY <1>1, <1>2, <1>3, PTL DEF BindingSpec
  <1> QED BY <1>4, PTL DEF RouteLostForCause, RouteKept

=============================================================================
