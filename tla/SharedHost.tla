----------------------------- MODULE SharedHost -----------------------------
(***************************************************************************)
(* One installation shared by several Unix users.  The administrator       *)
(* creates the host context, registers users and activates runtime         *)
(* generations; every user joins with an own store, installs an own daemon *)
(* service and may stop or restart it at any time.  Activation switches    *)
(* one link and then restarts the daemons one by one, over commands that   *)
(* can fail; a failure switches back and restarts what was restarted.      *)
(* Administrator commands exclude each other with a file lock and can be   *)
(* killed at any step.                                                     *)
(***************************************************************************)
EXTENDS Integers, Sequences, FiniteSets, Functions

CONSTANTS
    UserOrder,         \* the users, in the registry's order
    Account,           \* secret accounts with an owner row in a user's store
    Runtimes,          \* runtime generations that _generation_path accepts
    Admin,             \* concurrent administrator commands
    MaxHostEvents      \* bound on failures, kills and what users do

ASSUME HostAssumption ==
    /\ UserOrder \in Seq(Range(UserOrder))
    /\ "down" \notin Runtimes /\ "nothing" \notin Runtimes /\ "free" \notin Admin

VARIABLES
    hostFile,          \* config/host.json exists
    store,             \* store[u]: membership, owner scopes, principals
    joining,           \* joining[u]: join commands that have read and not written
    service,           \* users whose service definition uses the shared launcher
    running,           \* running[u]: the generation u's daemon runs
    users,             \* config/users.json
    current,           \* runtime/current
    admin,             \* admin[p]: one administrator command
    hostLock,          \* holder of config/.users.lock
    notByAdmin,        \* daemons that ran the candidate before the switch, or that
                       \* their users started since, and the command did not reach
    hostEvents

sharedHostVars == <<hostFile, store, joining, service, running, users, current, admin, hostLock,
              notByAdmin, hostEvents>>

HostUser == Range(UserOrder)
Down == "down"
NoRuntime == "nothing"
NoAdmin == [pc |-> "idle", gen |-> NoRuntime, previous |-> NoRuntime,
            todo |-> {}, completed |-> {}, failures |-> {}, outcome |-> "none"]

\* The registry is sorted and every loop goes through it in that order.
FirstOf(S) ==
    UserOrder[CHOOSE i \in DOMAIN UserOrder :
                  UserOrder[i] \in S /\ \A j \in DOMAIN UserOrder : j < i => UserOrder[j] \notin S]

HostEvent == hostEvents < MaxHostEvents /\ hostEvents' = hostEvents + 1
NoHostEvent == UNCHANGED hostEvents
AdminFree == hostLock = "free"

---------------------------------------------------------------------------
\* create_host_context: the file is created once and never replaced.
CreateHost ==
    /\ ~hostFile /\ hostFile' = TRUE
    /\ NoHostEvent
    /\ UNCHANGED <<store, joining, service, running, users, current, admin, hostLock, notByAdmin>>

\* join_host_context reads the membership row outside its transaction.
JoinReads(u) ==
    /\ hostFile /\ ~store[u].member /\ joining[u] < 2
    /\ joining' = [joining EXCEPT ![u] = @ + 1]
    /\ NoHostEvent
    /\ UNCHANGED <<hostFile, store, service, running, users, current, admin, hostLock, notByAdmin>>

\* Its transaction moves the standalone owners, adds the principal and the
\* membership row; a second row under the same key fails and rolls all back.
JoinTransaction(u) ==
    /\ joining[u] > 0 /\ joining' = [joining EXCEPT ![u] = @ - 1]
    /\ store' = IF store[u].member THEN store
                ELSE [store EXCEPT ![u] = [member |-> TRUE, principals |-> @.principals + 1,
                        scope |-> [a \in Account |-> IF @.scope[a] = "local" THEN "host"
                                                     ELSE @.scope[a]]]]
    /\ NoHostEvent
    /\ UNCHANGED <<hostFile, service, running, users, current, admin, hostLock, notByAdmin>>

\* local_host_scope, read in the transaction that adds the owner.
OwnerScope(u) == IF store[u].member THEN "host" ELSE "local"

\* _ensure_local_projection_parents, in the transaction of a secret write.
WriteAccount(u, a) ==
    /\ store[u].scope[a] = "none"
    /\ store' = [store EXCEPT ![u].scope[a] = OwnerScope(u)]
    /\ NoHostEvent
    /\ UNCHANGED <<hostFile, joining, service, running, users, current, admin, hostLock, notByAdmin>>

---------------------------------------------------------------------------
\* What users do with their own daemon.

\* The launcher runs whatever runtime/current names.
Launched == IF current = NoRuntime THEN Down ELSE current

InstallUserService(u) ==
    /\ u \notin service /\ current # NoRuntime
    /\ service' = service \cup {u}
    /\ running' = [running EXCEPT ![u] = Launched]
    /\ notByAdmin' = notByAdmin \cup {u}
    /\ NoHostEvent
    /\ UNCHANGED <<hostFile, store, joining, users, current, admin, hostLock>>

UserActs(u) ==
    /\ u \in service /\ HostEvent
    /\ \/ /\ running' = [running EXCEPT ![u] = Launched]
          /\ notByAdmin' = notByAdmin \cup {u} /\ UNCHANGED service
       \/ /\ running' = [running EXCEPT ![u] = Down] /\ running[u] # Down
          /\ UNCHANGED <<service, notByAdmin>>
       \/ /\ service' = service \ {u} /\ running' = [running EXCEPT ![u] = Down]
          /\ UNCHANGED notByAdmin
    /\ UNCHANGED <<hostFile, store, joining, users, current, admin, hostLock>>

---------------------------------------------------------------------------
\* register_shared_user.

\* _user_membership, read from the user's own store.
UserMembership(u) == store[u].member

\* _service_uses_shared_launcher.
UsesSharedLauncher(u) == u \in service

\* What must hold of a user to be registered, and to be upgraded.
UserReady(u) == UserMembership(u) /\ UsesSharedLauncher(u)

\* _write_users: the registry file is replaced in one rename.
WriteUsers(names) == users' = names

RegisterUser(u) ==
    /\ hostFile /\ AdminFree /\ UserReady(u) /\ u \notin users
    /\ WriteUsers(users \cup {u})
    /\ NoHostEvent
    /\ UNCHANGED <<hostFile, store, joining, service, running, current, admin, hostLock, notByAdmin>>

---------------------------------------------------------------------------
\* activate_shared_generation.

EndActivation(p, outcome) ==
    /\ admin' = [admin EXCEPT ![p].pc = "idle", ![p].outcome = outcome]
    /\ hostLock' = "free"

\* Everything that is checked before the switch; a check that fails changes
\* nothing.
BeginActivation(p, g) ==
    /\ admin[p] = NoAdmin /\ AdminFree
    /\ hostFile /\ \A u \in users : UserReady(u)
    /\ IF g = current
       THEN admin' = [admin EXCEPT ![p] = [NoAdmin EXCEPT !.gen = g, !.outcome = "unchanged"]]
            /\ UNCHANGED hostLock
       ELSE /\ admin' = [admin EXCEPT ![p] = [NoAdmin EXCEPT !.pc = "switch", !.gen = g,
                                                             !.previous = current]]
            /\ hostLock' = p
    /\ NoHostEvent
    /\ UNCHANGED <<hostFile, store, joining, service, running, users, current, notByAdmin>>

\* _switch_current.
SwitchCurrent(p) ==
    /\ admin[p].pc = "switch"
    /\ current' = admin[p].gen
    /\ notByAdmin' = {u \in HostUser : running[u] = admin[p].gen}
    /\ admin' = [admin EXCEPT ![p].pc = "restart", ![p].todo = users]
    /\ NoHostEvent
    /\ UNCHANGED <<hostFile, store, joining, service, running, users, hostLock>>

\* "daemon restart" as the user: it works, or fails at any point.
RestartDaemon(p) ==
    /\ admin[p].pc = "restart" /\ admin[p].todo # {}
    /\ LET u == FirstOf(admin[p].todo)
       IN \/ /\ running' = [running EXCEPT ![u] = Launched]
             /\ admin' = [admin EXCEPT ![p].pc = "verify"] /\ NoHostEvent
          \/ /\ running' \in {running, [running EXCEPT ![u] = Down], [running EXCEPT ![u] = Launched]}
             /\ admin' = [admin EXCEPT ![p].pc = "rollback"] /\ HostEvent
    /\ notByAdmin' = notByAdmin \ {FirstOf(admin[p].todo)}
    /\ UNCHANGED <<hostFile, store, joining, service, users, current, hostLock>>

\* "service status" and "--version" as the user: they fail when the daemon is
\* down, and may fail or take too long when it runs.
VerifyDaemon(p) ==
    /\ admin[p].pc = "verify"
    /\ LET u == FirstOf(admin[p].todo)
       IN \/ /\ running[u] # Down /\ NoHostEvent
             /\ admin' = [admin EXCEPT ![p].pc = "restart", ![p].todo = @ \ {u},
                                       ![p].completed = @ \cup {u}]
          \/ /\ IF running[u] = Down THEN NoHostEvent ELSE HostEvent
             /\ admin' = [admin EXCEPT ![p].pc = "rollback"]
    /\ UNCHANGED <<hostFile, store, joining, service, running, users, current, hostLock, notByAdmin>>

FinishActivation(p) ==
    /\ admin[p].pc = "restart" /\ admin[p].todo = {}
    /\ EndActivation(p, "changed")
    /\ NoHostEvent
    /\ UNCHANGED <<hostFile, store, joining, service, running, users, current, notByAdmin>>

\* Mutant of RollBack: only the users already verified are restarted again.
RollsBackCompleted(p) ==
    /\ admin[p].pc = "rollback"
    /\ current' = admin[p].previous
    /\ admin' = [admin EXCEPT ![p].pc = "restore", ![p].todo = admin[p].completed]
    /\ NoHostEvent
    /\ UNCHANGED <<hostFile, store, joining, service, running, users, hostLock, notByAdmin>>

\* The link first, then the completed users and the one that failed.
RollBack(p) ==
    /\ admin[p].pc = "rollback"
    /\ current' = admin[p].previous
    /\ admin' = [admin EXCEPT ![p].pc = "restore",
                              ![p].todo = admin[p].completed \cup {FirstOf(admin[p].todo)}]
    /\ NoHostEvent
    /\ UNCHANGED <<hostFile, store, joining, service, running, users, hostLock, notByAdmin>>

RestoreDaemon(p) ==
    /\ admin[p].pc = "restore" /\ admin[p].todo # {}
    /\ LET u == FirstOf(admin[p].todo)
           next == [admin EXCEPT ![p].todo = @ \ {u}]
           failed == [next EXCEPT ![p].failures = @ \cup {u}]
       IN \/ /\ Launched # Down /\ running' = [running EXCEPT ![u] = Launched]
             /\ admin' = next /\ NoHostEvent
          \/ /\ Launched = Down /\ running' \in {running, [running EXCEPT ![u] = Down]}
             /\ admin' = failed /\ NoHostEvent
          \/ /\ running' \in {running, [running EXCEPT ![u] = Down]}
             /\ admin' = failed /\ HostEvent
    /\ notByAdmin' = notByAdmin \ {FirstOf(admin[p].todo)}
    /\ UNCHANGED <<hostFile, store, joining, service, users, current, hostLock>>

FinishRollback(p) ==
    /\ admin[p].pc = "restore" /\ admin[p].todo = {}
    /\ EndActivation(p, "restored")
    /\ NoHostEvent
    /\ UNCHANGED <<hostFile, store, joining, service, running, users, current, notByAdmin>>

\* The command is killed; the lock goes with its process.
KillActivation(p) ==
    /\ admin[p].pc # "idle" /\ HostEvent
    /\ EndActivation(p, "killed")
    /\ UNCHANGED <<hostFile, store, joining, service, running, users, current, notByAdmin>>

---------------------------------------------------------------------------
HostInit ==
    /\ hostFile = FALSE
    /\ store = [u \in HostUser |-> [member |-> FALSE, principals |-> 0,
                                    scope |-> [a \in Account |-> "none"]]]
    /\ joining = [u \in HostUser |-> 0]
    /\ service = {} /\ users = {}
    /\ running = [u \in HostUser |-> Down]
    /\ current = NoRuntime
    /\ admin = [p \in Admin |-> NoAdmin]
    /\ hostLock = "free" /\ notByAdmin = {} /\ hostEvents = 0

HostNext ==
    \/ CreateHost
    \/ \E u \in HostUser :
        \/ JoinReads(u) \/ JoinTransaction(u)
        \/ \E a \in Account : WriteAccount(u, a)
        \/ InstallUserService(u) \/ UserActs(u) \/ RegisterUser(u)
    \/ \E p \in Admin :
        \/ \E g \in Runtimes : BeginActivation(p, g)
        \/ SwitchCurrent(p) \/ RestartDaemon(p) \/ VerifyDaemon(p) \/ FinishActivation(p)
        \/ RollBack(p) \/ RestoreDaemon(p) \/ FinishRollback(p) \/ KillActivation(p)

HostSpec == HostInit /\ [][HostNext]_sharedHostVars

---------------------------------------------------------------------------
\* The variables keep their types, and the lock is held by exactly the
\* command that is in the middle of an activation.
HostTypeOK ==
    /\ running \in [HostUser -> Runtimes \cup {Down}]
    /\ current \in Runtimes \cup {NoRuntime} /\ users \subseteq HostUser
    /\ \A p \in Admin : (admin[p].pc # "idle") <=> (hostLock = p)

\* Only users who joined this host are registered, in whatever order they
\* join, install and remove their service and are registered.
\* (register_shared_user: "Register a user only after explicit join and
\* managed service install.")
RegisteredHaveJoined == \A u \in users : store[u].member

\* Whatever writes and second joins overlap with a join, a joined store has
\* one principal and no local account left in the standalone scope.
\* (join_host_context, _ensure_local_projection_parents)
JoinedStoreInScope ==
    \A u \in HostUser : store[u].member =>
        store[u].principals = 1 /\ \A a \in Account : store[u].scope[a] # "local"

\* An activation is all or nothing, as it reports.  One that reports the change
\* left every registered daemon on the new generation, or stopped by its user;
\* one that reports the previous code restored left on the candidate only daemons
\* it names as restart failures, and daemons it did not reach that ran it before
\* the switch or that their users started meanwhile.  (activate_shared_generation:
\* "previous code restored; rollback restart failures")
ActivationAllOrNothing ==
    [][\A p \in Admin :
         /\ admin'[p].outcome = "changed" /\ admin[p].outcome # "changed" =>
              /\ current = admin[p].gen
              /\ \A u \in users : running[u] \in {admin[p].gen, Down}
         /\ admin'[p].outcome = "restored" /\ admin[p].outcome # "restored" =>
              /\ current = admin[p].previous
              /\ \A u \in users \ (admin[p].failures \cup notByAdmin) :
                     running[u] # admin[p].gen]_sharedHostVars

=============================================================================
