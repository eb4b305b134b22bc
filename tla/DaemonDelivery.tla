--------------------------- MODULE DaemonDelivery ---------------------------
(***************************************************************************)
(* The daemon's outbound scheduler (_OutboundRuntimeScheduler in           *)
(* daemon/server.py) driving the delivery workers of OutboundDelivery, and *)
(* the best-effort wake the CLI sends after a command that committed work. *)
(* The scheduler never reads the database: all it knows is a wake flag,    *)
(* the peers whose route came back, and the deadline its last worker       *)
(* printed.  Whether work is ever left behind is therefore a question      *)
(* about both components together.                                         *)
(***************************************************************************)
EXTENDS OutboundDelivery

CONSTANTS
  MaxLostWakes,  \* bound: wakes that never reach the daemon
  MaxRestarts    \* bound: daemon restarts

ASSUME SchedulerAssumption ==
  /\ MaxLostWakes \in Nat
  /\ MaxRestarts \in Nat
  /\ "none" \notin Workers

VARIABLES
  process,        \* _worker: the worker process it started, or "none"
  argv,           \* --recovered-peer arguments of that process
  report,         \* "spawned", "running", or how it ended
  wakeRequested,  \* _wake_requested
  recoveredPeers, \* _recovered_peer_ids
  nextRun,        \* _next_run: "inf", "waiting" or "due"
  announce,       \* a CLI command committed and has not sent its wake yet
  returns, lost, restarts,
  orphaned        \* history: a worker went on after its daemon was killed

pass      == <<process, argv, report>>
flags     == <<wakeRequested, recoveredPeers, nextRun>>
counts    == <<returns, lost, restarts, orphaned>>
scheduler == <<pass, flags, announce, counts>>
daemonVars == <<vars, scheduler>>

-----------------------------------------------------------------------------
\* A CLI command commits and then sends delivery-wake (cli/main.py).  Endpoint
\* transactions are written by the daemon's own startup, before it schedules.
Command ==
  /\ \/ \E propagate \in BOOLEAN :
          /\ created < LastTransaction
          /\ Kind[created + 1] = "secret"
          /\ SubmitTransaction(propagate)
     \/ \E t \in Transactions : AuthorizeExisting(t)
     \/ \E p \in Peers : AcceptPeer(p)
  /\ announce' = TRUE
  /\ UNCHANGED <<pass, flags, counts>>

\* Mutant of Wake: a wake that arrives during a pass is dropped
WakeIfIdle ==
  /\ announce
  /\ announce' = FALSE
  /\ wakeRequested' = (wakeRequested \/ process = "none")
  /\ UNCHANGED <<vars, pass, recoveredPeers, nextRun, counts>>

\* The daemon handles delivery-wake
Wake ==
  /\ announce
  /\ announce' = FALSE
  /\ wakeRequested' = TRUE
  /\ UNCHANGED <<vars, pass, recoveredPeers, nextRun, counts>>

\* The request fails: the exception is swallowed
LoseWake ==
  /\ announce
  /\ lost < MaxLostWakes
  /\ lost' = lost + 1
  /\ announce' = FALSE
  /\ UNCHANGED <<vars, pass, flags, returns, restarts, orphaned>>

\* Mutant of RouteInstalled: the peer is noted without a wake
RouteNoted(p) ==
  /\ returns < MaxResumes
  /\ returns' = returns + 1
  /\ recoveredPeers' = recoveredPeers \cup {p}
  /\ UNCHANGED <<vars, pass, wakeRequested, nextRun, announce, lost, restarts,
                 orphaned>>

\* observe() of a route_installed event
RouteInstalled(p) ==
  /\ returns < MaxResumes
  /\ returns' = returns + 1
  /\ recoveredPeers' = recoveredPeers \cup {p}
  /\ wakeRequested' = TRUE
  /\ UNCHANGED <<vars, pass, nextRun, announce, lost, restarts, orphaned>>

\* Mutant of CollectedRun: the printed deadline is dropped
CollectedForever == IF process = "none" THEN nextRun ELSE "inf"

\* _next_run after the last worker has been collected
CollectedRun ==
  IF process = "none" THEN nextRun
  ELSE IF report = "deadline" THEN "waiting" ELSE "inf"

Poll ==
  /\ report \notin {"spawned", "running"}
  /\ IF wakeRequested \/ CollectedRun = "due"
     THEN /\ \E w \in Workers : pc[w] = "idle" /\ process' = w
          /\ argv' = recoveredPeers
          /\ report' = "spawned"
          /\ recoveredPeers' = {}
          /\ wakeRequested' = FALSE
          /\ nextRun' = "inf"
     ELSE /\ process' = "none"
          /\ argv' = {}
          /\ report' = "none"
          /\ nextRun' = CollectedRun
          /\ UNCHANGED <<recoveredPeers, wakeRequested>>
  /\ UNCHANGED <<vars, announce, counts>>

TimerDue ==
  /\ nextRun = "waiting"
  /\ nextRun' = "due"
  /\ UNCHANGED <<vars, pass, wakeRequested, recoveredPeers, announce, counts>>

-----------------------------------------------------------------------------
\* The process comes up and resumes the peers it was started for
StartPass(w) ==
  /\ process = w
  /\ report = "spawned"
  /\ BeginPass(w, argv)
  /\ argv' = {}
  /\ report' = "running"
  /\ UNCHANGED <<process, flags, announce, counts>>

\* Mutant of NextOutboundAttempt: claims have no deadline
NextRetryAttempt ==
  \E e \in Envelopes :
    /\ state[e] = "retry_pending" /\ next[e] # "null"
    /\ \A t \in Transactions : ~ Parked(<<t, e[2]>>)

\* Mutant of NextOutboundAttempt: a parked row of any peer silences the rest
NextUnlessParked ==
  \E e \in Envelopes :
    /\ \/ state[e] = "retry_pending" /\ next[e] # "null"
       \/ state[e] \in InFlight
    /\ ~ \E f \in Envelopes : Parked(f)

\* next_outbound_attempt_at is not NULL: some peer that is not parked has a
\* row waiting for a deadline or in flight
NextOutboundAttempt ==
  \E e \in Envelopes :
    /\ \/ state[e] = "retry_pending" /\ next[e] # "null"
       \/ state[e] \in InFlight
    /\ \A t \in Transactions : ~ Parked(<<t, e[2]>>)

\* The pass is over; the process prints its schedule and exits
FinishPass(w) ==
  /\ EndPass(w)
  /\ report' = IF process # w THEN report
               ELSE IF NextOutboundAttempt THEN "deadline" ELSE "nothing"
  /\ UNCHANGED <<process, argv, flags, announce, counts>>

\* The process exits with an error or is killed
FailPass(w) ==
  /\ Crash(w)
  /\ report' = IF process = w THEN "failed" ELSE report
  /\ UNCHANGED <<process, argv, flags, announce, counts>>

\* The process fails before it resumed anybody: its arguments are gone
FailStart ==
  /\ report = "spawned"
  /\ crashes < MaxCrashes
  /\ crashes' = crashes + 1
  /\ report' = "failed"
  /\ argv' = {}
  /\ UNCHANGED <<registry, created, rows, worker, late, lock, received, spent,
                 resumes, process, flags, announce, counts>>

\* The daemon is killed and started again.  Its memory and its requests are
\* gone, a running worker goes on without it, and the first pass is due after
\* OUTBOUND_RUNTIME_STARTUP_GRACE_SECONDS.
DaemonRestart ==
  /\ restarts < MaxRestarts
  /\ restarts' = restarts + 1
  /\ orphaned' = (orphaned \/ \E w \in Workers : pc[w] # "idle")
  /\ route' = [w \in Workers |-> IF route[w] = "queued" THEN "error" ELSE route[w]]
  /\ late' = {}
  /\ process' = "none"
  /\ argv' = {}
  /\ report' = "none"
  /\ wakeRequested' = FALSE
  /\ recoveredPeers' = {}
  /\ nextRun' = "waiting"
  /\ UNCHANGED <<registry, created, rows, pc, todo, failed, cur, seen, lock,
                 received, bounds, announce, returns, lost>>

-----------------------------------------------------------------------------
DaemonInit ==
  /\ Init
  /\ process = "none"
  /\ argv = {}
  /\ report = "none"
  /\ wakeRequested = FALSE
  /\ recoveredPeers = {}
  /\ nextRun = "waiting"
  /\ announce = FALSE
  /\ returns = 0
  /\ lost = 0
  /\ restarts = 0
  /\ orphaned = FALSE

Unscheduled ==
  \/ \E p \in Peers : Revocation(p)
  \/ \E w \in Workers : RowStep(w)
  \/ Environment

DaemonNext ==
  \/ Command
  \/ Wake
  \/ LoseWake
  \/ \E p \in Peers : RouteInstalled(p)
  \/ Poll
  \/ TimerDue
  \/ \E w \in Workers : StartPass(w) \/ FinishPass(w) \/ FailPass(w)
  \/ FailStart
  \/ DaemonRestart
  \/ Unscheduled /\ UNCHANGED scheduler

DaemonSpec == DaemonInit /\ [][DaemonNext]_daemonVars

\* What a worker process does by itself, from its start to its exit
WorkerStep(w) == StartPass(w) \/ (RowStep(w) /\ UNCHANGED scheduler) \/ FinishPass(w)

\* The daemon polls at least every 0.2 s and its timer fires, the CLI gets to
\* its wake, processes are scheduled, a request is answered, a blocked flock
\* is granted in the end, a revocation that holds the lock finishes, and
\* deadlines pass.  Nothing obliges anybody to enter another command.
Fairness ==
  /\ WF_daemonVars(Wake)
  /\ WF_daemonVars(Poll \/ TimerDue)
  /\ \A w \in Workers :
       /\ WF_daemonVars(WorkerStep(w))
       /\ SF_daemonVars(AcquirePeerLock(w) /\ UNCHANGED scheduler)
       /\ WF_daemonVars(ForwardRoute(w) /\ UNCHANGED scheduler)
  /\ \A p \in Peers :
       WF_daemonVars((RevokePeer(p) \/ RevokeRefused(p) \/ RetryDue(p)) /\ UNCHANGED scheduler)
  /\ \A e \in Envelopes : WF_daemonVars(LeaseExpires(e) /\ UNCHANGED scheduler)

FairSpec == DaemonSpec /\ Fairness

-----------------------------------------------------------------------------
SchedulerTypeOK ==
  /\ TypeOK
  /\ process \in Workers \cup {"none"}
  /\ argv \subseteq Peers
  /\ report \in {"none", "spawned", "running", "deadline", "nothing", "failed"}
  /\ wakeRequested \in BOOLEAN
  /\ recoveredPeers \subseteq Peers
  /\ nextRun \in {"inf", "waiting", "due"}
  /\ announce \in BOOLEAN
  /\ returns \in 0..MaxResumes
  /\ lost \in 0..MaxLostWakes
  /\ restarts \in 0..MaxRestarts
  /\ orphaned \in BOOLEAN

ParkedPeer(p) == \E t \in Transactions : Parked(<<t, p>>)

\* The scheduler goes to sleep without a timer only when every row that is not
\* settled belongs to a parked peer: a row committed while a pass was already
\* past its listing is not forgotten.  It may be when a wake was lost, when a
\* worker failed, or when a worker of a killed daemon went on beside the new
\* one and unparked a peer that the new one had reported as parked.
SleepsOnlyWhenDone ==
  /\ crashes = 0 /\ lost = 0 /\ ~ orphaned
  /\ process = "none" /\ nextRun = "inf"
  /\ ~ wakeRequested /\ ~ announce
  => \A e \in Envelopes : state[e] \in Live => ParkedPeer(e[2])

\* Every queued row is eventually sent, denied, or kept for a parked peer, also
\* when a worker of a killed daemon goes on, unless there are other rows that
\* such a worker may unpark.
EveryRowSettles ==
  \A e \in Envelopes :
    state[e] \in Live ~>
      \/ state[e] \in {"sent", "authorization_denied"}
      \/ ParkedPeer(e[2])
      \/ orphaned /\ created > 1

\* A route that returns wakes the parked work of its peer, also when a pass
\* parks that work while the event arrives, unless the daemon itself goes down:
\* the peers it was told of are in its memory only.
RouteReturnResumes ==
  \A p \in Peers : p \in recoveredPeers ~> ~ ParkedPeer(p) \/ restarts > 0

\* "schedule interrupted delivery recovery at claim expiry": a claim no worker
\* owns any more is eventually taken back.
InterruptedClaimRecovered ==
  \A e \in Envelopes :
    (state[e] \in InFlight /\ \A w \in Workers : cur[w] # e)
      ~> (state[e] \notin InFlight \/ \E w \in Workers : cur[w] = e)

=============================================================================
