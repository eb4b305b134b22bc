-------------------------- MODULE MCDaemonDelivery --------------------------
(***************************************************************************)
(* Instances of DaemonDelivery for TLC.  Without a daemon restart there is *)
(* one worker process at a time, so that the second worker is started only *)
(* after one: which of two idle workers runs makes no difference.          *)
(***************************************************************************)
EXTENDS DaemonDelivery

CONSTANTS w1, w2, p1, p2

OneSecret  == <<"secret">>
TwoSecrets == <<"secret", "secret">>
AllGranted == [p \in Peers |-> Transactions]

SecondAfterRestart == process' = w2 => restarts' > 0

\* Bounds: no worker outlives its daemon, and one of a killed worker, a lost
\* wake, a daemon restart and a route that returns; with a second peer, which
\* is not revoked, none of the first three, and a single transaction.
SchedulerBound ==
  /\ ~ orphaned'
  /\ crashes' + lost' + restarts' + returns' <= 1
  /\ registry'[p2] = "active" => crashes' + lost' + restarts' = 0 /\ created' <= 1
  /\ lock'[p2] # "operator"

SchedulerSpec == DaemonInit /\ [][DaemonNext /\ SchedulerBound]_daemonVars

\* Bounds: a restart, or two transactions and a route that returns.  They limit
\* the actions that no fairness is assumed of.
LivenessBound ==
  /\ SecondAfterRestart
  /\ restarts' > 0 => returns' = 0 /\ created' <= 1

SchedulerFairSpec == DaemonInit /\ [][DaemonNext /\ LivenessBound]_daemonVars /\ Fairness

=============================================================================
