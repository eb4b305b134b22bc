---------------------------- MODULE RelaySessions ----------------------------
(***************************************************************************)
(* Relay (RSS) sessions of the daemon's libp2p host: the authentication    *)
(* rounds of daemon/transport.py, from _start_relay_services at the start  *)
(* of a host scope through the maintenance rounds of _maintain_host_scope  *)
(* to _retire_host_scope.                                                  *)
(*                                                                         *)
(* Every round authenticates all configured relays at once under one       *)
(* deadline.  The first relay is the enrollment primary: only it may use   *)
(* the one-use enrollment token, over HTTPS, in a thread that no           *)
(* cancellation interrupts.  The token file goes when the primary has      *)
(* authenticated.  RSS itself is external: it may answer, refuse, answer   *)
(* late or lose an answer after acting on it.                              *)
(***************************************************************************)
EXTENDS Integers, FiniteSets

CONSTANTS Relay, Primary,   \* the configured relays, and the first of them
          MaxRounds,        \* bound on authentication rounds
          MaxScopes         \* bound on host scopes (address changes, restarts)

ASSUME RelayAssumption == Primary \in Relay /\ IsFiniteSet(Relay)

VARIABLES relay_phase,      \* "down", "round", "reserve" or "idle"
          relay_state,      \* _relay_endpoint_states
          relay_task,       \* authenticate_one of each relay
          deadline_passed,  \* the round's scope is cancelled
          control_streams,  \* _relay_control_streams
          reservations,     \* relays whose reservation is active
          route_responses, timed_out, queued,
          authenticated, returned_token,     \* locals of the round
          relay_connected,  \* _relay_connected
          relay_auth,       \* self._relay_auth holds a token file
          refresh,          \* _relay_auth_refresh: the credentials hold one
          token_file,       \* the token file exists
          enrolled,         \* external: the operator has enrolled the device
          projected,        \* external: relays that know the enrollment
          rounds, scopes

roundVars == <<relay_phase, relay_state, relay_task, deadline_passed, timed_out,
               authenticated, returned_token>>
routeVars == <<control_streams, reservations, route_responses, queued, relay_connected>>
tokenVars == <<relay_auth, refresh, token_file>>
serverVars == <<enrolled, projected>>
relayVars == <<roundVars, routeVars, tokenVars, serverVars, rounds, scopes>>

TaskStates == {"none", "connect", "enroll", "again", "done"}
RelayStates == {"", "checking", "authenticated", "failed"}

Known(r) == IF r = Primary THEN enrolled ELSE r \in projected

-----------------------------------------------------------------------------
(* The start of a host scope.  self._relay_auth is loaded once, by start(); *)
(* a later scope of the same process uses it again.                         *)

BeginRound ==
    /\ rounds < MaxRounds
    /\ rounds' = rounds + 1
    /\ relay_phase' = "round"
    /\ relay_state' = [r \in Relay |-> "checking"]
    /\ relay_task' = [r \in Relay |-> "connect"]
    /\ deadline_passed' = FALSE
    /\ timed_out' = {} /\ authenticated' = 0
    /\ route_responses' = {}

HostScopeStarts ==
    /\ relay_phase = "down" /\ scopes < MaxScopes
    /\ scopes' = scopes + 1
    /\ refresh' = relay_auth
    /\ returned_token' = relay_auth
    /\ BeginRound
    /\ UNCHANGED <<control_streams, reservations, queued, relay_connected,
                   relay_auth, token_file, serverVars>>

\* The maintenance interval elapsed: a round with the refresh credentials.
Maintain ==
    /\ relay_phase = "idle"
    /\ returned_token' = refresh
    /\ BeginRound
    /\ UNCHANGED <<control_streams, reservations, queued, relay_connected,
                   tokenVars, serverVars, scopes>>

\* A restarted daemon loads its credentials from the profile again.
ProcessRestarts ==
    /\ relay_phase = "down" /\ scopes < MaxScopes
    /\ relay_auth' = token_file
    /\ UNCHANGED <<roundVars, routeVars, refresh, token_file, serverVars, rounds, scopes>>

-----------------------------------------------------------------------------
(* authenticate_one and _authenticate_rss_relay.                            *)

SessionRunning(r) == relay_phase = "round" /\ relay_task[r] \in {"connect", "again"}
RelayEnds(r) == relay_task' = [relay_task EXCEPT ![r] = "done"]

\* The token the round's credentials name is cleared by the primary alone; a
\* token file that is gone makes clear_consumed_rss_enrollment_token fail.
ClearsToken(r) == r = Primary /\ refresh

\* A ready session: the control stream is kept, the routes are noted, and the
\* result is sent to the round unless its deadline has passed meanwhile.
SessionReady(r) ==
    /\ SessionRunning(r) /\ Known(r)
    /\ RelayEnds(r)
    /\ control_streams' = control_streams \cup {r}
    /\ route_responses' = route_responses \cup {r}
    /\ IF ClearsToken(r) /\ ~token_file
         THEN /\ relay_state' = [relay_state EXCEPT ![r] = "failed"]
              /\ UNCHANGED <<token_file, authenticated, returned_token>>
         ELSE /\ relay_state' = [relay_state EXCEPT ![r] = "authenticated"]
              /\ token_file' = (token_file /\ ~ClearsToken(r))
              /\ authenticated' = IF deadline_passed THEN authenticated ELSE authenticated + 1
              /\ returned_token' = (returned_token /\ (deadline_passed \/ ~ClearsToken(r)))
    /\ UNCHANGED <<relay_phase, deadline_passed, timed_out, reservations, queued,
                   relay_connected, relay_auth, refresh, serverVars, rounds, scopes>>

\* An answer that refuses, an error, or the exchange's own timeout.
SessionFails(r, slow) ==
    /\ SessionRunning(r) /\ ~deadline_passed
    /\ RelayEnds(r)
    /\ relay_state' = [relay_state EXCEPT ![r] = "failed"]
    /\ timed_out' = IF slow THEN timed_out \cup {r} ELSE timed_out
    /\ \/ UNCHANGED control_streams
       \/ slow /\ Known(r) /\ control_streams' = control_streams \cup {r}
    /\ UNCHANGED <<relay_phase, deadline_passed, authenticated, returned_token,
                   reservations, route_responses, queued, relay_connected,
                   tokenVars, serverVars, rounds, scopes>>

\* "enrollment_required" starts the HTTPS enrollment, on the primary with a
\* token; anywhere else it is a failure (SessionFails).
EnrollmentRequired(r) ==
    /\ SessionRunning(r) /\ relay_task[r] = "connect" /\ ~deadline_passed
    /\ ~Known(r) /\ r = Primary /\ refresh
    /\ relay_task' = [relay_task EXCEPT ![r] = "enroll"]
    /\ UNCHANGED <<relay_phase, relay_state, deadline_passed, timed_out, authenticated,
                   returned_token, routeVars, tokenVars, serverVars, rounds, scopes>>

\* The thread returns: enrolled and answered, enrolled with the answer lost, or
\* refused.  After the deadline the task is cancelled at its next await.
EnrollmentReturns(r) ==
    /\ relay_phase = "round" /\ relay_task[r] = "enroll"
    /\ \/ /\ enrolled' = TRUE
          /\ relay_task' = [relay_task EXCEPT ![r] = IF deadline_passed THEN "done" ELSE "again"]
          /\ UNCHANGED relay_state
       \/ /\ enrolled' \in {enrolled, TRUE}
          /\ RelayEnds(r)
          /\ relay_state' = [relay_state EXCEPT ![r] = "failed"]
    /\ UNCHANGED <<relay_phase, deadline_passed, timed_out, authenticated, returned_token,
                   routeVars, tokenVars, projected, rounds, scopes>>

\* move_on_after: the round's scope is cancelled.  A task already woken by its
\* answer still runs to its next await (SessionReady), the others stop.
Deadline ==
    /\ relay_phase = "round" /\ ~deadline_passed
    /\ \E r \in Relay : relay_task[r] # "done"
    /\ deadline_passed' = TRUE
    /\ UNCHANGED <<relay_phase, relay_state, relay_task, timed_out, authenticated,
                   returned_token, routeVars, tokenVars, serverVars, rounds, scopes>>

CancelTask(r) ==
    /\ SessionRunning(r) /\ deadline_passed
    /\ RelayEnds(r)
    /\ UNCHANGED <<relay_phase, relay_state, deadline_passed, timed_out, authenticated,
                   returned_token, routeVars, tokenVars, serverVars, rounds, scopes>>

-----------------------------------------------------------------------------
(* The end of a round: late relays are failed, timed-out ones retired, the  *)
(* routes of the authenticated ones queued, the credentials returned.       *)

Late == {r \in Relay : relay_state[r] = "checking"}

\* Mutant: only the relays the deadline caught are retired.
RetiredLate == Late

Retired == timed_out \cup Late

Routable == {r \in route_responses : relay_state[r] = "authenticated"}

Count(invalid) == authenticated - Cardinality(invalid)

\* invalid: relays whose route answer _queue_rss_route_candidates rejects.
RoundCloses(invalid) ==
    /\ relay_phase = "round"
    /\ \A r \in Relay : relay_task[r] = "done"
    /\ invalid \subseteq Routable
    /\ relay_state' = [r \in Relay |-> IF r \in Late \cup invalid THEN "failed"
                                       ELSE relay_state[r]]
    /\ timed_out' = timed_out \cup Late
    /\ control_streams' = control_streams \ Retired
    /\ reservations' = reservations \ Retired
    /\ queued' = (queued \cup Routable) \ invalid
    /\ relay_connected' = Count(invalid)
    /\ refresh' = IF Count(invalid) < 1 THEN refresh ELSE returned_token
    /\ relay_phase' = "reserve"
    /\ UNCHANGED <<relay_task, deadline_passed, authenticated, returned_token,
                   route_responses, relay_auth, token_file, serverVars, rounds, scopes>>

\* make_reservation for each authenticated relay, each within its own timeout.
Reserve ==
    /\ relay_phase = "reserve"
    /\ \E got \in SUBSET {r \in Relay : relay_state[r] = "authenticated"} :
         reservations' = reservations \cup got
    /\ relay_phase' = "idle"
    /\ UNCHANGED <<relay_state, relay_task, deadline_passed, timed_out, authenticated,
                   returned_token, control_streams, route_responses, queued,
                   relay_connected, tokenVars, serverVars, rounds, scopes>>

\* _retire_host_scope: an address change, or a failed task of the scope, ends
\* the host; a running enrollment thread is awaited first.
RetireHostScope ==
    /\ relay_phase # "down"
    /\ \A r \in Relay : relay_task[r] # "enroll"
    /\ relay_phase' = "down"
    /\ relay_state' = [r \in Relay |-> ""]
    /\ relay_task' = [r \in Relay |-> "none"]
    /\ control_streams' = {} /\ reservations' = {} /\ queued' = {}
    /\ relay_connected' = 0
    /\ refresh' = FALSE
    /\ UNCHANGED <<deadline_passed, timed_out, authenticated, returned_token, route_responses,
                   relay_auth, token_file, serverVars, rounds, scopes>>

\* RSS projects an enrollment to a fallback relay.
Project(r) ==
    /\ enrolled /\ r \notin projected
    /\ projected' = projected \cup {r}
    /\ UNCHANGED <<roundVars, routeVars, tokenVars, enrolled, rounds, scopes>>

-----------------------------------------------------------------------------
RelayInit ==
    /\ relay_phase = "down"
    /\ relay_state = [r \in Relay |-> ""]
    /\ relay_task = [r \in Relay |-> "none"]
    /\ deadline_passed = FALSE /\ timed_out = {} /\ authenticated = 0
    /\ returned_token = FALSE
    /\ control_streams = {} /\ reservations = {} /\ route_responses = {} /\ queued = {}
    /\ relay_connected = 0
    /\ token_file \in BOOLEAN /\ relay_auth = token_file /\ refresh = FALSE
    /\ enrolled = ~token_file /\ projected = {}
    /\ rounds = 0 /\ scopes = 0

\* What time alone brings about: the deadline fires, cancelled tasks stop, the
\* HTTPS client gives up, and the round's own code runs on.
RoundTimers ==
    \/ \E r \in Relay : EnrollmentReturns(r) \/ CancelTask(r)
    \/ Deadline
    \/ \E invalid \in SUBSET Relay : RoundCloses(invalid)
    \/ Reserve

RelayAnswers ==
    \E r \in Relay : \/ SessionReady(r) \/ EnrollmentRequired(r)
                     \/ \E slow \in BOOLEAN : SessionFails(r, slow)

RelayNext ==
    \/ HostScopeStarts \/ Maintain \/ ProcessRestarts \/ RetireHostScope
    \/ RoundTimers \/ RelayAnswers
    \/ \E r \in Relay \ {Primary} : Project(r)

\* The trio loop runs and its timers fire; no relay is assumed to answer.
RelayFairness == WF_relayVars(RoundTimers)

RelaySpec == RelayInit /\ [][RelayNext]_relayVars /\ RelayFairness

-----------------------------------------------------------------------------
RelayTypeOK ==
    /\ relay_phase \in {"down", "round", "reserve", "idle"}
    /\ relay_state \in [Relay -> RelayStates]
    /\ relay_task \in [Relay -> TaskStates]
    /\ control_streams \cup reservations \cup route_responses \cup timed_out \cup queued
         \subseteq Relay
    /\ {deadline_passed, returned_token, relay_auth, refresh, token_file, enrolled}
         \subseteq BOOLEAN
    /\ authenticated \in 0 .. Cardinality(Relay)

\* A round leaves every relay in order.  Between rounds the published relay
\* count never exceeds the relays that are authenticated; every authenticated
\* relay has its routes queued ("A fast secondary must not be discarded while a
\* stalled primary is still checking"); and a relay that ran out of time keeps
\* neither its control stream nor a reservation from an earlier round.
RoundAccounts ==
    relay_phase \in {"reserve", "idle"} =>
      LET authentic == {r \in Relay : relay_state[r] = "authenticated"}
      IN  /\ relay_connected <= Cardinality(authentic)
          /\ authentic \subseteq queued
          /\ timed_out \cap (control_streams \cup reservations) = {}

\* Every round ends, whatever the relays do and however long they stall.
RoundsEnd == relay_phase = "round" ~> relay_phase # "round"

=============================================================================
