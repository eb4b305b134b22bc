------------------------ MODULE MCOutboundDelivery --------------------------
(***************************************************************************)
(* Instances of OutboundDelivery for TLC.  In one kind of behaviour two    *)
(* workers overlap on the rows of one transaction; in the other a single   *)
(* worker drains the rows of several, an endpoint update among them.       *)
(***************************************************************************)
EXTENDS OutboundDelivery

CONSTANTS w1, w2, p1, p2

VARIABLE overlap

OneSecretOneUpdate == <<"secret", "register", "update">>
OneSecret == <<"secret">>
AllGranted == [p \in Peers |-> Transactions]

\* Bounds: one transaction where workers overlap; else one crash or one resume.
Bounded ==
  IF overlap THEN created' <= 1
  ELSE pc'[w2] = "idle" /\ crashes' + resumes' <= 1

DeliveryInit == Init /\ overlap \in BOOLEAN

DeliverySpec == DeliveryInit /\ [][Next /\ Bounded /\ UNCHANGED overlap]_<<vars, overlap>>

\* OneBudgetPerPeer, where a peer's rows are in the hands of one worker at a
\* time, as the daemon runs them.
OneBudgetAlone == ~ overlap => OneBudgetPerPeer

=============================================================================
