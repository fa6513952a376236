--------------------------- MODULE EventDelivery ---------------------------
(***************************************************************************)
(* What the transactional outbox promises its callers (package comment of  *)
(* shared/outbox/outbox.go and the comment of Enqueue): an event is        *)
(* decided by the transaction that writes it, a committed event may be     *)
(* handed to the broker any number of times, an undecided or aborted one   *)
(* never, and the outbox forgets an event only once the broker has it.     *)
(***************************************************************************)
CONSTANT Events

VARIABLES
  decided,    \* decided[e]: "no", "committed" or "aborted"
  delivered,  \* the events the broker has accepted at least once
  settled     \* the events the outbox no longer retries

vars == <<decided, delivered, settled>>

Init ==
  /\ decided = [e \in Events |-> "no"]
  /\ delivered = {}
  /\ settled = {}

Decide(e) ==
  /\ decided[e] = "no"
  /\ \E d \in {"committed", "aborted"} : decided' = [decided EXCEPT ![e] = d]
  /\ UNCHANGED <<delivered, settled>>

Deliver(e) ==
  /\ decided[e] = "committed"
  /\ delivered' = delivered \cup {e}
  /\ UNCHANGED <<decided, settled>>

Settle(e) ==
  /\ e \in delivered
  /\ settled' = settled \cup {e}
  /\ UNCHANGED <<decided, delivered>>

Next == \E e \in Events : Decide(e) \/ Deliver(e) \/ Settle(e)

\* A committed event that is not yet delivered does not stay undelivered.
Spec == Init /\ [][Next]_vars /\ \A e \in Events : WF_vars(Deliver(e))

SafeSpec == Init /\ [][Next]_vars
=============================================================================
