------------------------------- MODULE Outbox -------------------------------
(***************************************************************************)
(* The transactional outbox of post-service: shared/outbox/outbox.go (the  *)
(* fast path and the relay), shared/outbox/pgstore.go (the table) and the  *)
(* way services/post uses them.                                            *)
(*                                                                         *)
(* Time.  The code only ever compares next_attempt_at with the current     *)
(* time, so a row keeps the time left until it is due (wait), which Tick   *)
(* counts down; all instances read one clock.                              *)
(*                                                                         *)
(* One SQL statement is one atomic step (a row lock is held for that       *)
(* statement only, so FOR UPDATE SKIP LOCKED sees other statements either  *)
(* before or after it).  Between statements everything interleaves: the    *)
(* request that wrote the row, the relays of all instances, time, crashes. *)
(***************************************************************************)
EXTENDS Integers, FiniteSets

CONSTANTS
  Events,       \* outbox row ids, handed out in increasing order
  Relays,       \* one relay per post-service instance
  BatchSize,    \* rows claimed per pass
  MaxAttempts,  \* failures before a row is parked as dead, 0 = never
  AttemptCap,   \* bound: attempts saturate here (the backoff is at its cap)
  BaseBackoff,  \* first retry delay
  MaxBackoff,   \* cap of the retry delay
  Lease,        \* how far Pending pushes next_attempt_at of a claimed row
  Grace,        \* fastPathGrace: when a new row becomes due
  PassBound,    \* bound: longest time a relay pass takes
  RequestBound, \* bound: longest time from Enqueue to the end of PublishNow
  MaxFaults     \* bound: shutdowns and crashes of relays

ASSUME EventsAssumption == Events \subseteq Nat
ASSUME TimeAssumption ==
  /\ {BaseBackoff, MaxBackoff, Lease, Grace, PassBound, RequestBound} \subseteq Nat
  /\ {BatchSize, MaxAttempts, AttemptCap, MaxFaults} \subseteq Nat
  /\ AttemptCap > 0
  /\ MaxAttempts <= AttemptCap

VARIABLES
  status,     \* outbox.status; "none" not inserted yet, "open" inserted by a
              \* transaction that has not ended, "aborted" rolled back,
              \* "pruned" deleted by Prune
  attempts,   \* outbox.attempts
  wait,       \* next_attempt_at - now, never below 0
  delivered,  \* events the broker has accepted
  nacks,      \* history: failed publishes charged to the row
  req,        \* req[e]: step of the request's PublishNow
  reqAge,     \* time since that request computed notBefore
  pc,         \* pc[r]: step of the relay's RunOnce
  up,         \* up[r]: the relay's context is not cancelled
  batch,      \* batch[r]: claimed records that are not dealt with yet
  copy,       \* copy[r][e]: Attempts of the claimed record
  age,        \* age[r]: time since the pass read the clock
  faults      \* shutdowns and crashes so far

rowVars   == <<status, attempts, wait>>
reqVars   == <<req, reqAge>>
relayVars == <<pc, up, batch, copy, age>>
vars == <<rowVars, delivered, nacks, reqVars, relayVars, faults>>

Statuses == {"none", "open", "aborted", "pending", "published", "dead", "pruned"}
ReqSteps == {"none", "publish", "ack", "nack", "done"}
RelaySteps == {"idle", "publish", "ack", "nack", "stopped"}

Saturate(n) == IF n < AttemptCap THEN n ELSE AttemptCap

\* Relay.Backoff: base * 2^(n-1), capped.
Backoff(n) ==
  LET d == BaseBackoff * 2^(n - 1)
  IN  IF d \in 0..MaxBackoff THEN d ELSE MaxBackoff

Init ==
  /\ status = [e \in Events |-> "none"]
  /\ attempts = [e \in Events |-> 0]
  /\ wait = [e \in Events |-> 0]
  /\ delivered = {}
  /\ nacks = [e \in Events |-> 0]
  /\ req = [e \in Events |-> "none"]
  /\ reqAge = [e \in Events |-> 0]
  /\ pc = [r \in Relays |-> "idle"]
  /\ up = [r \in Relays |-> TRUE]
  /\ batch = [r \in Relays |-> {}]
  /\ copy = [r \in Relays |-> [e \in Events |-> 0]]
  /\ age = [r \in Relays |-> 0]
  /\ faults = 0

-----------------------------------------------------------------------------
(* The store: one operator per SQL statement of PGStore.                   *)

MarkPublished(e) ==
  /\ status' = IF status[e] = "pending"
                 THEN [status EXCEPT ![e] = "published"] ELSE status
  /\ UNCHANGED <<attempts, wait>>

\* Mutants: no status in the WHERE clause; off by one; 0 taken as a limit.
MarkFailedAnyStatus(e, n) ==
  /\ attempts' = [attempts EXCEPT ![e] = Saturate(n)]
  /\ wait' = [wait EXCEPT ![e] = Backoff(Saturate(n))]
  /\ status' = [status EXCEPT ![e] = "pending"]

MarkFailedEarly(e, n) ==
  /\ status[e] = "pending"
  /\ attempts' = [attempts EXCEPT ![e] = Saturate(n)]
  /\ wait' = [wait EXCEPT ![e] = Backoff(Saturate(n))]
  /\ status' = [status EXCEPT ![e] =
       IF MaxAttempts > 0 /\ n + 1 >= MaxAttempts THEN "dead" ELSE "pending"]

MarkFailedZeroIsLimit(e, n) ==
  /\ status[e] = "pending"
  /\ attempts' = [attempts EXCEPT ![e] = Saturate(n)]
  /\ wait' = [wait EXCEPT ![e] = Backoff(Saturate(n))]
  /\ status' = [status EXCEPT ![e] = IF n >= MaxAttempts THEN "dead" ELSE "pending"]

\* n is Attempts + 1 of the record the caller holds, not of the row.
MarkFailed(e, n) ==
  IF status[e] = "pending"
    THEN /\ attempts' = [attempts EXCEPT ![e] = Saturate(n)]
         /\ wait' = [wait EXCEPT ![e] = Backoff(Saturate(n))]
         /\ status' = [status EXCEPT ![e] =
              IF MaxAttempts > 0 /\ n >= MaxAttempts THEN "dead" ELSE "pending"]
    ELSE UNCHANGED rowVars

Due == {e \in Events : status[e] = "pending" /\ wait[e] = 0}

\* ORDER BY id LIMIT BatchSize over the due rows.
Claimable(S) ==
  /\ S \subseteq Due
  /\ Cardinality(S) <= BatchSize
  /\ S # Due => Cardinality(S) = BatchSize
  /\ \A e \in S, f \in Due \ S : e < f

Prune(e) ==
  /\ status[e] = "published"
  /\ status' = [status EXCEPT ![e] = "pruned"]
  /\ UNCHANGED <<attempts, wait, delivered, nacks, reqVars, relayVars, faults>>

-----------------------------------------------------------------------------
(* The request: the transaction, then PublishNow.                          *)

\* Mutant: the event is published from inside the transaction.
EnqueuePublishes(e) ==
  /\ status[e] = "none"
  /\ \A f \in Events : f < e => status[f] # "none"
  /\ status' = [status EXCEPT ![e] = "open"]
  /\ wait' = [wait EXCEPT ![e] = Grace]
  /\ req' = [req EXCEPT ![e] = "publish"]
  /\ UNCHANGED <<attempts, delivered, nacks, reqAge, relayVars, faults>>

\* Inside the business transaction; notBefore = now + fastPathGrace.
Enqueue(e) ==
  /\ status[e] = "none"
  /\ \A f \in Events : f < e => status[f] # "none"
  /\ status' = [status EXCEPT ![e] = "open"]
  /\ wait' = [wait EXCEPT ![e] = Grace]
  /\ UNCHANGED <<attempts, delivered, nacks, reqVars, relayVars, faults>>

EndRequest(e) ==
  /\ req' = [req EXCEPT ![e] = "done"]
  /\ reqAge' = [reqAge EXCEPT ![e] = 0]

\* The transaction commits.  The caller goes on to publishAfterCommit, or it
\* never does: the answer to COMMIT was lost or the process died.
Commit(e) ==
  /\ status[e] = "open"
  /\ status' = [status EXCEPT ![e] = "pending"]
  /\ \/ req' = [req EXCEPT ![e] = "publish"] /\ UNCHANGED reqAge
     \/ EndRequest(e)
  /\ UNCHANGED <<attempts, wait, delivered, nacks, relayVars, faults>>

Rollback(e) ==
  /\ status[e] = "open"
  /\ status' = [status EXCEPT ![e] = "aborted"]
  /\ EndRequest(e)
  /\ UNCHANGED <<attempts, wait, delivered, nacks, relayVars, faults>>

FastPublishAck(e) ==
  /\ req[e] = "publish"
  /\ delivered' = delivered \cup {e}
  /\ req' = [req EXCEPT ![e] = "ack"]
  /\ UNCHANGED <<rowVars, nacks, reqAge, relayVars, faults>>

\* Publish returned an error: a timeout says nothing about the broker.  A
\* cancelled context (or a crash) leaves the record alone, else fail() runs.
FastPublishErr(e) ==
  /\ req[e] = "publish"
  /\ delivered' \in {delivered, delivered \cup {e}}
  /\ \/ /\ req' = [req EXCEPT ![e] = "nack"]
        /\ nacks' = [nacks EXCEPT ![e] = Saturate(@ + 1)]
        /\ UNCHANGED reqAge
     \/ EndRequest(e) /\ UNCHANGED nacks
  /\ UNCHANGED <<rowVars, relayVars, faults>>

\* The statement takes effect, or it fails (or the process dies) before.
FastMarkPublished(e) ==
  /\ req[e] = "ack"
  /\ MarkPublished(e) \/ UNCHANGED rowVars
  /\ EndRequest(e)
  /\ UNCHANGED <<delivered, nacks, relayVars, faults>>

FastMarkFailed(e) ==
  /\ req[e] = "nack"
  /\ MarkFailed(e, 1) \/ UNCHANGED rowVars
  /\ EndRequest(e)
  /\ UNCHANGED <<delivered, nacks, relayVars, faults>>

-----------------------------------------------------------------------------
(* The relay of one instance.                                              *)

InPass(r) == pc[r] \in {"publish", "ack", "nack"}

\* The record RunOnce is at: records are handled in id order.
Current(r, e) == e \in batch[r] /\ \A f \in batch[r] : e <= f

\* RunOnce returns, Run waits for its next tick or leaves its loop.
EndPass(r) ==
  /\ pc' = [pc EXCEPT ![r] = IF up[r] THEN "idle" ELSE "stopped"]
  /\ batch' = [batch EXCEPT ![r] = {}]
  /\ copy' = [copy EXCEPT ![r] = [e \in Events |-> 0]]
  /\ age' = [age EXCEPT ![r] = 0]

\* The record is dealt with: go on to the next one of the batch.
NextRecord(r, e) ==
  IF batch[r] = {e}
    THEN EndPass(r)
    ELSE /\ pc' = [pc EXCEPT ![r] = "publish"]
         /\ batch' = [batch EXCEPT ![r] = @ \ {e}]
         /\ copy' = [copy EXCEPT ![r][e] = 0]
         /\ UNCHANGED age

\* Mutant: the claim does not move next_attempt_at.
ClaimNoLease(r) ==
  /\ pc[r] = "idle"
  /\ \E S \in SUBSET Due :
       /\ S # {}
       /\ Claimable(S)
       /\ batch' = [batch EXCEPT ![r] = S]
       /\ copy' = [copy EXCEPT ![r] =
                     [e \in Events |-> IF e \in S THEN attempts[e] ELSE 0]]
       /\ pc' = [pc EXCEPT ![r] = "publish"]
  /\ UNCHANGED <<rowVars, delivered, nacks, reqVars, up, age, faults>>

\* Pending.  The second disjunct: the claim took effect but the relay did not
\* get the rows, so they wait out the lease.
Claim(r) ==
  /\ pc[r] = "idle"
  /\ \E S \in SUBSET Due :
       /\ S # {}
       /\ Claimable(S)
       /\ wait' = [e \in Events |-> IF e \in S THEN Lease ELSE wait[e]]
       /\ \/ /\ batch' = [batch EXCEPT ![r] = S]
             /\ copy' = [copy EXCEPT ![r] =
                           [e \in Events |-> IF e \in S THEN attempts[e] ELSE 0]]
             /\ pc' = [pc EXCEPT ![r] = "publish"]
          \/ UNCHANGED <<batch, copy, pc>>
  /\ UNCHANGED <<status, attempts, delivered, nacks, reqVars, up, age, faults>>

RelayPublishAck(r, e) ==
  /\ pc[r] = "publish" /\ Current(r, e)
  /\ delivered' = delivered \cup {e}
  /\ pc' = [pc EXCEPT ![r] = "ack"]
  /\ UNCHANGED <<rowVars, nacks, reqVars, up, batch, copy, age, faults>>

\* Mutant: a publish that timed out is taken as done.
RelayPublishErrIgnored(r, e) ==
  /\ pc[r] = "publish" /\ Current(r, e)
  /\ delivered' \in {delivered, delivered \cup {e}}
  /\ pc' = [pc EXCEPT ![r] = "ack"]
  /\ UNCHANGED <<rowVars, nacks, reqVars, up, batch, copy, age, faults>>

\* While shutting down a failed publish ends the pass and costs no attempt.
RelayPublishErr(r, e) ==
  /\ pc[r] = "publish" /\ Current(r, e)
  /\ delivered' \in {delivered, delivered \cup {e}}
  /\ IF up[r]
       THEN /\ pc' = [pc EXCEPT ![r] = "nack"]
            /\ nacks' = [nacks EXCEPT ![e] = Saturate(@ + 1)]
            /\ UNCHANGED <<batch, copy, age>>
       ELSE EndPass(r) /\ UNCHANGED nacks
  /\ UNCHANGED <<rowVars, reqVars, up, faults>>

\* A failed MarkPublished ends the pass; the row may or may not be marked.
RelayMarkPublished(r, e) ==
  /\ pc[r] = "ack" /\ Current(r, e)
  /\ \/ up[r] /\ MarkPublished(e) /\ NextRecord(r, e)
     \/ MarkPublished(e) /\ EndPass(r)
     \/ UNCHANGED rowVars /\ EndPass(r)
  /\ UNCHANGED <<delivered, nacks, reqVars, up, faults>>

RelayMarkFailed(r, e) ==
  /\ pc[r] = "nack" /\ Current(r, e)
  /\ \/ up[r] /\ MarkFailed(e, copy[r][e] + 1) /\ NextRecord(r, e)
     \/ MarkFailed(e, copy[r][e] + 1) /\ EndPass(r)
     \/ UNCHANGED rowVars /\ EndPass(r)
  /\ UNCHANGED <<delivered, nacks, reqVars, up, faults>>

\* SIGTERM cancels the context; a relay between two passes stops at once.
Shutdown(r) ==
  /\ up[r]
  /\ faults < MaxFaults
  /\ faults' = faults + 1
  /\ up' = [up EXCEPT ![r] = FALSE]
  /\ pc' = IF pc[r] = "idle" THEN [pc EXCEPT ![r] = "stopped"] ELSE pc
  /\ UNCHANGED <<rowVars, delivered, nacks, reqVars, batch, copy, age>>

Crash(r) ==
  /\ InPass(r)
  /\ faults < MaxFaults
  /\ faults' = faults + 1
  /\ pc' = [pc EXCEPT ![r] = "stopped"]
  /\ up' = [up EXCEPT ![r] = FALSE]
  /\ batch' = [batch EXCEPT ![r] = {}]
  /\ copy' = [copy EXCEPT ![r] = [e \in Events |-> 0]]
  /\ age' = [age EXCEPT ![r] = 0]
  /\ UNCHANGED <<rowVars, delivered, nacks, reqVars>>

Restart(r) ==
  /\ pc[r] = "stopped"
  /\ pc' = [pc EXCEPT ![r] = "idle"]
  /\ up' = [up EXCEPT ![r] = TRUE]
  /\ UNCHANGED <<rowVars, delivered, nacks, reqVars, batch, copy, age, faults>>

-----------------------------------------------------------------------------
InRequest(e) == status[e] = "open" \/ req[e] \in {"publish", "ack", "nack"}

\* Time passes, for every row, request and pass alike.
Tick ==
  /\ \E e \in Events : wait[e] > 0 \/ InRequest(e)
  /\ \A r \in Relays : InPass(r) => age[r] < PassBound
  /\ \A e \in Events : InRequest(e) => reqAge[e] < RequestBound
  /\ wait' = [e \in Events |-> IF wait[e] > 0 THEN wait[e] - 1 ELSE 0]
  /\ age' = [r \in Relays |-> IF InPass(r) THEN age[r] + 1 ELSE age[r]]
  /\ reqAge' = [e \in Events |-> IF InRequest(e) THEN reqAge[e] + 1 ELSE reqAge[e]]
  /\ UNCHANGED <<status, attempts, delivered, nacks, req, pc, up, batch, copy, faults>>

RequestStep(e) ==
  \/ Enqueue(e) \/ Commit(e) \/ Rollback(e)
  \/ FastPublishAck(e) \/ FastPublishErr(e)
  \/ FastMarkPublished(e) \/ FastMarkFailed(e)

RelayStep(r) ==
  \/ Claim(r)
  \/ \E e \in Events :
       \/ RelayPublishAck(r, e) \/ RelayPublishErr(r, e)
       \/ RelayMarkPublished(r, e) \/ RelayMarkFailed(r, e)

Next ==
  \/ \E e \in Events : RequestStep(e) \/ Prune(e)
  \/ \E r \in Relays : RelayStep(r) \/ Shutdown(r) \/ Crash(r) \/ Restart(r)
  \/ Tick

Spec == Init /\ [][Next]_vars

\* The relay's goroutine is scheduled, an instance that stopped comes back,
\* requests end, time passes, and neither the broker nor the database refuses
\* for ever (without the latter, rows that are published but never marked can
\* fill every batch and starve the rows behind them).
Fairness ==
  /\ WF_vars(Tick)
  /\ \A e \in Events :
       /\ WF_vars(RequestStep(e) /\ status[e] # "none")
       /\ SF_vars(\E r \in Relays : RelayPublishAck(r, e))
       /\ SF_vars(\E r \in Relays : RelayMarkPublished(r, e) /\ status'[e] = "published")
  /\ \A r \in Relays :
       /\ WF_vars(RelayStep(r))
       /\ WF_vars(Restart(r))
       /\ SF_vars(Claim(r) /\ batch'[r] # {})

FairSpec == Spec /\ Fairness
-----------------------------------------------------------------------------
(* What makes the outbox correct.                                          *)

MaxDelay == CHOOSE m \in {Lease, Grace, MaxBackoff} :
              \A d \in {Lease, Grace, MaxBackoff} : d <= m

\* Types; a delay is never longer than the lease, the grace period and the
\* capped backoff allow, and attempts stay within their bound.
TypeOK ==
  /\ status \in [Events -> Statuses]
  /\ attempts \in [Events -> 0..AttemptCap]
  /\ wait \in [Events -> 0..MaxDelay]
  /\ delivered \subseteq Events
  /\ nacks \in [Events -> 0..AttemptCap]
  /\ req \in [Events -> ReqSteps]
  /\ reqAge \in [Events -> 0..RequestBound]
  /\ pc \in [Relays -> RelaySteps]
  /\ up \in [Relays -> BOOLEAN]
  /\ batch \in [Relays -> SUBSET Events]
  /\ copy \in [Relays -> [Events -> 0..AttemptCap]]
  /\ age \in [Relays -> 0..PassBound]
  /\ faults \in 0..MaxFaults

\* No lost event: whoever marked the row, the fast path or any of several
\* relays that hold it, and whatever failed, crashed or timed out before, a
\* row that is no longer retried as published was accepted by the broker
\* ("losing the event would not be [harmless]", outbox.go:169-170).
NoLoss ==
  \A e \in Events : status[e] \in {"published", "pruned"} => e \in delivered

\* No phantom event: the broker never has an event of a transaction that
\* rolled back or is still open (comment of Enqueue, pgstore.go:25-28).
NoPhantom ==
  \A e \in delivered : status[e] \notin {"none", "open", "aborted"}

\* A row that left pending stays there: the late MarkFailed of a relay whose
\* lease ran out neither revives a published row nor a dead one, however the
\* holders of one row interleave (the WHERE clauses of pgstore.go:125-141).
SettledIsFinal ==
  [][\A e \in Events :
       /\ status[e] = "published" => status'[e] \in {"published", "pruned"}
       /\ status[e] \in {"dead", "pruned"} => status'[e] = status[e]]_vars

\* A row is parked only when MaxAttempts is set and at least that many
\* publishes of it really failed: neither a shutdown nor the stale attempt
\* count of a relay that lost its lease parks it early (Relay.MaxAttempts).
DeadOnlyAfterMax ==
  \A e \in Events : status[e] = "dead" => MaxAttempts > 0 /\ nacks[e] >= MaxAttempts

\* A pass ends before its lease runs out, a request before its grace period.
Timely == PassBound < Lease /\ RequestBound < Grace

\* While passes end within the lease and requests within the grace period,
\* one event is in the hands of one publisher: two relays never hold the same
\* row and none holds a row whose request is still publishing it
\* (PGStore's comment, services/post/main.go:66-68, post.go:80-83).
Exclusive ==
  \A r \in Relays : \A e \in batch[r] :
    /\ ~InRequest(e)
    /\ \A q \in Relays \ {r} : e \notin batch[q]

\* The outbox implements the abstract queue: an event is decided with its
\* transaction, delivered only if committed, dropped only if delivered.
Delivery == INSTANCE EventDelivery WITH
  decided <- [e \in Events |->
                IF status[e] \in {"none", "open"} THEN "no"
                ELSE IF status[e] = "aborted" THEN "aborted" ELSE "committed"],
  settled <- {e \in Events : status[e] \in {"published", "pruned"}}

\* With MaxAttempts = 0 and a broker that does not refuse for ever, it also
\* implements the queue's liveness: every committed event is delivered,
\* through failed publishes, lost claims, crashes and shutdowns
\* ("it never strands them", Relay.MaxAttempts).
ImplementsDelivery == Delivery!Spec
=============================================================================
