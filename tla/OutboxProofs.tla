---------------------------- MODULE OutboxProofs ----------------------------
(***************************************************************************)
(* Proofs about Outbox, for any set of rows and of relays, any batch size, *)
(* any lease, grace period and backoff, any number of crashes.             *)
(***************************************************************************)
EXTENDS Outbox, TLAPS

\* The longest of the three delays exists, is one of them and bounds them all.
LEMMA MaxDelayBounds ==
  /\ MaxDelay \in Nat
  /\ Lease \in 0..MaxDelay /\ Grace \in 0..MaxDelay /\ MaxBackoff \in 0..MaxDelay
<1> DEFINE D == {Lease, Grace, MaxBackoff}
<1>1. D \subseteq Nat
  BY TimeAssumption
<1>2. \E m \in D : \A d \in D : d <= m
  BY TimeAssumption
<1>3. MaxDelay \in D /\ \A d \in D : d <= MaxDelay
  BY <1>2 DEF MaxDelay
<1> QED
  BY <1>1, <1>3, TimeAssumption

\* Backoff never exceeds its cap, whatever the attempt count.
LEMMA BackoffBounded ==
  ASSUME NEW n
  PROVE  Backoff(n) \in 0..MaxBackoff
BY TimeAssumption DEF Backoff

\* A saturated count stays within its bound.
LEMMA SaturateBounded ==
  ASSUME NEW n \in Nat
  PROVE  Saturate(n) \in 0..AttemptCap
BY TimeAssumption DEF Saturate

\* The statements of the store keep the columns of the table well typed.
LEMMA StoreTypes ==
  ASSUME TypeOK, NEW e \in Events, NEW n \in Nat,
         MarkPublished(e) \/ MarkFailed(e, n) \/ UNCHANGED rowVars
  PROVE  /\ status' \in [Events -> Statuses]
         /\ attempts' \in [Events -> 0..AttemptCap]
         /\ wait' \in [Events -> 0..MaxDelay]
<1>1. CASE MarkPublished(e)
  BY <1>1 DEF TypeOK, MarkPublished, Statuses
<1>2. CASE MarkFailed(e, n)
  <2>1. Saturate(n) \in 0..AttemptCap
    BY SaturateBounded
  <2>2. Backoff(Saturate(n)) \in 0..MaxDelay
    BY BackoffBounded, MaxDelayBounds, TimeAssumption
  <2>3. CASE UNCHANGED rowVars
    BY <2>3 DEF TypeOK, rowVars
  <2>4. CASE status[e] = "pending"
    <3>1. PICK s \in {"dead", "pending"} : status' = [status EXCEPT ![e] = s]
      BY <1>2, <2>4 DEF MarkFailed
    <3>2. status' \in [Events -> Statuses]
      BY <3>1 DEF TypeOK, Statuses
    <3>3. /\ attempts' = [attempts EXCEPT ![e] = Saturate(n)]
          /\ wait' = [wait EXCEPT ![e] = Backoff(Saturate(n))]
      BY <1>2, <2>4 DEF MarkFailed
    <3>4. attempts' \in [Events -> 0..AttemptCap] /\ wait' \in [Events -> 0..MaxDelay]
      BY <2>1, <2>2, <3>3 DEF TypeOK
    <3> QED
      BY <3>2, <3>4
  <2> QED
    BY <1>2, <2>3, <2>4 DEF MarkFailed
<1>3. CASE UNCHANGED rowVars
  BY <1>3 DEF TypeOK, rowVars
<1> QED
  BY <1>1, <1>2, <1>3

\* So do the two ways a relay goes on after a record.
LEMMA PassTypes ==
  ASSUME TypeOK, NEW r \in Relays, NEW e \in Events,
         EndPass(r) \/ NextRecord(r, e)
  PROVE  /\ pc' \in [Relays -> RelaySteps]
         /\ batch' \in [Relays -> SUBSET Events]
         /\ copy' \in [Relays -> [Events -> 0..AttemptCap]]
         /\ age' \in [Relays -> 0..PassBound]
<1>1. ASSUME EndPass(r)
      PROVE  /\ pc' \in [Relays -> RelaySteps]
             /\ batch' \in [Relays -> SUBSET Events]
             /\ copy' \in [Relays -> [Events -> 0..AttemptCap]]
             /\ age' \in [Relays -> 0..PassBound]
  BY <1>1, TimeAssumption DEF TypeOK, EndPass, RelaySteps
<1>2. CASE NextRecord(r, e) /\ batch[r] # {e}
  <2>1. /\ pc' = [pc EXCEPT ![r] = "publish"]
        /\ batch' = [batch EXCEPT ![r] = @ \ {e}]
        /\ copy' = [copy EXCEPT ![r] = [@ EXCEPT ![e] = 0]]
        /\ age' = age
    BY <1>2 DEF NextRecord
  <2>2. [copy[r] EXCEPT ![e] = 0] \in [Events -> 0..AttemptCap]
    BY TimeAssumption DEF TypeOK
  <2>3. batch[r] \ {e} \in SUBSET Events
    BY DEF TypeOK
  <2> QED
    BY <2>1, <2>2, <2>3 DEF TypeOK, RelaySteps
<1>3. CASE NextRecord(r, e) /\ batch[r] = {e}
  BY <1>1, <1>3 DEF NextRecord
<1> QED
  BY <1>1, <1>2, <1>3

\* And the end of a request.
LEMMA RequestTypes ==
  ASSUME TypeOK, NEW e \in Events, EndRequest(e)
  PROVE  req' \in [Events -> ReqSteps] /\ reqAge' \in [Events -> 0..RequestBound]
BY TimeAssumption DEF TypeOK, EndRequest, ReqSteps

\* Every step keeps the types.
LEMMA TypeStep ==
  ASSUME TypeOK, [Next]_vars
  PROVE  TypeOK'
<1> USE DEF TypeOK
<1>1. CASE UNCHANGED vars
  BY <1>1 DEF vars, rowVars, reqVars, relayVars
<1>2. ASSUME NEW e \in Events, Enqueue(e)
      PROVE  TypeOK'
  BY <1>2, MaxDelayBounds DEF Enqueue, reqVars, relayVars, Statuses
<1>3. ASSUME NEW e \in Events, Commit(e)
      PROVE  TypeOK'
  <2>1. req' \in [Events -> ReqSteps] /\ reqAge' \in [Events -> 0..RequestBound]
    BY <1>3, RequestTypes DEF Commit, ReqSteps
  <2> QED
    BY <1>3, <2>1 DEF Commit, relayVars, Statuses
<1>4. ASSUME NEW e \in Events, Rollback(e)
      PROVE  TypeOK'
  BY <1>4, TimeAssumption DEF Rollback, EndRequest, relayVars, Statuses, ReqSteps
<1>5. ASSUME NEW e \in Events, FastPublishAck(e)
      PROVE  TypeOK'
  BY <1>5 DEF FastPublishAck, rowVars, relayVars, ReqSteps
<1>6. ASSUME NEW e \in Events, FastPublishErr(e)
      PROVE  TypeOK'
  <2>1. Saturate(nacks[e] + 1) \in 0..AttemptCap
    BY SaturateBounded
  <2>2. req' \in [Events -> ReqSteps] /\ reqAge' \in [Events -> 0..RequestBound]
    BY <1>6, RequestTypes DEF FastPublishErr, ReqSteps
  <2>3. nacks' \in [Events -> 0..AttemptCap] /\ delivered' \subseteq Events
    BY <1>6, <2>1 DEF FastPublishErr
  <2> QED
    BY <1>6, <2>2, <2>3 DEF FastPublishErr, rowVars, relayVars
<1>7. ASSUME NEW e \in Events, FastMarkPublished(e)
      PROVE  TypeOK'
  <2>1. MarkPublished(e) \/ MarkFailed(e, 1) \/ UNCHANGED rowVars
    BY <1>7 DEF FastMarkPublished
  <2>2. /\ status' \in [Events -> Statuses]
        /\ attempts' \in [Events -> 0..AttemptCap]
        /\ wait' \in [Events -> 0..MaxDelay]
    BY <1>7, <2>1, StoreTypes
  <2>3. req' \in [Events -> ReqSteps] /\ reqAge' \in [Events -> 0..RequestBound]
    BY <1>7, RequestTypes DEF FastMarkPublished
  <2> QED
    BY <1>7, <2>2, <2>3 DEF FastMarkPublished, relayVars
<1>8. ASSUME NEW e \in Events, FastMarkFailed(e)
      PROVE  TypeOK'
  <2>1. MarkPublished(e) \/ MarkFailed(e, 1) \/ UNCHANGED rowVars
    BY <1>8 DEF FastMarkFailed
  <2>2. /\ status' \in [Events -> Statuses]
        /\ attempts' \in [Events -> 0..AttemptCap]
        /\ wait' \in [Events -> 0..MaxDelay]
    BY <1>8, <2>1, StoreTypes
  <2>3. req' \in [Events -> ReqSteps] /\ reqAge' \in [Events -> 0..RequestBound]
    BY <1>8, RequestTypes DEF FastMarkFailed
  <2> QED
    BY <1>8, <2>2, <2>3 DEF FastMarkFailed, relayVars
<1>9. ASSUME NEW e \in Events, Prune(e)
      PROVE  TypeOK'
  BY <1>9 DEF Prune, reqVars, relayVars, Statuses
<1>10. ASSUME NEW r \in Relays, Claim(r)
       PROVE  TypeOK'
  <2>1. PICK S \in SUBSET Due :
          /\ wait' = [e \in Events |-> IF e \in S THEN Lease ELSE wait[e]]
          /\ \/ /\ batch' = [batch EXCEPT ![r] = S]
                /\ copy' = [copy EXCEPT ![r] =
                              [e \in Events |-> IF e \in S THEN attempts[e] ELSE 0]]
                /\ pc' = [pc EXCEPT ![r] = "publish"]
             \/ UNCHANGED <<batch, copy, pc>>
    BY <1>10 DEF Claim
  <2>2. S \in SUBSET Events
    BY DEF Due
  <2>3. wait' \in [Events -> 0..MaxDelay]
    BY <2>1, MaxDelayBounds
  <2>4. [e \in Events |-> IF e \in S THEN attempts[e] ELSE 0] \in [Events -> 0..AttemptCap]
    BY TimeAssumption
  <2>5. batch' \in [Relays -> SUBSET Events] /\ pc' \in [Relays -> RelaySteps]
    BY <2>1, <2>2 DEF RelaySteps
  <2>6. copy' \in [Relays -> [Events -> 0..AttemptCap]]
    BY <2>1, <2>4
  <2> QED
    BY <1>10, <2>3, <2>5, <2>6 DEF Claim, reqVars
<1>11. ASSUME NEW r \in Relays, NEW e \in Events, RelayPublishAck(r, e)
       PROVE  TypeOK'
  BY <1>11 DEF RelayPublishAck, rowVars, reqVars, RelaySteps
<1>12. ASSUME NEW r \in Relays, NEW e \in Events, RelayPublishErr(r, e)
       PROVE  TypeOK'
  <2>1. Saturate(nacks[e] + 1) \in 0..AttemptCap
    BY SaturateBounded
  <2>2. nacks' \in [Events -> 0..AttemptCap] /\ delivered' \subseteq Events
    BY <1>12, <2>1 DEF RelayPublishErr
  <2>3. CASE up[r]
    BY <1>12, <2>2, <2>3 DEF RelayPublishErr, rowVars, reqVars, RelaySteps
  <2>4. CASE ~up[r]
    <3>1. EndPass(r)
      BY <1>12, <2>4 DEF RelayPublishErr
    <3>2. /\ pc' \in [Relays -> RelaySteps]
          /\ batch' \in [Relays -> SUBSET Events]
          /\ copy' \in [Relays -> [Events -> 0..AttemptCap]]
          /\ age' \in [Relays -> 0..PassBound]
      BY <3>1, PassTypes
    <3> QED
      BY <1>12, <2>2, <3>2 DEF RelayPublishErr, rowVars, reqVars
  <2> QED
    BY <2>3, <2>4
<1>13. ASSUME NEW r \in Relays, NEW e \in Events, RelayMarkPublished(r, e)
       PROVE  TypeOK'
  <2>1. MarkPublished(e) \/ MarkFailed(e, 1) \/ UNCHANGED rowVars
    BY <1>13 DEF RelayMarkPublished
  <2>2. /\ status' \in [Events -> Statuses]
        /\ attempts' \in [Events -> 0..AttemptCap]
        /\ wait' \in [Events -> 0..MaxDelay]
    BY <1>13, <2>1, StoreTypes
  <2>3. EndPass(r) \/ NextRecord(r, e)
    BY <1>13 DEF RelayMarkPublished
  <2>4. /\ pc' \in [Relays -> RelaySteps]
        /\ batch' \in [Relays -> SUBSET Events]
        /\ copy' \in [Relays -> [Events -> 0..AttemptCap]]
        /\ age' \in [Relays -> 0..PassBound]
    BY <1>13, <2>3, PassTypes
  <2> QED
    BY <1>13, <2>2, <2>4 DEF RelayMarkPublished, reqVars
<1>14. ASSUME NEW r \in Relays, NEW e \in Events, RelayMarkFailed(r, e)
       PROVE  TypeOK'
  <2>1. copy[r][e] + 1 \in Nat
    BY <1>14
  <2>2. MarkPublished(e) \/ MarkFailed(e, copy[r][e] + 1) \/ UNCHANGED rowVars
    BY <1>14 DEF RelayMarkFailed
  <2>3. /\ status' \in [Events -> Statuses]
        /\ attempts' \in [Events -> 0..AttemptCap]
        /\ wait' \in [Events -> 0..MaxDelay]
    BY <1>14, <2>1, <2>2, StoreTypes
  <2>4. EndPass(r) \/ NextRecord(r, e)
    BY <1>14 DEF RelayMarkFailed
  <2>5. /\ pc' \in [Relays -> RelaySteps]
        /\ batch' \in [Relays -> SUBSET Events]
        /\ copy' \in [Relays -> [Events -> 0..AttemptCap]]
        /\ age' \in [Relays -> 0..PassBound]
    BY <1>14, <2>4, PassTypes
  <2> QED
    BY <1>14, <2>3, <2>5 DEF RelayMarkFailed, reqVars
<1>15. ASSUME NEW r \in Relays, Shutdown(r)
       PROVE  TypeOK'
  BY <1>15, TimeAssumption DEF Shutdown, rowVars, reqVars, RelaySteps
<1>16. ASSUME NEW r \in Relays, Crash(r)
       PROVE  TypeOK'
  BY <1>16, TimeAssumption DEF Crash, rowVars, reqVars, RelaySteps
<1>17. ASSUME NEW r \in Relays, Restart(r)
       PROVE  TypeOK'
  BY <1>17 DEF Restart, rowVars, reqVars, RelaySteps
<1>18. CASE Tick
  <2>1. wait' \in [Events -> 0..MaxDelay]
    BY <1>18, MaxDelayBounds DEF Tick
  <2>2. age' \in [Relays -> 0..PassBound] /\ reqAge' \in [Events -> 0..RequestBound]
    BY <1>18, TimeAssumption DEF Tick
  <2> QED
    BY <1>18, <2>1, <2>2 DEF Tick
<1> QED
  BY <1>1, <1>2, <1>3, <1>4, <1>5, <1>6, <1>7, <1>8, <1>9, <1>10, <1>11, <1>12,
     <1>13, <1>14, <1>15, <1>16, <1>17, <1>18
  DEF Next, RequestStep, RelayStep

\* The types and bounds of every variable hold in every reachable state: no
\* delay ever exceeds what the lease, the grace period and Backoff allow.
THEOREM TypeCorrect == Spec => []TypeOK
<1>1. Init => TypeOK
  BY MaxDelayBounds, TimeAssumption
  DEF Init, TypeOK, Statuses, ReqSteps, RelaySteps
<1>2. TypeOK /\ [Next]_vars => TypeOK'
  BY TypeStep
<1> QED
  BY <1>1, <1>2, PTL DEF Spec

-----------------------------------------------------------------------------
(* No loss and no phantom.  Neither is inductive alone: whoever is about   *)
(* to mark a row published must already have the broker's answer, and      *)
(* whoever may publish a row must have got it from a committed table.      *)

Committed(e) == status[e] \in {"pending", "published", "dead", "pruned"}

\* A publisher that will mark the row has handed the event to the broker.
AckedIsDelivered ==
  /\ \A e \in Events : req[e] = "ack" => e \in delivered
  /\ \A r \in Relays, e \in Events :
       pc[r] = "ack" /\ Current(r, e) => e \in delivered

\* A publisher only holds rows of committed transactions.
HeldIsCommitted ==
  /\ \A e \in Events : req[e] \in {"publish", "ack", "nack"} => Committed(e)
  /\ \A r \in Relays : \A e \in batch[r] : Committed(e)

DeliveryInv ==
  /\ TypeOK
  /\ NoLoss
  /\ NoPhantom
  /\ AckedIsDelivered
  /\ HeldIsCommitted

\* A statement of the store leaves committed rows committed and others alone,
\* and turns only pending rows of the event itself into published ones.
LEMMA StoreStatus ==
  ASSUME TypeOK, NEW e \in Events, NEW n \in Nat,
         MarkPublished(e) \/ MarkFailed(e, n) \/ UNCHANGED rowVars
  PROVE  /\ \A f \in Events : status'[f] # status[f] =>
               /\ f = e
               /\ status[f] = "pending"
               /\ status'[f] \in {"published", "dead"}
               /\ status'[f] = "published" => MarkPublished(e)
BY DEF TypeOK, MarkPublished, MarkFailed, rowVars, Statuses

\* The step of a relay that ends its pass or goes on holds no new row.
LEMMA PassShrinks ==
  ASSUME TypeOK, NEW r \in Relays, NEW e \in Events,
         EndPass(r) \/ NextRecord(r, e)
  PROVE  /\ pc'[r] \in {"idle", "stopped", "publish"}
         /\ batch'[r] \subseteq batch[r]
         /\ \A q \in Relays \ {r} : pc'[q] = pc[q] /\ batch'[q] = batch[q]
<1>1. ASSUME EndPass(r)
      PROVE  /\ pc'[r] \in {"idle", "stopped", "publish"}
             /\ batch'[r] \subseteq batch[r]
             /\ \A q \in Relays \ {r} : pc'[q] = pc[q] /\ batch'[q] = batch[q]
  BY <1>1 DEF TypeOK, EndPass
<1>2. CASE NextRecord(r, e)
  BY <1>1, <1>2 DEF TypeOK, NextRecord
<1> QED
  BY <1>1, <1>2

\* Every step keeps the invariant; one case per action.
LEMMA DeliveryStep ==
  ASSUME DeliveryInv, [Next]_vars
  PROVE  DeliveryInv'
<1> USE DEF DeliveryInv
<1>t. TypeOK'
  BY TypeStep
<1> DEFINE Goal == NoLoss' /\ NoPhantom' /\ AckedIsDelivered' /\ HeldIsCommitted'
<1> SUFFICES Goal
  BY <1>t
<1>1. CASE UNCHANGED vars
  BY <1>1 DEF vars, rowVars, reqVars, relayVars, NoLoss, NoPhantom,
     AckedIsDelivered, HeldIsCommitted, Committed, Current
<1>2. ASSUME NEW e \in Events, Enqueue(e)
      PROVE  Goal
  BY <1>2 DEF TypeOK, Enqueue, reqVars, relayVars, NoLoss, NoPhantom,
     AckedIsDelivered, HeldIsCommitted, Committed, Current
<1>3. ASSUME NEW e \in Events, Commit(e)
      PROVE  Goal
  BY <1>3 DEF TypeOK, Commit, EndRequest, relayVars, NoLoss, NoPhantom,
     AckedIsDelivered, HeldIsCommitted, Committed, Current
<1>4. ASSUME NEW e \in Events, Rollback(e)
      PROVE  Goal
  BY <1>4 DEF TypeOK, Rollback, EndRequest, relayVars, NoLoss, NoPhantom,
     AckedIsDelivered, HeldIsCommitted, Committed, Current
<1>5. ASSUME NEW e \in Events, FastPublishAck(e)
      PROVE  Goal
  BY <1>5 DEF TypeOK, FastPublishAck, rowVars, relayVars, NoLoss, NoPhantom,
     AckedIsDelivered, HeldIsCommitted, Committed, Current
<1>6. ASSUME NEW e \in Events, FastPublishErr(e)
      PROVE  Goal
  BY <1>6 DEF TypeOK, FastPublishErr, EndRequest, rowVars, relayVars, NoLoss,
     NoPhantom, AckedIsDelivered, HeldIsCommitted, Committed, Current
<1>7. ASSUME NEW e \in Events, FastMarkPublished(e)
      PROVE  Goal
  <2>1. MarkPublished(e) \/ MarkFailed(e, 1) \/ UNCHANGED rowVars
    BY <1>7 DEF FastMarkPublished
  <2>2. \A f \in Events : status'[f] # status[f] =>
          f = e /\ status[f] = "pending" /\ status'[f] \in {"published", "dead"}
    BY <2>1, <1>7, StoreStatus
  <2>3. e \in delivered
    BY <1>7 DEF FastMarkPublished, AckedIsDelivered
  <2> QED
    BY <1>7, <2>2, <2>3 DEF TypeOK, FastMarkPublished, EndRequest, relayVars, NoLoss,
       NoPhantom, AckedIsDelivered, HeldIsCommitted, Committed, Current
<1>8. ASSUME NEW e \in Events, FastMarkFailed(e)
      PROVE  Goal
  <2>1. \A f \in Events : status'[f] # status[f] =>
          f = e /\ status[f] = "pending" /\ status'[f] = "dead"
    BY <1>8 DEF TypeOK, FastMarkFailed, MarkFailed, rowVars
  <2> QED
    BY <1>8, <2>1 DEF TypeOK, FastMarkFailed, EndRequest, relayVars, NoLoss,
       NoPhantom, AckedIsDelivered, HeldIsCommitted, Committed, Current
<1>9. ASSUME NEW e \in Events, Prune(e)
      PROVE  Goal
  BY <1>9 DEF TypeOK, Prune, reqVars, relayVars, NoLoss, NoPhantom,
     AckedIsDelivered, HeldIsCommitted, Committed, Current
<1>10. ASSUME NEW r \in Relays, Claim(r)
       PROVE  Goal
  <2>1. /\ batch'[r] \subseteq batch[r] \cup Due
        /\ pc'[r] \in {"idle", "publish"}
        /\ \A q \in Relays \ {r} : pc'[q] = pc[q] /\ batch'[q] = batch[q]
    BY <1>10 DEF TypeOK, Claim
  <2> QED
    BY <1>10, <2>1 DEF TypeOK, Claim, reqVars, NoLoss, NoPhantom,
       AckedIsDelivered, HeldIsCommitted, Committed, Current, Due
<1>11. ASSUME NEW r \in Relays, NEW e \in Events, RelayPublishAck(r, e)
       PROVE  Goal
  <2>1. ASSUME NEW f \in Events, Current(r, f)
        PROVE  f = e
    <3>1. e <= f /\ f <= e
      BY <1>11, <2>1 DEF RelayPublishAck, Current
    <3>2. e \in Nat /\ f \in Nat
      BY EventsAssumption
    <3> QED
      BY <3>1, <3>2
  <2> QED
    BY <1>11, <2>1 DEF TypeOK, RelayPublishAck, rowVars, reqVars, NoLoss, NoPhantom,
       AckedIsDelivered, HeldIsCommitted, Committed, Current
<1>12. ASSUME NEW r \in Relays, NEW e \in Events, RelayPublishErr(r, e)
       PROVE  Goal
  <2>1. /\ pc'[r] # "ack"
        /\ batch'[r] \subseteq batch[r]
        /\ \A q \in Relays \ {r} : pc'[q] = pc[q] /\ batch'[q] = batch[q]
    BY <1>12, PassShrinks DEF TypeOK, RelayPublishErr
  <2> QED
    BY <1>12, <2>1 DEF TypeOK, RelayPublishErr, rowVars, reqVars, NoLoss, NoPhantom,
       AckedIsDelivered, HeldIsCommitted, Committed, Current
<1>13. ASSUME NEW r \in Relays, NEW e \in Events, RelayMarkPublished(r, e)
       PROVE  Goal
  <2>1. MarkPublished(e) \/ MarkFailed(e, 1) \/ UNCHANGED rowVars
    BY <1>13 DEF RelayMarkPublished
  <2>2. \A f \in Events : status'[f] # status[f] =>
          f = e /\ status[f] = "pending" /\ status'[f] \in {"published", "dead"}
    BY <2>1, <1>13, StoreStatus
  <2>3. e \in delivered
    BY <1>13 DEF RelayMarkPublished, AckedIsDelivered
  <2>4. EndPass(r) \/ NextRecord(r, e)
    BY <1>13 DEF RelayMarkPublished
  <2>5. /\ pc'[r] # "ack"
        /\ batch'[r] \subseteq batch[r]
        /\ \A q \in Relays \ {r} : pc'[q] = pc[q] /\ batch'[q] = batch[q]
    BY <2>4, PassShrinks
  <2> QED
    BY <1>13, <2>2, <2>3, <2>5 DEF TypeOK, RelayMarkPublished, reqVars, NoLoss,
       NoPhantom, AckedIsDelivered, HeldIsCommitted, Committed, Current
<1>14. ASSUME NEW r \in Relays, NEW e \in Events, RelayMarkFailed(r, e)
       PROVE  Goal
  <2>1. \A f \in Events : status'[f] # status[f] =>
          f = e /\ status[f] = "pending" /\ status'[f] = "dead"
    BY <1>14 DEF TypeOK, RelayMarkFailed, MarkFailed, rowVars
  <2>2. EndPass(r) \/ NextRecord(r, e)
    BY <1>14 DEF RelayMarkFailed
  <2>3. /\ pc'[r] # "ack"
        /\ batch'[r] \subseteq batch[r]
        /\ \A q \in Relays \ {r} : pc'[q] = pc[q] /\ batch'[q] = batch[q]
    BY <2>2, PassShrinks
  <2> QED
    BY <1>14, <2>1, <2>3 DEF TypeOK, RelayMarkFailed, reqVars, NoLoss,
       NoPhantom, AckedIsDelivered, HeldIsCommitted, Committed, Current
<1>15. ASSUME NEW r \in Relays, Shutdown(r) \/ Crash(r) \/ Restart(r)
       PROVE  Goal
  <2>1. /\ pc'[r] = "ack" => pc[r] = "ack" /\ batch'[r] = batch[r]
        /\ batch'[r] \subseteq batch[r]
        /\ \A q \in Relays \ {r} : pc'[q] = pc[q] /\ batch'[q] = batch[q]
    BY <1>15 DEF TypeOK, Shutdown, Crash, Restart
  <2>2. UNCHANGED <<rowVars, delivered, reqVars>>
    BY <1>15 DEF Shutdown, Crash, Restart
  <2> QED
    BY <2>1, <2>2 DEF TypeOK, rowVars, reqVars, NoLoss, NoPhantom,
       AckedIsDelivered, HeldIsCommitted, Committed, Current
<1>16. CASE Tick
  BY <1>16 DEF Tick, NoLoss, NoPhantom, AckedIsDelivered, HeldIsCommitted,
     Committed, Current
<1> QED
  BY <1>1, <1>2, <1>3, <1>4, <1>5, <1>6, <1>7, <1>8, <1>9, <1>10, <1>11, <1>12,
     <1>13, <1>14, <1>15, <1>16
  DEF Next, RequestStep, RelayStep

LEMMA DeliveryInit == Init => DeliveryInv
<1>1. Init => TypeOK
  BY MaxDelayBounds, TimeAssumption
  DEF Init, TypeOK, Statuses, ReqSteps, RelaySteps
<1> QED
  BY <1>1 DEF Init, DeliveryInv, NoLoss, NoPhantom, AckedIsDelivered, HeldIsCommitted, Committed

LEMMA DeliverySafe == Spec => []DeliveryInv
<1>1. DeliveryInv /\ [Next]_vars => DeliveryInv'
  BY DeliveryStep
<1> QED
  BY <1>1, DeliveryInit, PTL DEF Spec

\* No event is lost: a row is marked published, and may later be pruned, only
\* if the broker accepted the event, for any number of relays, rows, crashes,
\* timeouts and lease expiries.
THEOREM NoLossHolds == Spec => []NoLoss
<1>1. DeliveryInv => NoLoss
  BY DEF DeliveryInv
<1> QED
  BY <1>1, DeliverySafe, PTL

\* No event of a transaction that did not commit ever reaches the broker.
THEOREM NoPhantomHolds == Spec => []NoPhantom
<1>1. DeliveryInv => NoPhantom
  BY DEF DeliveryInv
<1> QED
  BY <1>1, DeliverySafe, PTL

-----------------------------------------------------------------------------
(* One holder per row.  The invariant bounds the age of a claim by the     *)
(* delay left on the row: a row somebody still holds is not yet due.       *)

LeaseHolds ==
  \A r \in Relays : \A e \in batch[r] :
    /\ InPass(r)
    /\ status[e] = "pending"
    /\ wait[e] + age[r] >= Lease

GraceHolds == \A e \in Events : InRequest(e) => wait[e] + reqAge[e] >= Grace

\* A pass and a request start at age 0.
FreshStart ==
  /\ \A r \in Relays : ~InPass(r) => age[r] = 0
  /\ \A e \in Events : status[e] = "none" => reqAge[e] = 0

HoldInv ==
  /\ DeliveryInv
  /\ LeaseHolds
  /\ GraceHolds
  /\ FreshStart
  /\ Exclusive

\* The relay only lets go of rows; X are those whose columns it changed first.
LetsGo(r, X) ==
  /\ \A e \in Events \ X : wait'[e] = wait[e] /\ status'[e] = status[e]
  /\ \A e \in X : e \in batch[r] /\ e \notin batch'[r] /\ status'[e] \notin {"none", "open"}
  /\ batch'[r] \subseteq batch[r]
  /\ InPass(r)' \/ (batch'[r] = {} /\ age'[r] = 0)
  /\ age'[r] = age[r] \/ batch'[r] = {}
  /\ \A q \in Relays \ {r} :
       pc'[q] = pc[q] /\ batch'[q] = batch[q] /\ age'[q] = age[q]
  /\ UNCHANGED reqVars

\* Such a step keeps every other claim.
LEMMA LetGo ==
  ASSUME HoldInv, NEW r \in Relays, NEW X \in SUBSET Events, LetsGo(r, X)
  PROVE  LeaseHolds' /\ GraceHolds' /\ FreshStart' /\ Exclusive'
<1> USE DEF HoldInv, LetsGo
<1>1. \A e \in X : ~InRequest(e) /\ status[e] = "pending"
  BY DEF Exclusive, LeaseHolds
<1>2. \A e \in Events : InRequest(e)' => InRequest(e) /\ e \notin X
  BY <1>1 DEF InRequest, reqVars
<1>3. \A q \in Relays \ {r} : \A e \in batch[q] : e \notin X
  BY DEF Exclusive
<1>4. LeaseHolds'
  <2>1. ASSUME NEW q \in Relays \ {r}, NEW e \in batch'[q]
        PROVE  InPass(q)' /\ status'[e] = "pending" /\ wait'[e] + age'[q] >= Lease
    <3>1. e \in batch[q] /\ e \in Events /\ e \notin X
      BY <1>3, <2>1 DEF DeliveryInv, TypeOK
    <3> QED
      BY <2>1, <3>1 DEF LeaseHolds, InPass
  <2>2. ASSUME NEW e \in batch'[r]
        PROVE  InPass(r)' /\ status'[e] = "pending" /\ wait'[e] + age'[r] >= Lease
    <3>1. e \in batch[r] /\ e \in Events /\ e \notin X
      BY <2>2 DEF DeliveryInv, TypeOK
    <3> QED
      BY <2>2, <3>1 DEF LeaseHolds
  <2> QED
    BY <2>1, <2>2 DEF LeaseHolds
<1>5. GraceHolds'
  BY <1>2 DEF GraceHolds, reqVars
<1>6. FreshStart'
  <2>1. \A q \in Relays : ~InPass(q)' => age'[q] = 0
    BY DEF FreshStart, InPass
  <2>2. \A e \in Events : status'[e] = "none" => status[e] = "none"
    OBVIOUS
  <2> QED
    BY <2>1, <2>2 DEF FreshStart, reqVars
<1>7. Exclusive'
  <2>1. \A q \in Relays : batch'[q] \subseteq batch[q] /\ batch[q] \subseteq Events
    BY DEF DeliveryInv, TypeOK
  <2>2. \A e \in Events : InRequest(e)' => InRequest(e)
    BY <1>2
  <2> HIDE DEF HoldInv, LetsGo
  <2> QED
    BY <2>1, <2>2, HoldInv DEF HoldInv, Exclusive
<1> QED
  BY <1>4, <1>5, <1>6, <1>7

\* A request takes a step of its own: its row stays out of the relays' hands,
\* and its age and the wait of the row stay while it goes on.
RequestGoesOn(e) ==
  /\ \A f \in Events \ {e} : /\ status'[f] = status[f] /\ wait'[f] = wait[f]
                             /\ reqAge'[f] = reqAge[f] /\ (InRequest(f)' <=> InRequest(f))
  /\ status'[e] # "none"
  /\ InRequest(e)' => (wait'[e] = wait[e] /\ reqAge'[e] = reqAge[e])
  /\ UNCHANGED relayVars

\* Such a step keeps what holds of the relays and of the other requests.
LEMMA RequestKeeps ==
  ASSUME HoldInv, TypeOK, NEW e \in Events, InRequest(e), RequestGoesOn(e)
  PROVE  LeaseHolds' /\ GraceHolds' /\ FreshStart' /\ Exclusive'
<1>1. \A r \in Relays : batch'[r] = batch[r] /\ age'[r] = age[r] /\ pc'[r] = pc[r]
  BY DEF RequestGoesOn, relayVars
<1>2. \A r \in Relays : batch[r] \subseteq Events \ {e}
  BY DEF HoldInv, Exclusive, TypeOK
<1>3. LeaseHolds'
  BY <1>1, <1>2 DEF HoldInv, LeaseHolds, InPass, RequestGoesOn
<1>4. GraceHolds'
  BY DEF HoldInv, GraceHolds, RequestGoesOn
<1>5. FreshStart'
  BY <1>1 DEF HoldInv, FreshStart, InPass, RequestGoesOn
<1>6. Exclusive'
  BY <1>1, <1>2 DEF HoldInv, Exclusive, RequestGoesOn
<1> QED
  BY <1>3, <1>4, <1>5, <1>6

\* Every step keeps it while passes and requests are timely.
LEMMA HoldStep ==
  ASSUME Timely, HoldInv, [Next]_vars
  PROVE  HoldInv'
<1> USE DEF HoldInv
<1>t. DeliveryInv'
  BY DeliveryStep
<1> DEFINE Goal == LeaseHolds' /\ GraceHolds' /\ FreshStart' /\ Exclusive'
<1> SUFFICES Goal
  BY <1>t
<1>y. TypeOK /\ TypeOK'
  BY <1>t DEF DeliveryInv
<1>c. \A e \in Events : req[e] \in {"publish", "ack", "nack"} => Committed(e)
  BY DEF DeliveryInv, HeldIsCommitted
<1>1. CASE UNCHANGED vars
  BY <1>1 DEF vars, rowVars, reqVars, relayVars, LeaseHolds, GraceHolds, FreshStart,
     Exclusive, InPass, InRequest
<1>2. ASSUME NEW e \in Events, Enqueue(e)
      PROVE  Goal
  <2>1. \A r \in Relays : e \notin batch[r]
    BY <1>2 DEF Enqueue, LeaseHolds
  <2>2. reqAge[e] = 0
    BY <1>2 DEF Enqueue, FreshStart
  <2> QED
    BY <1>2, <1>y, <2>1, <2>2, TimeAssumption DEF TypeOK, Enqueue, reqVars, relayVars,
       LeaseHolds, GraceHolds, FreshStart, Exclusive, InPass, InRequest
<1>3. ASSUME NEW e \in Events, Commit(e)
      PROVE  Goal
  <2>1. \A r \in Relays : e \notin batch[r]
    BY <1>3 DEF Commit, LeaseHolds
  <2> QED
    BY <1>3, <1>y, <2>1 DEF TypeOK, Commit, EndRequest, relayVars,
       LeaseHolds, GraceHolds, FreshStart, Exclusive, InPass, InRequest
<1>4. ASSUME NEW e \in Events, Rollback(e)
      PROVE  Goal
  <2>1. \A r \in Relays : e \notin batch[r]
    BY <1>4 DEF Rollback, LeaseHolds
  <2> QED
    BY <1>4, <1>y, <2>1 DEF TypeOK, Rollback, EndRequest, relayVars,
       LeaseHolds, GraceHolds, FreshStart, Exclusive, InPass, InRequest
<1>5. ASSUME NEW e \in Events, FastPublishAck(e)
      PROVE  Goal
  BY <1>5, <1>y DEF TypeOK, FastPublishAck, rowVars, relayVars,
     LeaseHolds, GraceHolds, FreshStart, Exclusive, InPass, InRequest
<1>6. ASSUME NEW e \in Events, FastPublishErr(e)
      PROVE  Goal
  <2>1. InRequest(e) /\ Committed(e)
    BY <1>6, <1>c DEF FastPublishErr, InRequest
  <2>2. status' = status /\ wait' = wait /\ UNCHANGED relayVars
    BY <1>6 DEF FastPublishErr, rowVars
  <2>3. /\ \A f \in Events \ {e} : req'[f] = req[f] /\ reqAge'[f] = reqAge[f]
        /\ \/ req'[e] = "nack" /\ reqAge'[e] = reqAge[e]
           \/ req'[e] = "done"
    BY <1>6, <1>y DEF TypeOK, FastPublishErr, EndRequest
  <2>4. RequestGoesOn(e)
    BY <2>1, <2>2, <2>3 DEF RequestGoesOn, InRequest, Committed
  <2> QED
    BY <1>y, <2>1, <2>4, RequestKeeps
<1>7. ASSUME NEW e \in Events, FastMarkPublished(e) \/ FastMarkFailed(e)
      PROVE  Goal
  <2>1. InRequest(e) /\ Committed(e)
    BY <1>7, <1>c DEF FastMarkPublished, FastMarkFailed, InRequest
  <2>2. /\ \A f \in Events \ {e} : status'[f] = status[f] /\ wait'[f] = wait[f]
        /\ status'[e] \notin {"none", "open"}
    BY <1>7, <1>y, <2>1 DEF TypeOK, FastMarkPublished, FastMarkFailed, MarkPublished,
       MarkFailed, rowVars, Committed
  <2>3. /\ req' = [req EXCEPT ![e] = "done"]
        /\ reqAge' = [reqAge EXCEPT ![e] = 0]
        /\ UNCHANGED relayVars
    BY <1>7 DEF FastMarkPublished, FastMarkFailed, EndRequest
  <2>4. /\ req'[e] = "done"
        /\ \A f \in Events \ {e} : req'[f] = req[f] /\ reqAge'[f] = reqAge[f]
    BY <1>y, <2>3 DEF TypeOK
  <2>5. RequestGoesOn(e)
    BY <2>2, <2>3, <2>4 DEF RequestGoesOn, InRequest
  <2> QED
    BY <1>y, <2>1, <2>5, RequestKeeps
<1>8. ASSUME NEW e \in Events, Prune(e)
      PROVE  Goal
  <2>1. \A r \in Relays : e \notin batch[r]
    BY <1>8 DEF Prune, LeaseHolds
  <2> QED
    BY <1>8, <1>y, <2>1 DEF TypeOK, Prune, reqVars, relayVars,
       LeaseHolds, GraceHolds, FreshStart, Exclusive, InPass, InRequest
<1>9. ASSUME NEW r \in Relays, Claim(r)
      PROVE  Goal
  <2>1. PICK S \in SUBSET Due :
          /\ wait' = [e \in Events |-> IF e \in S THEN Lease ELSE wait[e]]
          /\ \/ batch' = [batch EXCEPT ![r] = S] /\ pc' = [pc EXCEPT ![r] = "publish"]
             \/ UNCHANGED <<batch, pc>>
    BY <1>9 DEF Claim
  <2>2. ASSUME NEW e \in S
        PROVE  /\ e \in Events /\ status[e] = "pending" /\ ~InRequest(e)
               /\ \A q \in Relays : e \notin batch[q]
    <3>1. e \in Events /\ status[e] = "pending" /\ wait[e] = 0
      BY <2>2 DEF Due
    <3>2. ~InRequest(e)
      BY <1>y, <3>1, TimeAssumption DEF TypeOK, GraceHolds, Timely
    <3>3. \A q \in Relays : e \notin batch[q]
      BY <1>y, <3>1, TimeAssumption DEF TypeOK, LeaseHolds, Timely
    <3> QED
      BY <3>1, <3>2, <3>3
  <2>3. /\ pc[r] = "idle" /\ age[r] = 0 /\ batch[r] = {}
        /\ UNCHANGED <<status, reqVars, age>>
    BY <1>9, <1>y DEF TypeOK, Claim, FreshStart, InPass, LeaseHolds
  <2>4. \A e \in Events : InRequest(e)' = InRequest(e)
    BY <2>3 DEF InRequest, reqVars
  <2>5. /\ \A q \in Relays \ {r} : batch'[q] = batch[q] /\ pc'[q] = pc[q]
        /\ \/ batch'[r] = S /\ pc'[r] = "publish"
           \/ batch'[r] = {} /\ pc'[r] = "idle"
    BY <1>y, <2>1, <2>3 DEF TypeOK
  <2>6. LeaseHolds'
    <3>1. ASSUME NEW e \in batch'[r]
          PROVE  InPass(r)' /\ status'[e] = "pending" /\ wait'[e] + age'[r] >= Lease
      <4>1. e \in S /\ pc'[r] = "publish"
        BY <2>5, <3>1
      <4> QED
        BY <2>1, <2>2, <2>3, <4>1, TimeAssumption DEF InPass
    <3>2. ASSUME NEW q \in Relays \ {r}, NEW e \in batch'[q]
          PROVE  InPass(q)' /\ status'[e] = "pending" /\ wait'[e] + age'[q] >= Lease
      <4>1. e \in batch[q] /\ e \notin S /\ e \in Events
        BY <1>y, <2>2, <2>5, <3>2 DEF TypeOK
      <4> QED
        BY <2>1, <2>3, <2>5, <4>1 DEF LeaseHolds, InPass
    <3> QED
      BY <3>1, <3>2 DEF LeaseHolds
  <2>7. GraceHolds'
    BY <1>y, <2>1, <2>2, <2>3, <2>4 DEF TypeOK, GraceHolds, reqVars
  <2>8. FreshStart'
    BY <2>3, <2>5 DEF FreshStart, InPass, reqVars
  <2>9. Exclusive'
    BY <2>2, <2>4, <2>5, <1>y DEF TypeOK, Exclusive
  <2> QED
    BY <2>6, <2>7, <2>8, <2>9
<1>10. ASSUME NEW r \in Relays, NEW e \in Events, RelayPublishAck(r, e)
       PROVE  Goal
  BY <1>10, <1>y DEF TypeOK, RelayPublishAck, rowVars, reqVars,
     LeaseHolds, GraceHolds, FreshStart, Exclusive, InPass, InRequest
<1>11. ASSUME NEW r \in Relays, NEW e \in Events, RelayPublishErr(r, e)
       PROVE  Goal
  <2>1. CASE up[r]
    <3>1. /\ status' = status /\ wait' = wait /\ UNCHANGED reqVars
          /\ batch' = batch /\ age' = age
      BY <1>11, <2>1 DEF RelayPublishErr, rowVars
    <3>2. InPass(r) /\ InPass(r)' /\ \A q \in Relays \ {r} : pc'[q] = pc[q]
      BY <1>11, <1>y, <2>1 DEF TypeOK, RelayPublishErr, InPass
    <3> QED
      BY <3>1, <3>2 DEF reqVars, LeaseHolds, GraceHolds, FreshStart, Exclusive, InPass,
         InRequest
  <2>2. CASE ~up[r]
    <3>1. EndPass(r) /\ UNCHANGED <<rowVars, reqVars>>
      BY <1>11, <2>2 DEF RelayPublishErr
    <3>2. LetsGo(r, {})
      BY <1>y, <3>1 DEF TypeOK, EndPass, rowVars, LetsGo
    <3> QED
      BY <3>2, LetGo
  <2> QED
    BY <2>1, <2>2
<1>12. ASSUME NEW r \in Relays, NEW e \in Events,
              RelayMarkPublished(r, e) \/ RelayMarkFailed(r, e)
       PROVE  Goal
  <2>1. /\ e \in batch[r] /\ status[e] = "pending" /\ InPass(r)
        /\ EndPass(r) \/ (up[r] /\ NextRecord(r, e))
        /\ UNCHANGED <<reqVars, up>>
    BY <1>12 DEF RelayMarkPublished, RelayMarkFailed, Current, LeaseHolds
  <2>2. \A f \in Events \ {e} : wait'[f] = wait[f] /\ status'[f] = status[f]
    BY <1>12, <1>y DEF TypeOK, RelayMarkPublished, RelayMarkFailed, MarkPublished,
       MarkFailed, rowVars
  <2>3. status'[e] \notin {"none", "open"}
    BY <1>12, <1>y, <2>1 DEF TypeOK, RelayMarkPublished, RelayMarkFailed, MarkPublished,
       MarkFailed, rowVars
  <2>4. \/ batch'[r] = {} /\ age'[r] = 0
        \/ batch'[r] = batch[r] \ {e} /\ pc'[r] = "publish" /\ age' = age
    BY <1>y, <2>1 DEF TypeOK, EndPass, NextRecord
  <2>5. \A q \in Relays \ {r} :
          pc'[q] = pc[q] /\ batch'[q] = batch[q] /\ age'[q] = age[q]
    BY <1>y, <2>1 DEF TypeOK, EndPass, NextRecord
  <2>6. LetsGo(r, {e})
    BY <2>1, <2>2, <2>3, <2>4, <2>5 DEF InPass, LetsGo
  <2> QED
    BY <2>6, LetGo
<1>13. ASSUME NEW r \in Relays, Shutdown(r) \/ Restart(r)
       PROVE  Goal
  <2>1. /\ UNCHANGED <<rowVars, reqVars, batch, age>>
        /\ \A q \in Relays : InPass(q)' = InPass(q)
    BY <1>13, <1>y DEF TypeOK, Shutdown, Restart, InPass
  <2> QED
    BY <2>1 DEF rowVars, reqVars, LeaseHolds, GraceHolds, FreshStart, Exclusive, InRequest
<1>14. ASSUME NEW r \in Relays, Crash(r)
       PROVE  Goal
  <2>1. LetsGo(r, {})
    BY <1>14, <1>y DEF TypeOK, Crash, rowVars, LetsGo
  <2> QED
    BY <2>1, LetGo
<1>15. CASE Tick
  <2>1. /\ \A e \in Events : InRequest(e)' = InRequest(e)
        /\ \A r \in Relays : InPass(r)' = InPass(r)
    BY <1>15 DEF Tick, InRequest, InPass
  <2>2. \A r \in Relays, e \in Events :
          InPass(r) => wait'[e] + age'[r] >= wait[e] + age[r]
    BY <1>15, <1>y DEF TypeOK, Tick
  <2>3. \A e \in Events : InRequest(e) => wait'[e] + reqAge'[e] >= wait[e] + reqAge[e]
    BY <1>15, <1>y DEF TypeOK, Tick
  <2>4. LeaseHolds'
    <3>1. ASSUME NEW r \in Relays, NEW e \in batch[r]
          PROVE  wait'[e] + age'[r] >= Lease
      <4>1. e \in Events /\ wait[e] \in Nat /\ age[r] \in Nat /\ wait'[e] \in Nat /\ age'[r] \in Nat
        BY <1>y DEF TypeOK
      <4> QED
        BY <2>2, <4>1, TimeAssumption DEF LeaseHolds
    <3> QED
      BY <1>15, <2>1, <3>1 DEF LeaseHolds, Tick
  <2>5. GraceHolds'
    <3>1. \A e \in Events : wait[e] \in Nat /\ reqAge[e] \in Nat /\ wait'[e] \in Nat /\ reqAge'[e] \in Nat
      BY <1>y DEF TypeOK
    <3> QED
      BY <2>1, <2>3, <3>1, TimeAssumption DEF GraceHolds
  <2>6. FreshStart'
    BY <1>15, <1>y, <1>c, <2>1 DEF TypeOK, FreshStart, Tick, InRequest, Committed
  <2>7. Exclusive'
    BY <1>15, <1>y, <2>1 DEF TypeOK, Exclusive, Tick
  <2> QED
    BY <2>4, <2>5, <2>6, <2>7
<1> QED
  BY <1>1, <1>2, <1>3, <1>4, <1>5, <1>6, <1>7, <1>8, <1>9, <1>10, <1>11, <1>12,
     <1>13, <1>14, <1>15
  DEF Next, RequestStep, RelayStep

\* One holder per row: with passes shorter than the lease and requests shorter
\* than the grace period, no two publishers ever hold the same row, whatever
\* fails or crashes.
THEOREM ExclusiveHolds == Timely => (Spec => []Exclusive)
<1> SUFFICES ASSUME Timely
             PROVE  Spec => []Exclusive
  OBVIOUS
<1>1. Init => HoldInv
  <2>1. Init => DeliveryInv
    BY DeliveryInit
  <2> QED
    BY <2>1 DEF Init, HoldInv, LeaseHolds, GraceHolds, FreshStart, Exclusive, InRequest
<1>2. HoldInv /\ [Next]_vars => HoldInv'
  BY HoldStep
<1>3. HoldInv => Exclusive
  BY DEF HoldInv
<1> QED
  BY <1>1, <1>2, <1>3, PTL DEF Spec

-----------------------------------------------------------------------------
(* Dead letters.  MarkFailed counts from the record the caller holds, which *)
(* may be stale; no count anywhere is ahead of the failures of the row, and *)
(* a caller that is about to charge one has seen one more than its record.  *)

\* attempts, and the fast path's count of 1, are covered by failed publishes.
RowsCharged ==
  \A e \in Events : attempts[e] <= nacks[e] /\ (req[e] = "nack" => nacks[e] > 0)

\* So is every relay's copy, and its copy + 1 when the publish has failed.
RelaysCharged ==
  \A r \in Relays, e \in Events :
    /\ copy[r][e] <= nacks[e]
    /\ pc[r] = "nack" /\ Current(r, e) => Saturate(copy[r][e] + 1) <= nacks[e]

ChargeInv == TypeOK /\ RowsCharged /\ RelaysCharged /\ DeadOnlyAfterMax

\* Steps that change no count but may add failures.
LEMMA ChargeRows ==
  ASSUME ChargeInv, TypeOK', UNCHANGED attempts,
         \A e \in Events : /\ nacks[e] <= nacks'[e]
                           /\ status'[e] = "dead" => status[e] = "dead"
                           /\ req'[e] = "nack" => req[e] = "nack" \/ nacks'[e] > 0
  PROVE  RowsCharged' /\ DeadOnlyAfterMax'
<1>1. \A e \in Events : attempts[e] \in Nat /\ nacks[e] \in Nat /\ nacks'[e] \in Nat
  BY TimeAssumption DEF ChargeInv, TypeOK
<1>2. MaxAttempts \in Nat
  BY TimeAssumption
<1>3. RowsCharged'
  BY <1>1 DEF ChargeInv, RowsCharged
<1>4. DeadOnlyAfterMax'
  BY <1>1, <1>2 DEF ChargeInv, DeadOnlyAfterMax
<1> QED
  BY <1>3, <1>4

\* A relay stays where it is, or it leaves the step that charges a failure and
\* takes no count that is not a row's.
LEMMA ChargeRelays ==
  ASSUME ChargeInv, TypeOK', \A e \in Events : nacks[e] <= nacks'[e],
         \A r \in Relays :
           \/ pc'[r] = pc[r] /\ batch'[r] = batch[r] /\ copy'[r] = copy[r]
           \/ /\ pc'[r] # "nack"
              /\ \A e \in Events : copy'[r][e] \in {0, attempts[e], copy[r][e]}
  PROVE  RelaysCharged'
<1> SUFFICES ASSUME NEW r \in Relays, NEW e \in Events
             PROVE  /\ copy'[r][e] <= nacks'[e]
                    /\ pc'[r] = "nack" /\ Current(r, e)' => Saturate(copy'[r][e] + 1) <= nacks'[e]
  BY DEF RelaysCharged, Saturate
<1>1. /\ attempts[e] \in Nat /\ nacks[e] \in Nat /\ nacks'[e] \in Nat /\ copy[r][e] \in Nat
      /\ copy'[r][e] \in Nat /\ AttemptCap \in Nat
  BY TimeAssumption DEF ChargeInv, TypeOK
<1>2. /\ attempts[e] <= nacks[e] /\ copy[r][e] <= nacks[e] /\ nacks[e] <= nacks'[e]
      /\ pc[r] = "nack" /\ Current(r, e) => Saturate(copy[r][e] + 1) <= nacks[e]
  BY DEF ChargeInv, RowsCharged, RelaysCharged
<1>3. CASE pc'[r] = pc[r] /\ batch'[r] = batch[r] /\ copy'[r] = copy[r]
  BY <1>1, <1>2, <1>3 DEF Current, Saturate
<1>4. CASE pc'[r] # "nack" /\ copy'[r][e] \in {0, attempts[e], copy[r][e]}
  BY <1>1, <1>2, <1>4
<1> QED
  BY <1>3, <1>4

\* A failure is charged with a count that is covered: the row may become dead.
LEMMA ChargeMark ==
  ASSUME ChargeInv, TypeOK', NEW e \in Events, NEW n \in Nat \ {0}, Saturate(n) <= nacks[e],
         MarkFailed(e, n) \/ UNCHANGED rowVars, nacks' = nacks,
         \A f \in Events : req'[f] = "nack" => req[f] = "nack"
  PROVE  RowsCharged' /\ DeadOnlyAfterMax'
<1>1. /\ MaxAttempts \in Nat /\ AttemptCap \in Nat /\ MaxAttempts <= AttemptCap
      /\ \A f \in Events : nacks[f] \in Nat /\ attempts[f] \in Nat
  BY TimeAssumption DEF ChargeInv, TypeOK
<1>2. CASE UNCHANGED rowVars
  BY <1>2 DEF rowVars, ChargeInv, RowsCharged, DeadOnlyAfterMax
<1>3. CASE MarkFailed(e, n) /\ status[e] = "pending"
  <2>1. /\ \A f \in Events \ {e} : attempts'[f] = attempts[f] /\ status'[f] = status[f]
        /\ attempts'[e] = Saturate(n)
        /\ status'[e] = "dead" => MaxAttempts > 0 /\ n >= MaxAttempts
    BY <1>3 DEF MarkFailed, ChargeInv, TypeOK
  <2>2. n >= MaxAttempts => nacks[e] >= MaxAttempts
    BY <1>1 DEF Saturate
  <2> QED
    BY <2>1, <2>2 DEF ChargeInv, RowsCharged, DeadOnlyAfterMax
<1> QED
  BY <1>2, <1>3 DEF MarkFailed

\* Every step keeps the counts covered; one case per action that moves one.
LEMMA ChargeStep ==
  ASSUME ChargeInv, [Next]_vars
  PROVE  ChargeInv'
<1>t. TypeOK /\ TypeOK'
  BY TypeStep DEF ChargeInv
<1>n. \A e \in Events : nacks[e] \in Nat /\ nacks[e] <= AttemptCap /\ nacks[e] <= nacks[e]
                        /\ nacks[e] <= Saturate(nacks[e] + 1) /\ Saturate(nacks[e] + 1) > 0
  BY <1>t, TimeAssumption DEF TypeOK, Saturate
<1> DEFINE Goal == RowsCharged' /\ RelaysCharged' /\ DeadOnlyAfterMax'
<1> SUFFICES Goal
  BY <1>t DEF ChargeInv
<1>1. CASE UNCHANGED <<attempts, nacks, status, req, pc, batch, copy>>
  BY <1>1, <1>n, <1>t, ChargeRows, ChargeRelays
<1>2. ASSUME NEW e \in Events,
             Enqueue(e) \/ Commit(e) \/ Rollback(e) \/ FastPublishAck(e) \/ Prune(e)
                        \/ FastMarkPublished(e)
      PROVE  Goal
  <2>1. UNCHANGED <<attempts, nacks, pc, batch, copy>>
    BY <1>2 DEF Enqueue, Commit, Rollback, FastPublishAck, Prune, FastMarkPublished, MarkPublished,
       rowVars, relayVars
  <2>2. \A f \in Events : /\ status'[f] = "dead" => status[f] = "dead"
                          /\ req'[f] = "nack" => req[f] = "nack"
    BY <1>2, <1>t DEF TypeOK, Enqueue, Commit, Rollback, FastPublishAck, Prune, FastMarkPublished,
       MarkPublished, EndRequest, rowVars, reqVars
  <2> QED
    BY <1>n, <1>t, <2>1, <2>2, ChargeRows, ChargeRelays
<1>3. ASSUME NEW e \in Events, FastPublishErr(e) PROVE Goal
  <2>1. UNCHANGED <<status, attempts, pc, batch, copy>>
    BY <1>3 DEF FastPublishErr, rowVars, relayVars
  <2>2. \A f \in Events : nacks[f] <= nacks'[f] /\ (req'[f] = "nack" => req[f] = "nack" \/ nacks'[f] > 0)
    BY <1>3, <1>n, <1>t, ZenonT(60) DEF TypeOK, FastPublishErr, EndRequest
  <2> QED
    BY <1>t, <2>1, <2>2, ChargeRows, ChargeRelays
<1>4. ASSUME NEW e \in Events, FastMarkFailed(e) PROVE Goal
  <2>1. /\ UNCHANGED <<nacks, pc, batch, copy>> /\ nacks[e] > 0
        /\ MarkFailed(e, 1) \/ UNCHANGED rowVars
    BY <1>4 DEF FastMarkFailed, relayVars, ChargeInv, RowsCharged
  <2>2. \A f \in Events : req'[f] = "nack" => req[f] = "nack"
    BY <1>4, <1>t DEF TypeOK, FastMarkFailed, EndRequest
  <2>3. Saturate(1) <= nacks[e]
    BY <1>n, <2>1, TimeAssumption DEF Saturate
  <2> QED
    BY <1>n, <1>t, <2>1, <2>2, <2>3, ChargeMark, ChargeRelays
<1>5. ASSUME NEW r \in Relays, Claim(r) PROVE Goal
  <2>1. UNCHANGED <<status, attempts, nacks, req>>
    BY <1>5 DEF Claim, reqVars
  <2>2. \A q \in Relays \ {r} : pc'[q] = pc[q] /\ batch'[q] = batch[q] /\ copy'[q] = copy[q]
    BY <1>5, <1>t DEF TypeOK, Claim
  <2>3. \/ pc'[r] = pc[r] /\ batch'[r] = batch[r] /\ copy'[r] = copy[r]
        \/ /\ pc'[r] # "nack"
           /\ \A e \in Events : copy'[r][e] \in {0, attempts[e], copy[r][e]}
    BY <1>5, <1>t DEF TypeOK, Claim
  <2> QED
    BY <1>n, <1>t, <2>1, <2>2, <2>3, ChargeRows, ChargeRelays
<1>6. ASSUME NEW r \in Relays, NEW e \in Events, EndPass(r) \/ NextRecord(r, e)
      PROVE  \A q \in Relays :
               \/ pc'[q] = pc[q] /\ batch'[q] = batch[q] /\ copy'[q] = copy[q]
               \/ /\ pc'[q] # "nack"
                  /\ \A f \in Events : copy'[q][f] \in {0, attempts[f], copy[q][f]}
  <2>1. ASSUME EndPass(r)
        PROVE  /\ \A q \in Relays \ {r} : pc'[q] = pc[q] /\ batch'[q] = batch[q] /\ copy'[q] = copy[q]
               /\ pc'[r] # "nack" /\ \A f \in Events : copy'[r][f] = 0
    BY <1>t, <2>1 DEF TypeOK, EndPass
  <2>2. ASSUME NextRecord(r, e), batch[r] # {e}
        PROVE  /\ \A q \in Relays \ {r} : pc'[q] = pc[q] /\ batch'[q] = batch[q] /\ copy'[q] = copy[q]
               /\ pc'[r] # "nack" /\ \A f \in Events : copy'[r][f] \in {0, copy[r][f]}
    BY <1>t, <2>2 DEF TypeOK, NextRecord
  <2> QED
    BY <1>6, <2>1, <2>2 DEF NextRecord
<1>7. ASSUME NEW r \in Relays, NEW e \in Events, RelayPublishAck(r, e) \/ RelayMarkPublished(r, e)
      PROVE  Goal
  <2>1. /\ UNCHANGED <<attempts, nacks, req>>
        /\ \A f \in Events : status'[f] = "dead" => status[f] = "dead"
    BY <1>7, <1>t DEF TypeOK, RelayPublishAck, RelayMarkPublished, MarkPublished, rowVars, reqVars
  <2>2. CASE RelayPublishAck(r, e)
    <3>1. \A q \in Relays :
            \/ pc'[q] = pc[q] /\ batch'[q] = batch[q] /\ copy'[q] = copy[q]
            \/ pc'[q] # "nack" /\ \A f \in Events : copy'[q][f] \in {0, attempts[f], copy[q][f]}
      BY <1>t, <2>2 DEF TypeOK, RelayPublishAck
    <3> QED
      BY <1>n, <1>t, <2>1, <3>1, ChargeRows, ChargeRelays
  <2>3. CASE RelayMarkPublished(r, e)
    <3>1. EndPass(r) \/ NextRecord(r, e)
      BY <2>3 DEF RelayMarkPublished
    <3> QED
      BY <1>6, <1>n, <1>t, <2>1, <3>1, ChargeRows, ChargeRelays
  <2> QED
    BY <1>7, <2>2, <2>3
<1>8. ASSUME NEW r \in Relays, NEW e \in Events, RelayPublishErr(r, e) PROVE Goal
  <2>1. UNCHANGED <<status, attempts, req>>
    BY <1>8 DEF RelayPublishErr, rowVars, reqVars
  <2>2. CASE up[r]
    <3>1. /\ nacks' = [nacks EXCEPT ![e] = Saturate(nacks[e] + 1)] /\ UNCHANGED <<batch, copy>>
          /\ pc' = [pc EXCEPT ![r] = "nack"] /\ Current(r, e)
      BY <1>8, <2>2 DEF RelayPublishErr
    <3>2. \A f \in Events : nacks[f] <= nacks'[f]
      BY <1>n, <1>t, <3>1 DEF TypeOK
    <3>3. RowsCharged' /\ DeadOnlyAfterMax'
      BY <1>t, <2>1, <3>2, ChargeRows
    <3>4. RelaysCharged'
      <4> SUFFICES ASSUME NEW q \in Relays, NEW f \in Events
                   PROVE  /\ copy'[q][f] <= nacks'[f]
                          /\ pc'[q] = "nack" /\ Current(q, f)' => Saturate(copy'[q][f] + 1) <= nacks'[f]
        BY DEF RelaysCharged, Saturate
      <4>1. /\ nacks[f] \in Nat /\ nacks'[f] \in Nat /\ copy[q][f] \in Nat /\ AttemptCap \in Nat
            /\ copy[q][f] <= nacks[f] /\ nacks[f] <= nacks'[f]
            /\ pc[q] = "nack" /\ Current(q, f) => Saturate(copy[q][f] + 1) <= nacks[f]
        BY <1>t, <3>2, TimeAssumption DEF TypeOK, ChargeInv, RelaysCharged
      <4>2. CASE q # r
        BY <1>t, <3>1, <4>1, <4>2 DEF TypeOK, Current, Saturate
      <4>3. CASE q = r /\ Current(r, f)
        <5>1. f = e
          BY <3>1, <4>3, EventsAssumption DEF Current
        <5>2. nacks'[f] = Saturate(nacks[f] + 1)
          BY <1>t, <3>1, <5>1 DEF TypeOK
        <5> QED
          BY <3>1, <4>1, <4>3, <5>2 DEF Saturate
      <4>4. CASE q = r /\ ~Current(r, f)
        BY <3>1, <4>1, <4>4 DEF Current
      <4> QED
        BY <4>2, <4>3, <4>4
    <3> QED
      BY <3>3, <3>4
  <2>3. CASE ~up[r]
    <3>1. EndPass(r) /\ UNCHANGED nacks
      BY <1>8, <2>3 DEF RelayPublishErr
    <3> QED
      BY <1>6, <1>n, <1>t, <2>1, <3>1, ChargeRows, ChargeRelays
  <2> QED
    BY <2>2, <2>3
<1>9. ASSUME NEW r \in Relays, NEW e \in Events, RelayMarkFailed(r, e) PROVE Goal
  <2>1. /\ MarkFailed(e, copy[r][e] + 1) \/ UNCHANGED rowVars
        /\ EndPass(r) \/ NextRecord(r, e)
        /\ UNCHANGED <<nacks, req>>
    BY <1>9 DEF RelayMarkFailed, reqVars
  <2>2. Saturate(copy[r][e] + 1) <= nacks[e] /\ copy[r][e] + 1 \in Nat \ {0}
    BY <1>9, <1>t DEF RelayMarkFailed, ChargeInv, RelaysCharged, TypeOK
  <2>3. RowsCharged' /\ DeadOnlyAfterMax'
    BY <1>t, <2>1, <2>2, ChargeMark
  <2>4. RelaysCharged'
    BY <1>6, <1>n, <1>t, <2>1, ChargeRelays
  <2> QED
    BY <2>3, <2>4
<1>10. ASSUME NEW r \in Relays, Shutdown(r) \/ Crash(r) \/ Restart(r) PROVE Goal
  <2>1. UNCHANGED <<status, attempts, nacks, req>>
    BY <1>10 DEF Shutdown, Crash, Restart, rowVars, reqVars
  <2>2. \A q \in Relays :
          \/ pc'[q] = pc[q] /\ batch'[q] = batch[q] /\ copy'[q] = copy[q]
          \/ pc'[q] # "nack" /\ \A f \in Events : copy'[q][f] \in {0, attempts[f], copy[q][f]}
    BY <1>10, <1>t DEF TypeOK, Shutdown, Crash, Restart
  <2> QED
    BY <1>n, <1>t, <2>1, <2>2, ChargeRows, ChargeRelays
<1>11. CASE Tick \/ UNCHANGED vars
  BY <1>1, <1>11 DEF Tick, vars, rowVars, reqVars, relayVars
<1> QED
  BY <1>2, <1>3, <1>4, <1>5, <1>7, <1>8, <1>9, <1>10, <1>11 DEF Next, RequestStep, RelayStep

\* A row is parked only after MaxAttempts failed publishes of it, although every
\* relay that holds it, its lease expired or not, charges from its own stale copy.
THEOREM DeadOnlyAfterMaxHolds == Spec => []DeadOnlyAfterMax
<1>1. Init => ChargeInv
  <2>1. Init => TypeOK
    BY DeliveryInit DEF DeliveryInv
  <2> QED
    BY <2>1 DEF Init, ChargeInv, RowsCharged, RelaysCharged, DeadOnlyAfterMax
<1>2. ChargeInv /\ [Next]_vars => ChargeInv'
  BY ChargeStep
<1>3. ChargeInv => DeadOnlyAfterMax
  BY DEF ChargeInv
<1> QED
  BY <1>1, <1>2, <1>3, PTL DEF Spec

-----------------------------------------------------------------------------
(* The life of a row, and the abstract queue it implements.                *)

\* The transitions of outbox.status.
Transitions ==
  {<<"none", "open">>, <<"open", "pending">>, <<"open", "aborted">>, <<"pending", "published">>,
   <<"pending", "dead">>, <<"published", "pruned">>}

\* A step moves the status of at most the row it is about, along a transition;
\* the broker gets at most the event of a committed row, in a step of its own.
LEMMA RowStep ==
  ASSUME DeliveryInv, [Next]_vars
  PROVE  \/ UNCHANGED <<status, delivered>>
         \/ \E e \in Events :
              /\ status' = status /\ delivered' = delivered \cup {e} /\ Committed(e)
         \/ \E e \in Events :
              /\ delivered' = delivered
              /\ \A f \in Events \ {e} : status'[f] = status[f]
              /\ <<status[e], status'[e]>> \in Transitions
              /\ status'[e] = "published" => e \in delivered
<1> DEFINE Quiet == UNCHANGED <<status, delivered>>
           Delivers(e) == status' = status /\ delivered' = delivered \cup {e} /\ Committed(e)
           Moves(e) == /\ delivered' = delivered
                       /\ \A f \in Events \ {e} : status'[f] = status[f]
                       /\ <<status[e], status'[e]>> \in Transitions
                       /\ status'[e] = "published" => e \in delivered
<1>t. TypeOK
  BY DEF DeliveryInv
<1>1. ASSUME NEW e \in Events, Enqueue(e) \/ Commit(e) \/ Rollback(e) \/ Prune(e)
      PROVE  Moves(e)
  BY <1>1, <1>t DEF TypeOK, Enqueue, Commit, Rollback, Prune, Transitions
<1>2. ASSUME NEW e \in Events, FastPublishAck(e) \/ FastPublishErr(e)
      PROVE  Quiet \/ Delivers(e)
  BY <1>2 DEF FastPublishAck, FastPublishErr, rowVars, DeliveryInv, HeldIsCommitted
<1>3. ASSUME NEW e \in Events, FastMarkPublished(e)
      PROVE  Quiet \/ Moves(e)
  <2>1. e \in delivered /\ delivered' = delivered
    BY <1>3 DEF FastMarkPublished, DeliveryInv, AckedIsDelivered
  <2> QED
    BY <1>3, <1>t, <2>1 DEF TypeOK, FastMarkPublished, MarkPublished, rowVars, Transitions
<1>4. ASSUME NEW e \in Events, NEW n \in Nat, MarkFailed(e, n) \/ UNCHANGED rowVars,
             delivered' = delivered
      PROVE  Quiet \/ Moves(e)
  BY <1>4, <1>t DEF TypeOK, MarkFailed, rowVars, Transitions
<1>5. ASSUME NEW e \in Events, FastMarkFailed(e)
      PROVE  Quiet \/ Moves(e)
  BY <1>4, <1>5 DEF FastMarkFailed
<1>6. ASSUME NEW r \in Relays, NEW e \in Events, RelayPublishAck(r, e) \/ RelayPublishErr(r, e)
      PROVE  Quiet \/ Delivers(e)
  BY <1>6 DEF RelayPublishAck, RelayPublishErr, Current, rowVars, DeliveryInv, HeldIsCommitted
<1>7. ASSUME NEW r \in Relays, NEW e \in Events, RelayMarkPublished(r, e)
      PROVE  Quiet \/ Moves(e)
  <2>1. e \in delivered /\ delivered' = delivered
    BY <1>7 DEF RelayMarkPublished, DeliveryInv, AckedIsDelivered
  <2> QED
    BY <1>7, <1>t, <2>1 DEF TypeOK, RelayMarkPublished, MarkPublished, rowVars, Transitions
<1>8. ASSUME NEW r \in Relays, NEW e \in Events, RelayMarkFailed(r, e)
      PROVE  Quiet \/ Moves(e)
  <2>1. copy[r][e] + 1 \in Nat
    BY <1>t, TimeAssumption DEF TypeOK
  <2>2. (MarkFailed(e, copy[r][e] + 1) \/ UNCHANGED rowVars) /\ delivered' = delivered
    BY <1>8 DEF RelayMarkFailed
  <2> QED
    BY <1>4, <2>1, <2>2
<1>9. ASSUME NEW r \in Relays, Claim(r) \/ Shutdown(r) \/ Crash(r) \/ Restart(r)
      PROVE  Quiet
  BY <1>9 DEF Claim, Shutdown, Crash, Restart, rowVars
<1>10. CASE Tick \/ UNCHANGED vars
  BY <1>10 DEF Tick, vars, rowVars
<1> QED
  BY <1>1, <1>2, <1>3, <1>5, <1>6, <1>7, <1>8, <1>9, <1>10 DEF Next, RequestStep, RelayStep

\* No late statement of a holder whose lease ran out revives a published, dead or
\* pruned row.
THEOREM SettledIsFinalHolds == Spec => SettledIsFinal
<1>1. DeliveryInv /\ [Next]_vars =>
        [\A e \in Events :
           /\ status[e] = "published" => status'[e] \in {"published", "pruned"}
           /\ status[e] \in {"dead", "pruned"} => status'[e] = status[e]]_vars
  BY RowStep DEF Transitions
<1> QED
  BY <1>1, DeliverySafe, PTL DEF Spec, SettledIsFinal

\* The images of a row under the refinement mapping.
Decided(s) == IF s \in {"none", "open"} THEN "no" ELSE IF s = "aborted" THEN "aborted" ELSE "committed"
DecidedMap == [e \in Events |-> Decided(status[e])]
SettledSet == {e \in Events : status[e] \in {"published", "pruned"}}

\* Every step of the outbox is a step of the abstract queue, or leaves it alone.
LEMMA DeliveryRefines ==
  ASSUME DeliveryInv, [Next]_vars
  PROVE  [Delivery!Next]_(Delivery!vars)
<1>1. CASE UNCHANGED <<status, delivered>>
  BY <1>1 DEF Delivery!vars
<1>2. ASSUME NEW e \in Events, status' = status, delivered' = delivered \cup {e}, Committed(e)
      PROVE  Delivery!Deliver(e)
  BY <1>2 DEF Delivery!Deliver, Committed
<1>3. ASSUME NEW e \in Events, delivered' = delivered,
             \A f \in Events \ {e} : status'[f] = status[f],
             <<status[e], status'[e]>> \in Transitions,
             status'[e] = "published" => e \in delivered
      PROVE  Delivery!Decide(e) \/ Delivery!Settle(e) \/ UNCHANGED Delivery!vars
  <2>1. ASSUME Decided(status'[e]) = Decided(status[e]) PROVE DecidedMap' = DecidedMap
    BY <1>3, <2>1 DEF DecidedMap
  <2>2. ASSUME status'[e] \in {"published", "pruned"} <=> status[e] \in {"published", "pruned"}
        PROVE  SettledSet' = SettledSet
    BY <1>3, <2>2 DEF SettledSet
  <2>3. CASE <<status[e], status'[e]>> \in {<<"none", "open">>, <<"pending", "dead">>,
                                           <<"published", "pruned">>}
    <3>1. DecidedMap' = DecidedMap /\ SettledSet' = SettledSet
      BY <2>1, <2>2, <2>3 DEF Decided
    <3> QED
      BY <1>3, <3>1 DEF Delivery!vars, DecidedMap, SettledSet, Decided
  <2>4. CASE <<status[e], status'[e]>> \in {<<"open", "pending">>, <<"open", "aborted">>}
    <3>1. SettledSet' = SettledSet
      BY <2>2, <2>4
    <3>2. DecidedMap[e] = "no"
      BY <2>4 DEF DecidedMap, Decided
    <3>3. \E d \in {"committed", "aborted"} : DecidedMap' = [DecidedMap EXCEPT ![e] = d]
      <4>1. Decided(status'[e]) \in {"committed", "aborted"}
        BY <2>4 DEF Decided
      <4>2. DecidedMap' = [DecidedMap EXCEPT ![e] = Decided(status'[e])]
        BY <1>3 DEF DecidedMap
      <4> QED
        BY <4>1, <4>2
    <3> QED
      BY <1>3, <3>1, <3>2, <3>3 DEF Delivery!Decide, DecidedMap, SettledSet, Decided
  <2>5. CASE status[e] = "pending" /\ status'[e] = "published"
    <3>1. DecidedMap' = DecidedMap
      BY <2>1, <2>5 DEF Decided
    <3>2. SettledSet' = SettledSet \cup {e} /\ e \in delivered
      BY <1>3, <2>5 DEF SettledSet
    <3> QED
      BY <1>3, <3>1, <3>2 DEF Delivery!Settle, DecidedMap, SettledSet, Decided
  <2> QED
    BY <1>3, <2>3, <2>4, <2>5 DEF Transitions
<1> QED
  BY <1>1, <1>2, <1>3, RowStep DEF Delivery!Next

\* The outbox implements the safety part of the abstract queue: an event is decided
\* with its transaction, delivered only if it committed, and dropped only once the
\* broker has it, for every number of events, relays, failures and lease expiries.
THEOREM ImplementsSafeDelivery == Spec => Delivery!SafeSpec
<1>1. Init => Delivery!Init
  BY DEF Init, Delivery!Init
<1>2. DeliveryInv /\ [Next]_vars => [Delivery!Next]_(Delivery!vars)
  BY DeliveryRefines
<1> QED
  BY <1>1, <1>2, DeliverySafe, PTL DEF Spec, Delivery!SafeSpec
=============================================================================
