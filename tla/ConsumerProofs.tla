--------------------------- MODULE ConsumerProofs ---------------------------
(***************************************************************************)
(* Proofs about Consumer, and about Notifications on top of it, for any    *)
(* log, any number of workers, any routing, any number of crashes,         *)
(* shutdowns, failed commits and rebalances.                               *)
(***************************************************************************)
EXTENDS Notifications, TLAPS

\* A worker that is not idle has a message.
BusyHasMessage == \A w \in Workers : step[w] # "idle" => cur[w] \in Offsets

Typed == TypeOK /\ BusyHasMessage

\* Popping n entries: what is left, entry by entry.
LEMMA DropPrefix ==
  ASSUME NEW s \in Seq(Offsets), NEW n \in 0..Len(s)
  PROVE  LET t == SubSeq(s, n + 1, Len(s))
         IN  /\ t \in Seq(Offsets)
             /\ Len(t) = Len(s) - n
             /\ \A i \in 1..Len(t) : t[i] = s[i + n]
OBVIOUS

\* A fetched offset goes to the end.
LEMMA AppendEntries ==
  ASSUME NEW s \in Seq(Offsets), NEW o \in Offsets
  PROVE  /\ Append(s, o) \in Seq(Offsets)
         /\ Len(Append(s, o)) = Len(s) + 1
         /\ \A i \in 1..Len(s) : Append(s, o)[i] = s[i]
         /\ Append(s, o)[Len(s) + 1] = o
OBVIOUS

\* Parts of the state a step leaves alone keep their types.
LEMMA Frames ==
  ASSUME Typed
  PROVE  /\ UNCHANGED brokerVars => BrokerTypes'
         /\ UNCHANGED <<loopVars, inflight>> => LoopTypes'
         /\ UNCHANGED queue => QueueTypes'
         /\ UNCHANGED <<step, cur, attempt>> => WorkerTypes' /\ BusyHasMessage'
         /\ UNCHANGED trackerVars => TrackerTypes'
         /\ UNCHANGED <<finished, stops, rebalances>> => CountTypes'
BY DEF Typed, TypeOK, BrokerTypes, LoopTypes, QueueTypes, WorkerTypes, TrackerTypes,
   CountTypes, BusyHasMessage, brokerVars, loopVars, trackerVars

\* A worker whose message is done or interrupted is idle and well typed.
LEMMA InterruptedTypes ==
  ASSUME Typed, NEW w \in Workers, Interrupted(w)
  PROVE  WorkerTypes' /\ BusyHasMessage'
BY BoundsAssumption DEF Typed, TypeOK, WorkerTypes, BusyHasMessage, Interrupted

\* Nothing in memory: the state of an instance that starts or has crashed.
LEMMA EmptyTypes ==
  ASSUME queue' = [w \in Workers |-> <<>>],
         step' = [w \in Workers |-> "idle"],
         cur' = [w \in Workers |-> 0],
         attempt' = [w \in Workers |-> 0],
         pending' = <<>>, done' = {}, ready' = 0, handed' = 0
  PROVE  QueueTypes' /\ WorkerTypes' /\ BusyHasMessage' /\ TrackerTypes'
BY BoundsAssumption DEF QueueTypes, WorkerTypes, BusyHasMessage, TrackerTypes

\* Every step keeps the types.
LEMMA TypeStep ==
  ASSUME Typed, [Next]_vars
  PROVE  Typed'
<1> USE DEF Typed, TypeOK
<1>1. CASE UNCHANGED vars
  BY <1>1, Frames DEF vars, workerVars
<1>2. CASE Fetch
  <2>1. TrackerTypes' /\ LoopTypes'
    BY <1>2, AppendEntries DEF Fetch, TrackerTypes, LoopTypes
  <2>2. BrokerTypes'
    BY <1>2, NAssumption DEF Fetch, BrokerTypes, Offsets
  <2> QED
    BY <1>2, <2>1, <2>2, Frames DEF Fetch, workerVars
<1>3. CASE Enqueue
  <2>1. held \in Offsets /\ Route[held] \in Workers
    BY <1>3, RouteAssumption DEF Enqueue, LoopTypes
  <2>2. queue[Route[held]] \in Seq(Offsets) /\ Len(queue[Route[held]]) < QueueSize
    BY <1>3, <2>1 DEF Enqueue, QueueTypes
  <2>3. /\ Append(queue[Route[held]], held) \in Seq(Offsets)
        /\ Len(Append(queue[Route[held]], held)) <= QueueSize
    BY <2>1, <2>2, AppendEntries, BoundsAssumption
  <2>4. QueueTypes'
    BY <1>3, <2>1, <2>3 DEF Enqueue, QueueTypes
  <2>5. LoopTypes'
    BY <1>3 DEF Enqueue, LoopOn, LoopTypes
  <2> QED
    BY <1>3, <2>4, <2>5, Frames DEF Enqueue
<1>4. CASE GiveUp
  <2>1. LoopTypes'
    BY <1>4 DEF GiveUp, LoopOn, LoopTypes
  <2> QED
    BY <1>4, <2>1, Frames DEF GiveUp, workerVars
<1>5. CASE FetchFails
  <2>1. LoopTypes'
    BY <1>5 DEF FetchFails, LoopTypes
  <2>2. CountTypes'
    BY <1>5, BoundsAssumption DEF FetchFails, CountTypes
  <2> QED
    BY <1>5, <2>1, <2>2, Frames DEF FetchFails, workerVars
<1>6. ASSUME NEW w \in Workers, Take(w)
      PROVE  Typed'
  <2>1. queue[w] \in Seq(Offsets) /\ queue[w] # <<>> /\ Len(queue[w]) <= QueueSize
    BY <1>6 DEF Take, QueueTypes
  <2>2. /\ Head(queue[w]) \in Offsets
        /\ Tail(queue[w]) \in Seq(Offsets)
        /\ Len(Tail(queue[w])) <= QueueSize
    BY <2>1, BoundsAssumption
  <2>3. QueueTypes'
    BY <1>6, <2>2 DEF Take, QueueTypes
  <2>4. WorkerTypes' /\ BusyHasMessage'
    <3>1. CASE cancelled
      BY <1>6, <3>1, Frames DEF Take
    <3>2. CASE ~cancelled
      <4>1. /\ step' = [step EXCEPT ![w] = "handle"]
            /\ cur' = [cur EXCEPT ![w] = Head(queue[w])]
            /\ attempt' = [attempt EXCEPT ![w] = 1]
        BY <1>6, <3>2 DEF Take
      <4> QED
        BY <2>2, <4>1, BoundsAssumption DEF WorkerTypes, BusyHasMessage
    <3> QED
      BY <3>1, <3>2
  <2> QED
    BY <1>6, <2>3, <2>4, Frames DEF Take
<1>7. ASSUME NEW w \in Workers, HandleOk(w) \/ DlqOk(w)
      PROVE  Typed'
  <2>1. /\ step[w] # "idle"
        /\ step' = [step EXCEPT ![w] = "finished"]
        /\ finished' = finished \cup {cur[w]}
        /\ UNCHANGED <<brokerVars, loopVars, queue, cur, attempt, trackerVars, inflight,
                       stops, rebalances>>
    BY <1>7 DEF HandleOk, DlqOk
  <2>2. WorkerTypes' /\ BusyHasMessage'
    BY <2>1 DEF WorkerTypes, BusyHasMessage
  <2>3. CountTypes'
    BY <2>1 DEF CountTypes, BusyHasMessage
  <2> QED
    BY <2>1, <2>2, <2>3, Frames
<1>8. ASSUME NEW w \in Workers, HandleErr(w)
      PROVE  Typed'
  <2>1. WorkerTypes' /\ BusyHasMessage'
    <3>1. CASE cancelled
      BY <1>8, <3>1, InterruptedTypes DEF HandleErr
    <3>2. CASE ~cancelled
      BY <1>8, <3>2, BoundsAssumption DEF HandleErr, WorkerTypes, BusyHasMessage
    <3> QED
      BY <3>1, <3>2
  <2> QED
    BY <1>8, <2>1, Frames DEF HandleErr
<1>9. ASSUME NEW w \in Workers, DlqErr(w)
      PROVE  Typed'
  BY <1>9, InterruptedTypes, Frames DEF DlqErr
<1>10. ASSUME NEW w \in Workers, Done(w)
       PROVE  Typed'
  <2>1. PICK n \in 0..Len(pending) :
          /\ ready' = IF n = 0 THEN ready ELSE pending[n]
          /\ done' = (done \cup {cur[w]}) \ {pending[i] : i \in 1..n}
          /\ pending' = SubSeq(pending, n + 1, Len(pending))
    BY <1>10 DEF Done
  <2>2. pending \in Seq(Offsets) /\ Len(pending) \in Nat
    BY DEF TrackerTypes
  <2>3. pending' \in Seq(Offsets)
    BY <2>1, <2>2, DropPrefix
  <2>4. n # 0 => pending[n] \in Offsets
    BY <2>1, <2>2
  <2>5. cur[w] \in Offsets
    BY <1>10 DEF Done, BusyHasMessage
  <2>6. TrackerTypes'
    BY <1>10, <2>1, <2>3, <2>4, <2>5 DEF Done, TrackerTypes
  <2> QED
    BY <1>10, <2>6, InterruptedTypes, Frames DEF Done
<1>11. CASE TakeCommittable \/ FinalCommit
  <2>1. TrackerTypes' /\ LoopTypes'
    BY <1>11 DEF TakeCommittable, FinalCommit, TrackerTypes, LoopTypes, loopVars
  <2> QED
    BY <1>11, <2>1, Frames DEF TakeCommittable, FinalCommit, workerVars
<1>12. CASE CommitOk
  <2>1. BrokerTypes' /\ LoopTypes'
    BY <1>12 DEF CommitOk, BrokerTypes, LoopTypes, loopVars
  <2> QED
    BY <1>12, <2>1, Frames DEF CommitOk, workerVars
<1>13. CASE CommitErr
  <2>1. BrokerTypes' /\ LoopTypes'
    BY <1>13 DEF CommitErr, BrokerTypes, LoopTypes, loopVars
  <2>2. handed' \in Offsets \cup {0}
    BY <1>13, NAssumption DEF CommitErr, LoopTypes, TrackerTypes, Offsets
  <2>3. TrackerTypes'
    BY <1>13, <2>2 DEF CommitErr, TrackerTypes
  <2> QED
    BY <1>13, <2>1, <2>3, Frames DEF CommitErr, workerVars
<1>14. CASE Return
  <2>1. LoopTypes'
    BY <1>14 DEF Return, LoopTypes
  <2> QED
    BY <1>14, <2>1, Frames DEF Return, workerVars
<1>15. CASE Cancel
  <2>1. LoopTypes' /\ CountTypes'
    BY <1>15, BoundsAssumption DEF Cancel, LoopTypes, CountTypes
  <2> QED
    BY <1>15, <2>1, Frames DEF Cancel, workerVars
<1>16. CASE Crash
  <2>1. LoopTypes'
    BY <1>16 DEF Crash, LoopTypes
  <2>3. CountTypes'
    BY <1>16, BoundsAssumption DEF Crash, CountTypes
  <2>4. BrokerTypes'
    BY <1>16, NAssumption DEF Crash, BrokerTypes, Offsets
  <2>2. QueueTypes' /\ WorkerTypes' /\ BusyHasMessage' /\ TrackerTypes'
    BY <1>16, EmptyTypes DEF Crash
  <2> QED
    BY <2>1, <2>2, <2>3, <2>4
<1>17. CASE Restart
  <2>1. LoopTypes'
    BY <1>17 DEF Restart, Fresh, LoopTypes
  <2>2. QueueTypes' /\ WorkerTypes' /\ BusyHasMessage' /\ TrackerTypes'
    BY <1>17, EmptyTypes DEF Restart, Fresh
  <2>3. BrokerTypes'
    BY <1>17, NAssumption DEF Restart, BrokerTypes, Offsets
  <2> QED
    BY <1>17, <2>1, <2>2, <2>3, Frames DEF Restart
<1>18. CASE Revoke
  <2>1. BrokerTypes'
    BY <1>18 DEF Revoke, BrokerTypes
  <2>2. CountTypes'
    BY <1>18, BoundsAssumption DEF Revoke, CountTypes
  <2> QED
    BY <1>18, <2>1, <2>2, Frames DEF Revoke, workerVars
<1>19. CASE Assign
  <2>1. BrokerTypes'
    BY <1>19, NAssumption DEF Assign, BrokerTypes, Offsets
  <2> QED
    BY <1>19, <2>1, Frames DEF Assign, workerVars
<1>20. CASE OtherHandles
  <2>1. BrokerTypes' /\ CountTypes'
    BY <1>20 DEF OtherHandles, BrokerTypes, CountTypes
  <2> QED
    BY <1>20, <2>1, Frames DEF OtherHandles, workerVars
<1> QED
  BY <1>1, <1>2, <1>3, <1>4, <1>5, <1>6, <1>7, <1>8, <1>9, <1>10, <1>11, <1>12,
     <1>13, <1>14, <1>15, <1>16, <1>17, <1>18, <1>19, <1>20
  DEF Next, LoopStep, CommitStep, WorkerStep

\* A fresh instance is well typed.
LEMMA TypeInit == Init => Typed
<1> SUFFICES ASSUME Init
             PROVE  Typed
  OBVIOUS
<1>1. BrokerTypes
  BY NAssumption DEF Init, BrokerTypes, Offsets
<1>2. LoopTypes /\ TrackerTypes
  <2>1. <<>> \in Seq(Offsets)
    OBVIOUS
  <2> QED
    BY <2>1 DEF Init, LoopTypes, TrackerTypes
<1>3. QueueTypes
  BY BoundsAssumption DEF Init, QueueTypes
<1>4. WorkerTypes /\ BusyHasMessage
  <2>1. 0 \in 0..MaxAttempts
    BY BoundsAssumption
  <2> QED
    BY <2>1 DEF Init, WorkerTypes, BusyHasMessage
<1>5. CountTypes
  BY BoundsAssumption DEF Init, CountTypes
<1> QED
  BY <1>1, <1>2, <1>3, <1>4, <1>5 DEF Typed, TypeOK

\* Types and bounds, the capacity of every worker's channel included.
THEOREM TypeCorrect == Spec => []TypeOK
<1>1. Init => Typed
  BY TypeInit
<1>2. Typed /\ [Next]_vars => Typed'
  BY TypeStep
<1>3. Typed => TypeOK
  BY DEF Typed
<1> QED
  BY <1>1, <1>2, <1>3, PTL DEF Spec

-----------------------------------------------------------------------------
(* At-least-once.  CommitSafe is not inductive: an offset is committed     *)
(* long after the Tracker computed it, and the Tracker only looks at the   *)
(* offsets it was told of.  What makes it right is that an offset is never *)
(* tracked before the ones below it are finished or tracked ahead of it,   *)
(* also when a rebalance makes the reader start over.                      *)

\* Offsets below a tracked one are finished or tracked earlier.
TrackedInOrder ==
  \A i \in 1..Len(pending) : \A o \in 1..(pending[i] - 1) :
    o \in finished \/ \E j \in 1..(i - 1) : pending[j] = o

\* Offsets below the reader's position are finished or tracked.
FetchedIsTracked ==
  \A o \in 1..(position - 1) :
    o \in finished \/ \E j \in 1..Len(pending) : pending[j] = o

\* What a worker or the Tracker takes for done is finished.
DoneIsFinished ==
  /\ \A w \in Workers : step[w] = "finished" => cur[w] \in finished
  /\ done \subseteq finished

\* Below a position on its way to the broker everything is finished.
ReadySafe ==
  /\ \A o \in 1..ready : o \in finished
  /\ \A o \in 1..inflight : o \in finished

CommitInv ==
  /\ Typed
  /\ CommitSafe
  /\ ReadySafe
  /\ DoneIsFinished
  /\ TrackedInOrder
  /\ FetchedIsTracked

\* Steps that leave the Tracker's list, the workers' results and the positions
\* alone, and can only add to what is finished.
LEMMA FrameStep ==
  ASSUME CommitInv, Typed', finished \subseteq finished',
         UNCHANGED <<committed, position, pending, done, ready, inflight>>,
         \A w \in Workers : step'[w] = "finished" =>
           cur'[w] \in finished' \/ (step[w] = "finished" /\ cur'[w] = cur[w])
  PROVE  CommitInv'
BY DEF CommitInv, CommitSafe, ReadySafe, DoneIsFinished, TrackedInOrder, FetchedIsTracked

\* Every step keeps the invariant.
LEMMA CommitStepInv ==
  ASSUME CommitInv, [Next]_vars
  PROVE  CommitInv'
<1> USE DEF CommitInv
<1>t. Typed'
  BY TypeStep
<1>y. Typed
  OBVIOUS
<1>1. CASE UNCHANGED vars
  BY <1>1, <1>t, FrameStep
  DEF vars, brokerVars, loopVars, workerVars, trackerVars
<1>2. CASE Fetch
  <2>1. position \in Offsets /\ pending \in Seq(Offsets)
    BY <1>2, <1>y DEF Fetch, Typed, TypeOK, BrokerTypes, TrackerTypes
  <2>2. /\ Len(pending') = Len(pending) + 1
        /\ \A i \in 1..Len(pending) : pending'[i] = pending[i]
        /\ pending'[Len(pending) + 1] = position
    BY <1>2, <2>1, AppendEntries DEF Fetch
  <2>3. Len(pending) \in Nat /\ N \in Nat /\ position \in Nat
    BY <2>1, NAssumption DEF Offsets
  <2>4. TrackedInOrder'
    <3>1. ASSUME NEW i \in 1..Len(pending), NEW o \in 1..(pending[i] - 1)
          PROVE  o \in finished \/ \E j \in 1..(i - 1) : pending'[j] = o
      BY <2>2, <2>3 DEF TrackedInOrder
    <3>2. ASSUME NEW o \in 1..(position - 1)
          PROVE  o \in finished \/ \E j \in 1..Len(pending) : pending'[j] = o
      BY <2>2 DEF FetchedIsTracked
    <3>3. finished' = finished
      BY <1>2 DEF Fetch
    <3> QED
      BY <2>2, <2>3, <3>1, <3>2, <3>3 DEF TrackedInOrder
  <2>5. FetchedIsTracked'
    <3>1. position' = position + 1 /\ finished' = finished
      BY <1>2 DEF Fetch
    <3>2. ASSUME NEW o \in 1..(position' - 1)
          PROVE  o \in finished \/ \E j \in 1..Len(pending') : pending'[j] = o
      <4>1. CASE o = position
        BY <2>2, <2>3, <4>1
      <4>2. CASE o # position
        <5>1. o \in 1..(position - 1)
          BY <2>3, <3>1, <4>2
        <5> QED
          BY <2>2, <2>3, <5>1 DEF FetchedIsTracked
      <4> QED
        BY <4>1, <4>2
    <3> QED
      BY <3>1, <3>2 DEF FetchedIsTracked
  <2>6. CommitSafe' /\ ReadySafe' /\ DoneIsFinished'
    BY <1>2 DEF Fetch, workerVars, CommitSafe, ReadySafe, DoneIsFinished
  <2> QED
    BY <1>t, <2>4, <2>5, <2>6
<1>3. CASE Enqueue \/ GiveUp \/ FetchFails \/ Return \/ Cancel \/ Revoke
  BY <1>3, <1>t, FrameStep
  DEF Enqueue, GiveUp, FetchFails, Return, Cancel, Revoke, brokerVars, loopVars,
      workerVars, trackerVars
<1>4. ASSUME NEW w \in Workers, Take(w) \/ HandleErr(w) \/ DlqErr(w)
      PROVE  CommitInv'
  <2>1. \A v \in Workers : step'[v] = "finished" => step[v] = "finished" /\ cur'[v] = cur[v]
    BY <1>4, <1>y DEF Typed, TypeOK, WorkerTypes, Take, HandleErr, DlqErr, Interrupted
  <2> QED
    BY <1>4, <1>t, <2>1, FrameStep
    DEF Take, HandleErr, DlqErr, brokerVars, loopVars, trackerVars
<1>5. ASSUME NEW w \in Workers, HandleOk(w) \/ DlqOk(w)
      PROVE  CommitInv'
  <2>1. /\ finished' = finished \cup {cur[w]} /\ cur' = cur
        /\ step' = [step EXCEPT ![w] = "finished"]
        /\ UNCHANGED <<brokerVars, trackerVars, inflight>>
    BY <1>5 DEF HandleOk, DlqOk
  <2> QED
    BY <1>t, <1>y, <2>1, FrameStep DEF Typed, TypeOK, WorkerTypes, brokerVars, trackerVars
<1>6. ASSUME NEW w \in Workers, Done(w)
      PROVE  CommitInv'
  <2>1. PICK n \in 0..Len(pending) :
          /\ \A i \in 1..n : pending[i] \in done \cup {cur[w]}
          /\ ready' = IF n = 0 THEN ready ELSE pending[n]
          /\ done' = (done \cup {cur[w]}) \ {pending[i] : i \in 1..n}
          /\ pending' = SubSeq(pending, n + 1, Len(pending))
    BY <1>6 DEF Done, Pops
  <2>2. pending \in Seq(Offsets) /\ Len(pending) \in Nat
    BY <1>y DEF Typed, TypeOK, TrackerTypes
  <2>3. /\ Len(pending') = Len(pending) - n
        /\ \A i \in 1..Len(pending') : pending'[i] = pending[i + n]
    BY <2>1, <2>2, DropPrefix
  <2>4. done \cup {cur[w]} \subseteq finished
    BY <1>6 DEF Done, DoneIsFinished
  <2>5. \A i \in 1..n : pending[i] \in finished
    BY <2>1, <2>4
  <2>6. finished' = finished /\ UNCHANGED <<committed, position, inflight>>
    BY <1>6 DEF Done, brokerVars
  <2>7. ReadySafe'
    <3>1. ASSUME NEW o \in 1..ready'
          PROVE  o \in finished
      <4>1. CASE n = 0
        BY <2>1, <3>1, <4>1 DEF ReadySafe
      <4>2. CASE n # 0
        <5>1. n \in 1..Len(pending) /\ ready' = pending[n] /\ pending[n] \in Nat
          BY <2>1, <2>2, <4>2, NAssumption DEF Offsets
        <5>2. CASE o = pending[n]
          BY <2>5, <5>1, <5>2
        <5>3. CASE o # pending[n]
          <6>1. o \in 1..(pending[n] - 1)
            BY <3>1, <5>1, <5>3
          <6>2. o \in finished \/ \E j \in 1..(n - 1) : pending[j] = o
            BY <5>1, <6>1 DEF TrackedInOrder
          <6> QED
            BY <2>5, <5>1, <6>2
        <5> QED
          BY <5>2, <5>3
      <4> QED
        BY <4>1, <4>2
    <3> QED
      BY <2>6, <3>1 DEF ReadySafe
  <2>8. TrackedInOrder'
    <3>1. ASSUME NEW i \in 1..Len(pending'), NEW o \in 1..(pending'[i] - 1)
          PROVE  o \in finished \/ \E j \in 1..(i - 1) : pending'[j] = o
      <4>1. i + n \in 1..Len(pending) /\ o \in 1..(pending[i + n] - 1)
        BY <2>2, <2>3, <3>1
      <4>2. o \in finished \/ \E k \in 1..(i + n - 1) : pending[k] = o
        BY <4>1 DEF TrackedInOrder
      <4>3. ASSUME NEW k \in 1..(i + n - 1), pending[k] = o, o \notin finished
            PROVE  \E j \in 1..(i - 1) : pending'[j] = o
        <5>1. k \notin 1..n
          BY <2>5, <4>3
        <5>2. k - n \in 1..(i - 1) /\ k - n \in 1..Len(pending') /\ k - n + n = k
          BY <2>2, <2>3, <4>1, <4>3, <5>1
        <5> QED
          BY <2>3, <4>3, <5>2
      <4> QED
        BY <4>2, <4>3
    <3> QED
      BY <2>6, <3>1 DEF TrackedInOrder
  <2>9. FetchedIsTracked'
    <3>1. ASSUME NEW o \in 1..(position - 1)
          PROVE  o \in finished \/ \E j \in 1..Len(pending') : pending'[j] = o
      <4>1. ASSUME NEW k \in 1..Len(pending), pending[k] = o, o \notin finished
            PROVE  \E j \in 1..Len(pending') : pending'[j] = o
        <5>1. k \notin 1..n
          BY <2>5, <4>1
        <5>2. k - n \in 1..Len(pending') /\ k - n + n = k
          BY <2>2, <2>3, <4>1, <5>1
        <5> QED
          BY <2>3, <4>1, <5>2
      <4> QED
        BY <3>1, <4>1 DEF FetchedIsTracked
    <3> QED
      BY <2>6, <3>1 DEF FetchedIsTracked
  <2>10. DoneIsFinished'
    BY <1>6, <1>y, <2>1, <2>4, <2>6 DEF Done, Interrupted, DoneIsFinished, Typed, TypeOK, WorkerTypes
  <2>11. CommitSafe'
    BY <2>6 DEF CommitSafe
  <2> QED
    BY <1>t, <2>7, <2>8, <2>9, <2>10, <2>11
<1>7. CASE TakeCommittable \/ FinalCommit
  <2>1. /\ UNCHANGED <<brokerVars, workerVars, pending, done, ready, finished>>
        /\ inflight' \in {inflight, ready}
    BY <1>7 DEF TakeCommittable, FinalCommit
  <2> QED
    BY <1>t, <2>1 DEF brokerVars, workerVars, CommitSafe, ReadySafe, DoneIsFinished,
       TrackedInOrder, FetchedIsTracked
<1>8. CASE CommitOk \/ CommitErr
  <2>1. /\ UNCHANGED <<position, workerVars, pending, done, ready, finished>>
        /\ inflight' = 0 /\ committed' \in {committed, inflight}
    BY <1>8 DEF CommitOk, CommitErr, trackerVars
  <2> QED
    BY <1>t, <2>1 DEF workerVars, CommitSafe, ReadySafe, DoneIsFinished,
       TrackedInOrder, FetchedIsTracked
<1>9. CASE Crash
  <2>1. /\ pending' = <<>> /\ done' = {} /\ ready' = 0 /\ inflight' = 0
        /\ \A w \in Workers : step'[w] = "idle"
        /\ position' = committed + 1
        /\ UNCHANGED <<committed, finished>>
    BY <1>9 DEF Crash
  <2>2. CommitSafe' /\ ReadySafe' /\ DoneIsFinished' /\ TrackedInOrder'
    BY <2>1 DEF CommitSafe, ReadySafe, DoneIsFinished, TrackedInOrder
  <2>3. FetchedIsTracked'
    BY <1>y, <2>1, NAssumption
    DEF Typed, TypeOK, BrokerTypes, Offsets, CommitSafe, FetchedIsTracked
  <2> QED
    BY <1>t, <2>2, <2>3
<1>10. CASE Restart
  <2>1. /\ pending' = <<>> /\ done' = {} /\ ready' = 0 /\ inflight' = 0
        /\ \A w \in Workers : step'[w] = "idle"
        /\ position' = committed + 1
        /\ UNCHANGED <<committed, finished>>
    BY <1>10 DEF Restart, Fresh
  <2>2. CommitSafe' /\ ReadySafe' /\ DoneIsFinished' /\ TrackedInOrder'
    BY <2>1 DEF CommitSafe, ReadySafe, DoneIsFinished, TrackedInOrder
  <2>3. FetchedIsTracked'
    BY <1>y, <2>1, NAssumption DEF Typed, TypeOK, BrokerTypes, Offsets, CommitSafe, FetchedIsTracked
  <2> QED
    BY <1>t, <2>2, <2>3
<1>11. CASE Assign
  <2>1. /\ position' = committed + 1
        /\ UNCHANGED <<committed, workerVars, pending, done, ready, inflight, finished>>
    BY <1>11 DEF Assign, trackerVars
  <2>2. FetchedIsTracked'
    BY <1>y, <2>1, NAssumption DEF Typed, TypeOK, BrokerTypes, Offsets, CommitSafe, FetchedIsTracked
  <2>3. CommitSafe' /\ ReadySafe' /\ DoneIsFinished' /\ TrackedInOrder'
    BY <2>1 DEF workerVars, CommitSafe, ReadySafe, DoneIsFinished, TrackedInOrder
  <2> QED
    BY <1>t, <2>2, <2>3
<1>12. CASE OtherHandles
  <2>1. /\ finished' = finished \cup {committed + 1} /\ committed' = committed + 1
        /\ UNCHANGED <<position, workerVars, pending, done, ready, inflight>>
    BY <1>12 DEF OtherHandles, trackerVars
  <2>2. CommitSafe'
    BY <1>y, <2>1, NAssumption DEF Typed, TypeOK, BrokerTypes, Offsets, CommitSafe
  <2>3. ReadySafe' /\ DoneIsFinished' /\ TrackedInOrder' /\ FetchedIsTracked'
    BY <2>1 DEF workerVars, ReadySafe, DoneIsFinished, TrackedInOrder, FetchedIsTracked
  <2> QED
    BY <1>t, <2>2, <2>3
<1> QED
  BY <1>1, <1>2, <1>3, <1>4, <1>5, <1>6, <1>7, <1>8, <1>9, <1>10, <1>11, <1>12
  DEF Next, LoopStep, CommitStep, WorkerStep

LEMMA CommitInit == Init => CommitInv
BY TypeInit
DEF Init, CommitInv, CommitSafe, ReadySafe, DoneIsFinished, TrackedInOrder, FetchedIsTracked

\* At-least-once for any log, workers, queue size, crashes and rebalances: the
\* committed offset never passes a message that was not handled or parked.
THEOREM CommitSafeHolds == Spec => []CommitSafe
<1>1. Init => CommitInv
  BY CommitInit
<1>2. CommitInv /\ [Next]_vars => CommitInv'
  BY CommitStepInv
<1>3. CommitInv => CommitSafe
  BY DEF CommitInv
<1> QED
  BY <1>1, <1>2, <1>3, PTL DEF Spec

-----------------------------------------------------------------------------
(* Per-key order.  A key has one worker, and a worker's messages stand in  *)
(* line: in process, in its channel, in the fetch loop's hand, still to be *)
(* fetched.  The line is kept until ctx is done; from then on a message    *)
(* may leave it unhandled, but no worker takes another one.                *)

\* o is in process at w or among the first n entries of its channel.
InLine(w, o, n) == cur[w] = o \/ \E j \in 1..n : queue[w][j] = o
AnywhereInLine(o) == InLine(Route[o], o, Len(queue[Route[o]]))

\* A worker only has messages that route() sends to it.
RoutedHere ==
  \A w \in Workers : /\ cur[w] # 0 => Route[cur[w]] = w
                     /\ \A i \in 1..Len(queue[w]) : Route[queue[w][i]] = w
                     /\ step[w] = "idle" => cur[w] = 0

\* The worker's earlier messages are finished when it handles one.
CurInOrder == \A w \in Workers : \A o \in 1..(cur[w] - 1) : Route[o] = w => o \in finished

QueuedInOrder ==
  \A w \in Workers : \A i \in 1..Len(queue[w]) : \A o \in 1..(queue[w][i] - 1) :
    Route[o] = w => o \in finished \/ InLine(w, o, i - 1)

HeldInOrder ==
  \A o \in 1..(held - 1) : Route[o] = Route[held] => o \in finished \/ AnywhereInLine(o)

FetchedInLine ==
  \A o \in 1..(position - 1) : o \in finished \/ o = held \/ AnywhereInLine(o)

LineInv == ~cancelled => QueuedInOrder /\ HeldInOrder /\ FetchedInLine

OrderInv == CommitInv /\ RoutedHere /\ CurInOrder /\ LineInv

\* Steps that leave the line alone.
LEMMA LineFrame ==
  ASSUME OrderInv, CommitInv', finished \subseteq finished',
         UNCHANGED <<position, cancelled, held, queue, cur>>,
         \A w \in Workers : step'[w] = "idle" => step[w] = "idle"
  PROVE  OrderInv'
BY DEF OrderInv, RoutedHere, CurInOrder, LineInv, QueuedInOrder, HeldInOrder, FetchedInLine,
       AnywhereInLine, InLine

\* Nobody is in line: a start, or what a crash leaves.
LEMMA EmptyLine ==
  ASSUME Typed, CommitInv', position' = committed' + 1, held' = 0,
         queue' = [w \in Workers |-> <<>>], step' = [w \in Workers |-> "idle"],
         cur' = [w \in Workers |-> 0]
  PROVE  OrderInv'
<1>1. RoutedHere' /\ CurInOrder' /\ QueuedInOrder' /\ HeldInOrder'
  BY DEF RoutedHere, CurInOrder, QueuedInOrder, HeldInOrder
<1>2. committed' \in Nat
  BY NAssumption DEF CommitInv, Typed, TypeOK, BrokerTypes, Offsets
<1>3. position' - 1 = committed'
  <2>1. \A c \in Nat : (c + 1) - 1 = c
    OBVIOUS
  <2> QED
    BY <1>2, <2>1, Zenon
<1>4. CommitSafe'
  BY DEF CommitInv
<1>5. FetchedInLine'
  BY <1>3, <1>4 DEF FetchedInLine, CommitSafe
<1> QED
  BY <1>1, <1>5 DEF OrderInv, LineInv

\* Every step keeps the line.
LEMMA OrderStepInv ==
  ASSUME OrderInv, [Next]_vars
  PROVE  OrderInv'
<1>c. CommitInv /\ CommitInv' /\ Typed /\ Typed'
  BY CommitStepInv DEF OrderInv, CommitInv
<1>r. RoutedHere /\ CurInOrder /\ LineInv
  BY DEF OrderInv
<1>w. /\ cur \in [Workers -> Offsets \cup {0}] /\ step \in [Workers -> {"idle", "handle", "dlq", "finished"}]
      /\ queue \in [Workers -> Seq(Offsets)] /\ held \in Offsets \cup {0}
      /\ position \in Offsets \cup {N + 1} /\ Offsets \subseteq Nat \ {0}
  BY <1>c, NAssumption DEF Typed, TypeOK, WorkerTypes, QueueTypes, LoopTypes, BrokerTypes, Offsets
<1>1. CASE UNCHANGED vars
  BY <1>1, <1>c, LineFrame DEF vars, brokerVars, loopVars, workerVars
<1>2. CASE FetchFails \/ Return \/ FinalCommit \/ TakeCommittable \/ CommitOk \/ CommitErr
           \/ Revoke \/ OtherHandles
  BY <1>2, <1>c, LineFrame
  DEF FetchFails, Return, FinalCommit, TakeCommittable, CommitOk, CommitErr, Revoke,
      OtherHandles, brokerVars, loopVars, workerVars
<1>3. ASSUME NEW w \in Workers, HandleOk(w) \/ DlqOk(w)
      PROVE  OrderInv'
  BY <1>3, <1>c, <1>w, LineFrame DEF HandleOk, DlqOk, brokerVars, loopVars
<1>4. ASSUME NEW w \in Workers, HandleErr(w) \/ DlqErr(w)
      PROVE  OrderInv'
  <2>1. CASE cancelled
    <3>1. /\ step' = [step EXCEPT ![w] = "idle"] /\ cur' = [cur EXCEPT ![w] = 0]
          /\ UNCHANGED <<queue, finished, cancelled>>
      BY <1>4, <2>1 DEF HandleErr, DlqErr, Interrupted, loopVars
    <3>2. RoutedHere'
      BY <1>r, <1>w, <3>1 DEF RoutedHere
    <3>3. CurInOrder'
      BY <1>r, <1>w, <3>1 DEF CurInOrder
    <3> QED
      BY <1>c, <2>1, <3>1, <3>2, <3>3 DEF OrderInv, LineInv
  <2>2. CASE ~cancelled
    BY <1>4, <1>c, <1>w, <2>2, LineFrame DEF HandleErr, DlqErr, brokerVars, loopVars
  <2> QED
    BY <2>1, <2>2
<1>5. ASSUME NEW w \in Workers, Take(w)
      PROVE  OrderInv'
  <2>1. queue[w] \in Seq(Offsets) /\ queue[w] # <<>> /\ step[w] = "idle" /\ cur[w] = 0
    BY <1>5, <1>r, <1>w DEF Take, RoutedHere
  <2>2. /\ Len(queue[w]) \in Nat \ {0} /\ queue[w][1] \in Offsets /\ Head(queue[w]) = queue[w][1]
        /\ Tail(queue[w]) \in Seq(Offsets) /\ Len(Tail(queue[w])) = Len(queue[w]) - 1
        /\ \A i \in 1..(Len(queue[w]) - 1) : Tail(queue[w])[i] = queue[w][i + 1]
    BY <2>1
  <2>3. /\ queue' = [queue EXCEPT ![w] = Tail(queue[w])] /\ UNCHANGED <<finished, position, cancelled, held>>
        /\ queue'[w] = Tail(queue[w]) /\ \A v \in Workers : v # w => queue'[v] = queue[v]
    BY <1>5, <1>w DEF Take, brokerVars, loopVars
  <2>4. CASE cancelled
    <3>1. UNCHANGED <<step, cur>>
      BY <1>5, <2>4 DEF Take
    <3>2. RoutedHere'
      BY <1>r, <2>2, <2>3, <3>1 DEF RoutedHere
    <3>3. CurInOrder'
      BY <1>r, <2>3, <3>1 DEF CurInOrder
    <3> QED
      BY <1>c, <2>3, <2>4, <3>2, <3>3 DEF OrderInv, LineInv
  <2>5. CASE ~cancelled
    <3>1. /\ cur' = [cur EXCEPT ![w] = queue[w][1]] /\ cur'[w] = queue[w][1]
          /\ step' = [step EXCEPT ![w] = "handle"]
          /\ \A v \in Workers : v # w => cur'[v] = cur[v]
      BY <1>5, <1>w, <2>2, <2>5 DEF Take
    <3>2. RoutedHere'
      <4>1. Route[queue[w][1]] = w /\ step'[w] = "handle"
        BY <1>r, <1>w, <2>2, <3>1 DEF RoutedHere
      <4>2. \A i \in 1..Len(queue'[w]) : Route[queue'[w][i]] = w
        BY <1>r, <2>2, <2>3 DEF RoutedHere
      <4>3. \A v \in Workers : v # w => step'[v] = step[v]
        BY <1>w, <3>1
      <4> QED
        BY <1>r, <2>3, <3>1, <4>1, <4>2, <4>3 DEF RoutedHere
    <3>3. CurInOrder'
      <4>1. \A o \in 1..(queue[w][1] - 1) : Route[o] = w => o \in finished
        <5> SUFFICES ASSUME NEW o \in 1..(queue[w][1] - 1), Route[o] = w
                     PROVE  o \in finished
          OBVIOUS
        <5>1. o \in finished \/ InLine(w, o, 0)
          BY <1>r, <2>2, <2>5 DEF LineInv, QueuedInOrder
        <5> QED
          BY <2>1, <5>1 DEF InLine
      <4> QED
        BY <1>r, <2>3, <3>1, <4>1 DEF CurInOrder
    <3>4. ASSUME NEW v \in Workers, NEW o \in Nat \ {0}, NEW n \in 0..Len(queue[v]), InLine(v, o, n)
          PROVE  InLine(v, o, IF v = w THEN n - 1 ELSE n)'
      <4>1. CASE v # w
        BY <2>3, <3>1, <3>4, <4>1 DEF InLine
      <4>2. CASE v = w
        <5>1. PICK j \in 1..n : queue[w][j] = o
          BY <2>1, <3>4, <4>2 DEF InLine
        <5>2. CASE j = 1
          BY <3>1, <4>2, <5>1, <5>2 DEF InLine
        <5>3. CASE j # 1
          <6>1. j - 1 \in 1..(n - 1) /\ j - 1 \in 1..(Len(queue[w]) - 1) /\ (j - 1) + 1 = j
            BY <2>2, <4>2, <5>3
          <6>2. queue'[w][j - 1] = o
            BY <2>2, <2>3, <5>1, <6>1
          <6> QED
            BY <4>2, <6>1, <6>2 DEF InLine
        <5> QED
          BY <5>2, <5>3
      <4> QED
        BY <4>1, <4>2
    <3>5. QueuedInOrder'
      <4> SUFFICES ASSUME NEW v \in Workers, NEW i \in 1..Len(queue'[v]),
                          NEW o \in 1..(queue'[v][i] - 1), Route[o] = v
                   PROVE  o \in finished' \/ InLine(v, o, i - 1)'
        BY DEF QueuedInOrder, InLine
      <4>1. CASE v # w
        <5>1. i \in 1..Len(queue[v]) /\ i - 1 \in 0..Len(queue[v]) /\ o \in 1..(queue[v][i] - 1) /\ o \in Nat \ {0}
          BY <1>w, <2>3, <4>1
        <5>2. o \in finished \/ InLine(v, o, i - 1)
          BY <1>r, <2>5, <5>1 DEF LineInv, QueuedInOrder
        <5> QED
          BY <2>3, <3>4, <4>1, <5>1, <5>2
      <4>2. CASE v = w
        <5>0. i \in 1..(Len(queue[w]) - 1)
          BY <2>2, <2>3, <4>2
        <5>1. /\ i + 1 \in 1..Len(queue[w]) /\ i \in 0..Len(queue[w]) /\ (i + 1) - 1 = i
              /\ o \in Nat \ {0}
          BY <2>2, <5>0
        <5>3. queue'[w][i] = queue[w][i + 1]
          BY <2>2, <2>3, <5>0
        <5>2. o \in finished \/ InLine(w, o, i)
          BY <1>r, <2>5, <4>2, <5>1, <5>3 DEF LineInv, QueuedInOrder
        <5> QED
          BY <2>3, <3>4, <4>2, <5>1, <5>2
      <4> QED
        BY <4>1, <4>2
    <3>6. ASSUME NEW o \in Offsets, AnywhereInLine(o)
          PROVE  AnywhereInLine(o)'
      <4>1. Route[o] \in Workers /\ o \in Nat \ {0} /\ Len(queue[Route[o]]) \in 0..Len(queue[Route[o]])
        BY <1>w, RouteAssumption
      <4> DEFINE n == Len(queue[Route[o]])
                 m == IF Route[o] = w THEN n - 1 ELSE n
      <4>2. InLine(Route[o], o, n)
        BY <3>6 DEF AnywhereInLine
      <4>3. cur'[Route[o]] = o \/ \E j \in 1..m : queue'[Route[o]][j] = o
        BY <3>4, <4>1, <4>2 DEF InLine
      <4>4. CASE Route[o] = w
        <5>1. m = Len(queue'[Route[o]])
          BY <2>2, <2>3, <4>4
        <5> QED
          BY <4>3, <5>1 DEF AnywhereInLine, InLine
      <4>5. CASE Route[o] # w
        BY <2>3, <4>1, <4>3, <4>5 DEF AnywhereInLine, InLine
      <4> QED
        BY <4>4, <4>5
    <3>7. HeldInOrder' /\ FetchedInLine'
      <4>1. \A o \in 1..(held - 1) : o \in Offsets
        BY <1>w, NAssumption DEF Offsets
      <4>2. \A o \in 1..(position - 1) : o \in Offsets
        BY <1>w, NAssumption DEF Offsets
      <4> QED
        BY <1>r, <2>3, <2>5, <3>6, <4>1, <4>2 DEF LineInv, HeldInOrder, FetchedInLine
    <3> QED
      BY <1>c, <3>2, <3>3, <3>5, <3>7 DEF OrderInv, LineInv
  <2> QED
    BY <2>4, <2>5
<1>6. ASSUME NEW w \in Workers, Done(w)
      PROVE  OrderInv'
  <2>1. /\ cur[w] \in finished /\ step' = [step EXCEPT ![w] = "idle"] /\ cur' = [cur EXCEPT ![w] = 0]
        /\ UNCHANGED <<queue, finished, position, cancelled, held>>
    BY <1>6, <1>c DEF Done, Interrupted, CommitInv, DoneIsFinished, brokerVars, loopVars
  <2>2. RoutedHere'
    BY <1>r, <1>w, <2>1 DEF RoutedHere
  <2>3. CurInOrder'
    BY <1>r, <1>w, <2>1 DEF CurInOrder
  <2>4. ASSUME NEW v \in Workers, NEW o, NEW n, InLine(v, o, n), o \notin finished
        PROVE  InLine(v, o, n)'
    BY <1>w, <2>1, <2>4 DEF InLine
  <2>5. QueuedInOrder => QueuedInOrder'
    BY <2>1, <2>4 DEF QueuedInOrder
  <2>6. ASSUME NEW o \in Offsets, AnywhereInLine(o), o \notin finished
        PROVE  AnywhereInLine(o)'
    BY <2>1, <2>4, <2>6, RouteAssumption DEF AnywhereInLine, InLine
  <2>7. \A o \in 1..(held - 1) : o \in Offsets
    BY <1>w, NAssumption DEF Offsets
  <2>8. \A o \in 1..(position - 1) : o \in Offsets
    BY <1>w, NAssumption DEF Offsets
  <2>9. (HeldInOrder => HeldInOrder') /\ (FetchedInLine => FetchedInLine')
    BY <2>1, <2>6, <2>7, <2>8 DEF HeldInOrder, FetchedInLine
  <2> QED
    BY <1>c, <1>r, <2>1, <2>2, <2>3, <2>5, <2>9 DEF OrderInv, LineInv
<1>7. CASE Fetch
  <2>1. /\ held = 0 /\ held' = position /\ position' = position + 1 /\ position \in Nat
        /\ UNCHANGED <<queue, cur, step, finished, cancelled>>
    BY <1>7, <1>w DEF Fetch, workerVars
  <2>2. RoutedHere' /\ CurInOrder' /\ (QueuedInOrder => QueuedInOrder')
    BY <1>r, <2>1 DEF RoutedHere, CurInOrder, QueuedInOrder, InLine
  <2>3. FetchedInLine => HeldInOrder'
    BY <2>1 DEF FetchedInLine, HeldInOrder, AnywhereInLine, InLine
  <2>4. FetchedInLine => FetchedInLine'
    BY <2>1 DEF FetchedInLine, AnywhereInLine, InLine
  <2> QED
    BY <1>c, <1>r, <2>1, <2>2, <2>3, <2>4 DEF OrderInv, LineInv
<1>8. CASE Enqueue
  <2> DEFINE r == Route[held]
  <2>1. held \in Offsets /\ held \in Nat /\ r \in Workers /\ queue[r] \in Seq(Offsets)
    BY <1>8, <1>w, RouteAssumption DEF Enqueue
  <2>2. /\ queue' = [queue EXCEPT ![r] = Append(queue[r], held)] /\ queue'[r] = Append(queue[r], held)
        /\ \A v \in Workers : v # r => queue'[v] = queue[v]
        /\ held' = 0 /\ UNCHANGED <<cur, step, finished, cancelled, position>>
    BY <1>8, <1>w, <2>1 DEF Enqueue, brokerVars
  <2>3. /\ Len(queue'[r]) = Len(queue[r]) + 1 /\ queue'[r][Len(queue[r]) + 1] = held
        /\ \A i \in 1..Len(queue[r]) : queue'[r][i] = queue[r][i]
        /\ Len(queue[r]) \in Nat
    BY <2>1, <2>2, AppendEntries
  <2> HIDE DEF r
  <2>4. RoutedHere'
    BY <1>r, <1>w, <2>1, <2>2, <2>3 DEF RoutedHere, r
  <2>5. CurInOrder'
    BY <1>r, <2>2 DEF CurInOrder
  <2>6. ASSUME NEW v \in Workers, NEW o, NEW n \in 0..Len(queue[v]), InLine(v, o, n)
        PROVE  InLine(v, o, n)'
    BY <2>2, <2>3, <2>6 DEF InLine
  <2>7. ASSUME NEW o \in Offsets, AnywhereInLine(o)
        PROVE  AnywhereInLine(o)'
    <3>1. Route[o] \in Workers /\ Len(queue[Route[o]]) \in 0..Len(queue[Route[o]])
      BY <1>w, RouteAssumption
    <3>2. cur'[Route[o]] = o \/ \E j \in 1..Len(queue[Route[o]]) : queue'[Route[o]][j] = o
      BY <2>6, <2>7, <3>1 DEF AnywhereInLine, InLine
    <3>3. Len(queue[Route[o]]) <= Len(queue'[Route[o]]) /\ Len(queue'[Route[o]]) \in Nat
      BY <1>w, <2>2, <2>3, <3>1
    <3> QED
      BY <3>1, <3>2, <3>3 DEF AnywhereInLine, InLine
  <2>8. ASSUME NEW o, o = held
        PROVE  AnywhereInLine(o)'
    BY <2>1, <2>3, <2>8 DEF AnywhereInLine, InLine, r
  <2>9. ASSUME LineInv, ~cancelled PROVE QueuedInOrder'
    <3> SUFFICES ASSUME NEW v \in Workers, NEW i \in 1..Len(queue'[v]),
                        NEW o \in 1..(queue'[v][i] - 1), Route[o] = v
                 PROVE  o \in finished' \/ InLine(v, o, i - 1)'
      BY DEF QueuedInOrder, InLine
    <3>1. CASE i \in 1..Len(queue[v])
      <4>1. queue'[v][i] = queue[v][i] /\ i - 1 \in 0..Len(queue[v])
        BY <1>w, <2>2, <2>3, <3>1
      <4>2. o \in finished \/ InLine(v, o, i - 1)
        BY <2>9, <3>1, <4>1 DEF LineInv, QueuedInOrder
      <4> QED
        BY <2>2, <2>6, <4>1, <4>2
    <3>2. CASE i \notin 1..Len(queue[v])
      <4>1. v = r /\ i = Len(queue[r]) + 1 /\ queue'[v][i] = held /\ i - 1 = Len(queue[r])
        BY <1>w, <2>2, <2>3, <3>2
      <4>2. o \in finished \/ InLine(r, o, Len(queue[r]))
        BY <2>9, <4>1 DEF LineInv, HeldInOrder, AnywhereInLine, r
      <4>3. Len(queue[r]) \in 0..Len(queue[r])
        BY <2>3
      <4> QED
        BY <2>1, <2>2, <2>6, <4>1, <4>2, <4>3
    <3> QED
      BY <3>1, <3>2
  <2>10. ASSUME LineInv, ~cancelled PROVE HeldInOrder' /\ FetchedInLine'
    <3>1. HeldInOrder'
      BY <2>2 DEF HeldInOrder
    <3>2. \A o \in 1..(position - 1) : o \in Offsets
      BY <1>w, NAssumption DEF Offsets
    <3>3. ASSUME NEW o \in 1..(position - 1) PROVE o \in finished \/ AnywhereInLine(o)'
      BY <2>7, <2>8, <2>10, <3>2 DEF LineInv, FetchedInLine
    <3> QED
      BY <2>2, <3>1, <3>3 DEF FetchedInLine, AnywhereInLine, InLine
  <2> QED
    BY <1>c, <1>r, <2>2, <2>4, <2>5, <2>9, <2>10 DEF OrderInv, LineInv
<1>9. CASE GiveUp \/ Cancel
  <2>1. cancelled' /\ UNCHANGED <<queue, cur, step, finished>>
    BY <1>9 DEF GiveUp, Cancel, workerVars
  <2> QED
    BY <1>c, <1>r, <2>1 DEF OrderInv, LineInv, RoutedHere, CurInOrder
<1>10. CASE Crash \/ Restart
  BY <1>10, <1>c, EmptyLine DEF Crash, Restart, Fresh
<1>11. CASE Assign
  <2>1. /\ position' = committed + 1 /\ committed \in Nat
        /\ UNCHANGED <<committed, queue, cur, step, finished, cancelled, held>>
    BY <1>11, <1>c, NAssumption DEF Assign, loopVars, workerVars, Typed, TypeOK, BrokerTypes, Offsets
  <2>2. FetchedInLine'
    BY <1>c, <2>1 DEF CommitInv, CommitSafe, FetchedInLine
  <2> QED
    BY <1>c, <1>r, <2>1, <2>2 DEF OrderInv, LineInv, RoutedHere, CurInOrder, QueuedInOrder,
       HeldInOrder, AnywhereInLine, InLine
<1> QED
  BY <1>1, <1>2, <1>3, <1>4, <1>5, <1>6, <1>7, <1>8, <1>9, <1>10, <1>11
  DEF Next, LoopStep, CommitStep, WorkerStep

\* Per-key order for any keys, workers, crashes and rebalances: a handler runs on a
\* message only when every earlier message of its key is finished.
THEOREM PerKeyOrderHolds == Spec => []PerKeyOrder
<1>1. Init => OrderInv
  <2> SUFFICES ASSUME Init
               PROVE  OrderInv
    OBVIOUS
  <2>1. CommitInv
    BY CommitInit
  <2> QED
    BY <2>1 DEF Init, OrderInv, RoutedHere, CurInOrder, LineInv, QueuedInOrder, HeldInOrder,
       FetchedInLine
<1>2. OrderInv /\ [Next]_vars => OrderInv'
  BY OrderStepInv
<1>3. OrderInv => PerKeyOrder
  <2> SUFFICES ASSUME OrderInv, NEW w \in Workers, cur[w] # 0, NEW o \in 1..(cur[w] - 1),
                      Key[o] = Key[cur[w]]
               PROVE  o \in finished
    BY DEF PerKeyOrder
  <2>1. cur[w] \in Offsets /\ o \in Offsets
    BY NAssumption DEF OrderInv, CommitInv, Typed, TypeOK, WorkerTypes, Offsets
  <2>2. Route[o] = w
    BY <2>1, RouteByKey DEF OrderInv, RoutedHere
  <2> QED
    BY <2>2 DEF OrderInv, CurInOrder
<1> QED
  BY <1>1, <1>2, <1>3, PTL DEF Spec

-----------------------------------------------------------------------------
(* The notification worker: its steps are steps of the loop, so all of the *)
(* above holds of it, and what the loop takes for finished is in the table *)
(* or in the dead-letter topic.                                            *)

\* A step of the worker is a step of the loop, or leaves the loop alone.
LEMMA NotifyStepIsStep == [NotifyNext]_notifyVars => [Next]_vars
<1> SUFFICES ASSUME [NotifyNext]_notifyVars
             PROVE  [Next]_vars
  OBVIOUS
<1>1. CASE ConsumerOnly
  BY <1>1 DEF ConsumerOnly, Next, WorkerStep
<1>2. ASSUME NEW w \in Workers, HandlePostLiked(w) \/ HandleFails(w) \/ Park(w)
      PROVE  Next
  BY <1>2 DEF HandlePostLiked, HandleFails, Park, Next, WorkerStep
<1>3. CASE OtherNotifies
  BY <1>3 DEF OtherNotifies, Next
<1>4. CASE (\E i \in Ids : UserReads(i)) \/ UNCHANGED notifyVars
  BY <1>4 DEF UserReads, notifyVars
<1> QED
  BY <1>1, <1>2, <1>3, <1>4 DEF NotifyNext

\* The notification worker implements the event loop: HandlePostLiked, its failures
\* and its dead letters are handler calls of Consumer.
THEOREM NotifyImplementsConsumer == NotifySpec => Spec
<1>1. NotifyInit => Init
  BY DEF NotifyInit
<1>2. [NotifyNext]_notifyVars => [Next]_vars
  BY NotifyStepIsStep
<1> QED
  BY <1>1, <1>2, PTL DEF NotifySpec, Spec

\* Every finished like is notified or parked.
FinishedIsNotified ==
  \A o \in finished : Event[o] = "like" => notice[Id[o]] # "none" \/ o \in parked

NoticeTypes == notice \in [Ids -> {"none", "unread", "read"}]

NotifyInv == CommitInv /\ NoticeTypes /\ FinishedIsNotified

\* An insert changes at most its own row, and leaves a row there.
LEMMA InsertKeeps ==
  ASSUME NoticeTypes, NEW i \in Ids, Insert(i)
  PROVE  /\ NoticeTypes'
         /\ notice'[i] # "none"
         /\ \A k \in Ids : notice[k] # "none" => notice'[k] = notice[k]
BY DEF NoticeTypes, Insert

LEMMA NotifyStepInv ==
  ASSUME NotifyInv, [NotifyNext]_notifyVars
  PROVE  NotifyInv'
<1> USE DEF NotifyInv
<1>1. CommitInv'
  BY NotifyStepIsStep, CommitStepInv
<1>2. finished \subseteq Offsets /\ \A o \in Offsets : Id[o] \in Ids
  BY DEF CommitInv, Typed, TypeOK, CountTypes, Ids
<1>3. ASSUME finished' = finished, parked' = parked, NoticeTypes',
             \A k \in Ids : notice[k] # "none" => notice'[k] # "none"
      PROVE  NotifyInv'
  BY <1>1, <1>2, <1>3 DEF FinishedIsNotified
<1>4. ASSUME NEW o \in Offsets, finished' = finished \cup {o}, parked \subseteq parked',
             NoticeTypes', \A k \in Ids : notice[k] # "none" => notice'[k] # "none",
             Event[o] = "like" => notice'[Id[o]] # "none" \/ o \in parked'
      PROVE  NotifyInv'
  BY <1>1, <1>2, <1>4 DEF FinishedIsNotified
<1>5. CASE ConsumerOnly
  <2>1. finished' = finished
    BY <1>5 DEF ConsumerOnly, LoopStep, CommitStep, Fetch, Enqueue, GiveUp, FetchFails,
       FinalCommit, Return, TakeCommittable, CommitOk, CommitErr, Take, DlqErr, Done, Cancel,
       Crash, Restart, Revoke, Assign
  <2> QED
    BY <1>3, <1>5, <2>1 DEF ConsumerOnly, tableVars, NoticeTypes
<1>6. ASSUME NEW w \in Workers, HandlePostLiked(w) PROVE NotifyInv'
  <2>1. cur[w] \in Offsets /\ finished' = finished \cup {cur[w]} /\ parked' = parked
    BY <1>6 DEF HandlePostLiked, HandleOk, CommitInv, Typed, BusyHasMessage
  <2>2. CASE Event[cur[w]] = "self" /\ UNCHANGED notice
    BY <1>4, <2>1, <2>2 DEF NoticeTypes
  <2>3. CASE Event[cur[w]] = "like" /\ Insert(Id[cur[w]])
    BY <1>2, <1>4, <2>1, <2>3, InsertKeeps
  <2> QED
    BY <1>6, <2>2, <2>3 DEF HandlePostLiked
<1>7. ASSUME NEW w \in Workers, HandleFails(w) PROVE NotifyInv'
  <2>1. cur[w] \in Offsets /\ finished' = finished /\ parked' = parked
    BY <1>7 DEF HandleFails, HandleErr, CommitInv, Typed, BusyHasMessage
  <2>2. CASE UNCHANGED notice
    BY <1>3, <2>1, <2>2 DEF NoticeTypes
  <2>3. CASE Insert(Id[cur[w]])
    BY <1>2, <1>3, <2>1, <2>3, InsertKeeps
  <2> QED
    BY <1>7, <2>2, <2>3 DEF HandleFails
<1>8. ASSUME NEW w \in Workers, Park(w) PROVE NotifyInv'
  <2>1. /\ cur[w] \in Offsets /\ finished' = finished \cup {cur[w]}
        /\ parked' = parked \cup {cur[w]} /\ notice' = notice
    BY <1>8 DEF Park, DlqOk, CommitInv, Typed, BusyHasMessage
  <2> QED
    BY <1>4, <2>1 DEF NoticeTypes
<1>9. CASE OtherNotifies
  <2> DEFINE o == committed + 1
  <2>1. o \in Offsets /\ finished' = finished \cup {o}
    BY <1>9 DEF OtherNotifies, OtherHandles
  <2> HIDE DEF o
  <2>2. CASE Event[o] = "self" /\ UNCHANGED <<notice, parked>>
    BY <1>4, <2>1, <2>2 DEF NoticeTypes
  <2>3. CASE Event[o] = "like" /\ Insert(Id[o]) /\ UNCHANGED parked
    BY <1>2, <1>4, <2>1, <2>3, InsertKeeps
  <2>4. CASE Event[o] # "self" /\ parked' = parked \cup {o} /\ UNCHANGED notice
    BY <1>4, <2>1, <2>4 DEF NoticeTypes
  <2> QED
    BY <1>9, <2>2, <2>3, <2>4 DEF OtherNotifies, o
<1>10. ASSUME NEW i \in Ids, UserReads(i) PROVE NotifyInv'
  BY <1>3, <1>10 DEF UserReads, vars, NoticeTypes
<1>11. CASE UNCHANGED notifyVars
  BY <1>3, <1>11 DEF notifyVars, vars, tableVars, NoticeTypes
<1> QED
  BY <1>5, <1>6, <1>7, <1>8, <1>9, <1>10, <1>11 DEF NotifyNext

LEMMA NotifySafe == NotifySpec => []NotifyInv
<1>1. NotifyInit => NotifyInv
  <2> SUFFICES ASSUME NotifyInit
               PROVE  NotifyInv
    OBVIOUS
  <2>1. CommitInv
    BY CommitInit DEF NotifyInit
  <2> QED
    BY <2>1 DEF NotifyInit, Init, NotifyInv, NoticeTypes, FinishedIsNotified
<1>2. NotifyInv /\ [NotifyNext]_notifyVars => NotifyInv'
  BY NotifyStepInv
<1> QED
  BY <1>1, <1>2, PTL DEF NotifySpec

\* A like whose event is committed, and so never delivered again, has its
\* notification or a dead letter, for any log, keys, crashes and rebalances.
THEOREM CommittedIsNotifiedHolds == NotifySpec => []CommittedIsNotified
<1>1. NotifyInv => CommittedIsNotified
  BY DEF NotifyInv, CommitInv, CommitSafe, FinishedIsNotified, CommittedIsNotified
<1> QED
  BY <1>1, NotifySafe, PTL

\* ON CONFLICT DO NOTHING: no redelivery marks a read notification unread.
THEOREM ReadStaysReadHolds == NotifySpec => ReadStaysRead
<1>1. NotifyInv /\ [NotifyNext]_notifyVars
        => [\A i \in Ids : notice[i] = "read" => notice'[i] = "read"]_notifyVars
  <2> SUFFICES ASSUME NotifyInv, [NotifyNext]_notifyVars, NEW i \in Ids, notice[i] = "read"
               PROVE  notice'[i] = "read"
    OBVIOUS
  <2>1. CASE UNCHANGED notice
    BY <2>1
  <2>2. ASSUME NEW k \in Ids, Insert(k) PROVE notice'[i] = "read"
    BY <2>2, InsertKeeps DEF NotifyInv
  <2>3. \A o \in Offsets : Id[o] \in Ids
    BY DEF Ids
  <2>4. ASSUME NEW w \in Workers, HandlePostLiked(w) \/ HandleFails(w)
        PROVE  notice'[i] = "read"
    <3>1. cur[w] \in Offsets
      BY <2>4 DEF HandlePostLiked, HandleFails, HandleOk, HandleErr, NotifyInv, CommitInv, Typed,
         BusyHasMessage
    <3> QED
      BY <2>1, <2>2, <2>3, <2>4, <3>1 DEF HandlePostLiked, HandleFails
  <2>5. CASE OtherNotifies
    <3>1. committed + 1 \in Offsets
      BY <2>5 DEF OtherNotifies, OtherHandles
    <3> QED
      BY <2>1, <2>2, <2>3, <2>5, <3>1 DEF OtherNotifies
  <2>6. ASSUME NEW k \in Ids, UserReads(k) PROVE notice'[i] = "read"
    BY <2>6 DEF UserReads, NotifyInv, NoticeTypes
  <2>7. CASE ConsumerOnly \/ (\E w \in Workers : Park(w)) \/ UNCHANGED notifyVars
    BY <2>1, <2>7 DEF ConsumerOnly, Park, tableVars, notifyVars
  <2> QED
    BY <2>4, <2>5, <2>6, <2>7 DEF NotifyNext
<1> QED
  BY <1>1, NotifySafe, PTL DEF NotifySpec, ReadStaysRead
=============================================================================
