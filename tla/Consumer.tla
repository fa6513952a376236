------------------------------ MODULE Consumer ------------------------------
(***************************************************************************)
(* The event-processing loop of the workers: Run, process and commit of    *)
(* shared/consumer/consumer.go, the Tracker of shared/consumer/tracker.go  *)
(* and the Kafka reader behind Source (shared/kafka/consumer.go), for one  *)
(* partition and one instance.  The rest of the consumer group appears as  *)
(* OtherHandles, the broker as the position and committed of the group.    *)
(*                                                                         *)
(* Offsets are numbered from 1, so 0 stands for the code's -1 (nothing     *)
(* ready, nothing committed).  Backoff sleeps only delay a step.           *)
(***************************************************************************)
EXTENDS Integers, Sequences, FiniteSets

CONSTANTS
  N,             \* messages in the partition: offsets 1..N
  Workers,       \* worker goroutines
  Route,         \* Route[o]: the worker the key of offset o hashes to
  Key,           \* Key[o]: the message's key
  QueueSize,     \* capacity of a worker's channel
  MaxAttempts,   \* attempts before a message is dead-lettered
  HasDLQ,        \* Config.DLQTopic # ""
  MaxStops,      \* bound: cancellations, fetch errors and crashes
  MaxRebalances  \* bound: times the partition is taken away

Offsets == 1..N

ASSUME NAssumption == N \in Nat
ASSUME RouteAssumption == Route \in [Offsets -> Workers]
\* route() is a function of the key.
ASSUME RouteByKey == \A o, p \in Offsets : Key[o] = Key[p] => Route[o] = Route[p]
ASSUME BoundsAssumption ==
  /\ QueueSize \in Nat /\ MaxAttempts \in Nat \ {0} /\ HasDLQ \in BOOLEAN
  /\ MaxStops \in Nat /\ MaxRebalances \in Nat

VARIABLES
  assigned,   \* this instance owns the partition
  position,   \* next offset the reader fetches
  committed,  \* the group's committed offset at the broker
  run,        \* step of Run: "fetch", "drain", "final", "returned", "crashed"
  cancelled,  \* ctx is done
  held,       \* message fetched and tracked, not yet queued (0: none)
  queue,      \* queue[w]: the worker's channel
  step,       \* step[w]: "idle", "handle", "dlq", "finished"
  cur,        \* cur[w]: the message in process() (0: none)
  attempt,    \* attempt[w]: attempts made
  pending,    \* partState.pending
  done,       \* partState.done
  ready,      \* partState.ready
  handed,     \* partState.committed
  inflight,   \* position handed to Source.Commit and not answered (0: none)
  finished,   \* history: messages handled, or parked in the dead-letter topic
  stops, rebalances

brokerVars  == <<assigned, position, committed>>
loopVars    == <<run, cancelled, held>>
workerVars  == <<queue, step, cur, attempt>>
trackerVars == <<pending, done, ready, handed>>
vars == <<brokerVars, loopVars, workerVars, trackerVars, inflight, finished, stops,
          rebalances>>

\* NewTracker and the start of Run.
Fresh ==
  /\ run' = "fetch" /\ cancelled' = FALSE /\ held' = 0
  /\ queue' = [w \in Workers |-> <<>>]
  /\ step' = [w \in Workers |-> "idle"]
  /\ cur' = [w \in Workers |-> 0]
  /\ attempt' = [w \in Workers |-> 0]
  /\ pending' = <<>> /\ done' = {} /\ ready' = 0 /\ handed' = 0
  /\ inflight' = 0

Init ==
  /\ assigned = TRUE /\ position = 1 /\ committed = 0
  /\ run = "fetch" /\ cancelled = FALSE /\ held = 0
  /\ queue = [w \in Workers |-> <<>>]
  /\ step = [w \in Workers |-> "idle"]
  /\ cur = [w \in Workers |-> 0]
  /\ attempt = [w \in Workers |-> 0]
  /\ pending = <<>> /\ done = {} /\ ready = 0 /\ handed = 0
  /\ inflight = 0
  /\ finished = {}
  /\ stops = 0 /\ rebalances = 0

-----------------------------------------------------------------------------
(* The fetch loop of Run.                                                  *)

\* Fetch, then Tracker.Track.  A cancelled context may lose the race against
\* a message the reader has at hand.
Fetch ==
  /\ run = "fetch" /\ held = 0
  /\ assigned /\ position \in Offsets
  /\ held' = position
  /\ pending' = Append(pending, position)
  /\ position' = position + 1
  /\ UNCHANGED <<assigned, committed, run, cancelled, workerVars, done, ready, handed,
                 inflight, finished, stops, rebalances>>

\* After the select the loop ends if ctx is done.
LoopOn == run' = IF cancelled THEN "drain" ELSE "fetch"

\* Mutant: the message goes to any worker.
EnqueueAnywhere ==
  /\ held # 0
  /\ \E w \in Workers :
       /\ Len(queue[w]) < QueueSize
       /\ queue' = [queue EXCEPT ![w] = Append(@, held)]
  /\ held' = 0
  /\ LoopOn
  /\ UNCHANGED <<brokerVars, cancelled, step, cur, attempt, trackerVars, inflight,
                 finished, stops, rebalances>>

\* q <- m: blocks while the worker's channel is full.
Enqueue ==
  /\ held # 0
  /\ Len(queue[Route[held]]) < QueueSize
  /\ queue' = [queue EXCEPT ![Route[held]] = Append(@, held)]
  /\ held' = 0
  /\ LoopOn
  /\ UNCHANGED <<brokerVars, cancelled, step, cur, attempt, trackerVars, inflight,
                 finished, stops, rebalances>>

\* <-ctx.Done(): the message stays tracked but reaches no worker.
GiveUp ==
  /\ held # 0 /\ cancelled
  /\ held' = 0
  /\ LoopOn
  /\ UNCHANGED <<brokerVars, cancelled, workerVars, trackerVars, inflight, finished,
                 stops, rebalances>>

\* Fetch returns an error, because ctx is done or because the source failed.
FetchFails ==
  /\ run = "fetch" /\ held = 0
  /\ \/ cancelled /\ UNCHANGED stops
     \/ ~cancelled /\ stops < MaxStops /\ stops' = stops + 1
  /\ run' = "drain"
  /\ UNCHANGED <<brokerVars, cancelled, held, workerVars, trackerVars, inflight, finished,
                 rebalances>>

-----------------------------------------------------------------------------
(* A worker goroutine: process, then Tracker.Done.                         *)

\* process returns false.
Interrupted(w) ==
  /\ step' = [step EXCEPT ![w] = "idle"]
  /\ cur' = [cur EXCEPT ![w] = 0]
  /\ attempt' = [attempt EXCEPT ![w] = 0]

\* Receive the next message; process looks at ctx before the first attempt.
Take(w) ==
  /\ step[w] = "idle" /\ queue[w] # <<>>
  /\ queue' = [queue EXCEPT ![w] = Tail(@)]
  /\ IF cancelled
       THEN UNCHANGED <<step, cur, attempt>>
       ELSE /\ step' = [step EXCEPT ![w] = "handle"]
            /\ cur' = [cur EXCEPT ![w] = Head(queue[w])]
            /\ attempt' = [attempt EXCEPT ![w] = 1]
  /\ UNCHANGED <<brokerVars, loopVars, trackerVars, inflight, finished, stops, rebalances>>

HandleOk(w) ==
  /\ step[w] = "handle"
  /\ step' = [step EXCEPT ![w] = "finished"]
  /\ finished' = finished \cup {cur[w]}
  /\ UNCHANGED <<brokerVars, loopVars, queue, cur, attempt, trackerVars, inflight, stops,
                 rebalances>>

\* An attempt failed: try again, give up for good, or stop because ctx is done.
HandleErr(w) ==
  /\ step[w] = "handle"
  /\ IF cancelled
       THEN Interrupted(w)
       ELSE /\ step' = [step EXCEPT ![w] =
                 IF HasDLQ /\ attempt[w] >= MaxAttempts THEN "dlq" ELSE "handle"]
            /\ attempt' = [attempt EXCEPT ![w] = IF @ < MaxAttempts THEN @ + 1 ELSE @]
            /\ UNCHANGED cur
  /\ UNCHANGED <<brokerVars, loopVars, queue, trackerVars, inflight, finished, stops,
                 rebalances>>

DlqOk(w) ==
  /\ step[w] = "dlq"
  /\ step' = [step EXCEPT ![w] = "finished"]
  /\ finished' = finished \cup {cur[w]}
  /\ UNCHANGED <<brokerVars, loopVars, queue, cur, attempt, trackerVars, inflight, stops,
                 rebalances>>

\* The dead-letter publish is retried until it succeeds or ctx is done.
DlqErr(w) ==
  /\ step[w] = "dlq" /\ cancelled
  /\ Interrupted(w)
  /\ UNCHANGED <<brokerVars, loopVars, queue, trackerVars, inflight, finished, stops,
                 rebalances>>

\* The loop of Tracker.Done stops after n entries: each is in d, and is removed
\* from d when it is popped.
Pops(n, d) ==
  /\ \A i \in 1..n : pending[i] \in d
  /\ \A i, j \in 1..n : pending[i] = pending[j] => i = j
  /\ n < Len(pending) => pending[n + 1] \notin d \ {pending[i] : i \in 1..n}

\* Mutant: the newest finished offset is ready.
DoneNewest(w) ==
  /\ step[w] = "finished"
  /\ ready' = cur[w]
  /\ pending' = SelectSeq(pending, LAMBDA o : o # cur[w])
  /\ UNCHANGED done
  /\ Interrupted(w)
  /\ UNCHANGED <<brokerVars, loopVars, queue, handed, inflight, finished, stops,
                 rebalances>>

Done(w) ==
  /\ step[w] = "finished"
  /\ \E n \in 0..Len(pending) :
       LET d == done \cup {cur[w]}
       IN  /\ Pops(n, d)
           /\ ready' = IF n = 0 THEN ready ELSE pending[n]
           /\ done' = d \ {pending[i] : i \in 1..n}
           /\ pending' = SubSeq(pending, n + 1, Len(pending))
  /\ Interrupted(w)
  /\ UNCHANGED <<brokerVars, loopVars, queue, handed, inflight, finished, stops,
                 rebalances>>

-----------------------------------------------------------------------------
(* Commits: the committer goroutine, then the final commit of Run.         *)

Committable == ready > handed

TakeCommittable ==
  /\ run \in {"fetch", "drain"} /\ inflight = 0 /\ Committable
  /\ inflight' = ready /\ handed' = ready
  /\ UNCHANGED <<brokerVars, loopVars, workerVars, pending, done, ready, finished, stops,
                 rebalances>>

CommitOk ==
  /\ inflight # 0
  /\ committed' = inflight
  /\ inflight' = 0
  /\ UNCHANGED <<assigned, position, loopVars, workerVars, trackerVars, finished, stops,
                 rebalances>>

\* Mutant: a failed commit is not rewound.
CommitErrNoRewind ==
  /\ inflight # 0
  /\ inflight' = 0
  /\ UNCHANGED <<brokerVars, handed, loopVars, workerVars, pending, done, ready, finished,
                 stops, rebalances>>

\* Source.Commit failed (the broker may still have taken it): Tracker.Rewind.
CommitErr ==
  /\ inflight # 0
  /\ committed' \in {committed, inflight}
  /\ handed' = IF handed >= inflight THEN inflight - 1 ELSE handed
  /\ inflight' = 0
  /\ UNCHANGED <<assigned, position, loopVars, workerVars, pending, done, ready, finished,
                 stops, rebalances>>

\* All queues are closed and drained, the committer has stopped.
FinalCommit ==
  /\ run = "drain" /\ inflight = 0
  /\ \A w \in Workers : queue[w] = <<>> /\ step[w] = "idle"
  /\ run' = "final"
  /\ IF Committable THEN inflight' = ready /\ handed' = ready
                    ELSE UNCHANGED <<inflight, handed>>
  /\ UNCHANGED <<brokerVars, cancelled, held, workerVars, pending, done, ready, finished,
                 stops, rebalances>>

Return ==
  /\ run = "final" /\ inflight = 0
  /\ run' = "returned"
  /\ UNCHANGED <<brokerVars, cancelled, held, workerVars, trackerVars, inflight, finished,
                 stops, rebalances>>

-----------------------------------------------------------------------------
(* The environment: shutdown, crash, restart, the consumer group.          *)

Cancel ==
  /\ run \in {"fetch", "drain"} /\ ~cancelled /\ stops < MaxStops
  /\ cancelled' = TRUE
  /\ stops' = stops + 1
  /\ UNCHANGED <<brokerVars, run, held, workerVars, trackerVars, inflight, finished,
                 rebalances>>

\* What is in memory is gone, the reader and its position included.
Crash ==
  /\ run \in {"fetch", "drain", "final"} /\ stops < MaxStops
  /\ stops' = stops + 1
  /\ run' = "crashed"
  /\ cancelled' = FALSE /\ held' = 0
  /\ queue' = [w \in Workers |-> <<>>]
  /\ step' = [w \in Workers |-> "idle"]
  /\ cur' = [w \in Workers |-> 0]
  /\ attempt' = [w \in Workers |-> 0]
  /\ pending' = <<>> /\ done' = {} /\ ready' = 0 /\ handed' = 0
  /\ inflight' = 0
  /\ position' = committed + 1
  /\ UNCHANGED <<assigned, committed, finished, rebalances>>

\* The process comes back and the reader starts at the committed offset.
Restart ==
  /\ run \in {"returned", "crashed"}
  /\ Fresh
  /\ assigned' = TRUE
  /\ position' = committed + 1
  /\ UNCHANGED <<committed, finished, stops, rebalances>>

Revoke ==
  /\ assigned /\ run \in {"fetch", "drain"} /\ rebalances < MaxRebalances
  /\ rebalances' = rebalances + 1
  /\ assigned' = FALSE
  /\ UNCHANGED <<position, committed, loopVars, workerVars, trackerVars, inflight, finished,
                 stops>>

\* The partition comes back to the same Run, whose Tracker was not told.
Assign ==
  /\ ~assigned /\ run = "fetch"
  /\ assigned' = TRUE
  /\ position' = committed + 1
  /\ UNCHANGED <<committed, loopVars, workerVars, trackerVars, inflight, finished, stops,
                 rebalances>>

\* Another member of the group handles and commits the next message.
OtherHandles ==
  /\ ~assigned
  /\ committed + 1 \in Offsets
  /\ finished' = finished \cup {committed + 1}
  /\ committed' = committed + 1
  /\ UNCHANGED <<assigned, position, loopVars, workerVars, trackerVars, inflight, stops,
                 rebalances>>

-----------------------------------------------------------------------------
WorkerStep(w) ==
  Take(w) \/ HandleOk(w) \/ HandleErr(w) \/ DlqOk(w) \/ DlqErr(w) \/ Done(w)

LoopStep == Fetch \/ Enqueue \/ GiveUp \/ FetchFails \/ FinalCommit \/ Return

CommitStep == TakeCommittable \/ CommitOk \/ CommitErr

Next ==
  \/ LoopStep \/ CommitStep
  \/ \E w \in Workers : WorkerStep(w)
  \/ Cancel \/ Crash \/ Restart \/ Revoke \/ Assign \/ OtherHandles

Spec == Init /\ [][Next]_vars

\* Goroutines are scheduled, a stopped instance comes back, a partition is
\* assigned again, and the commit does not fail for ever.
LoopFairness ==
  /\ WF_vars(LoopStep) /\ WF_vars(TakeCommittable) /\ WF_vars(CommitStep)
  /\ SF_vars(CommitOk)
  /\ WF_vars(Restart) /\ WF_vars(Assign)
  /\ \A w \in Workers : WF_vars(WorkerStep(w))

\* Nor do the handler and the dead-letter topic.
Fairness == LoopFairness /\ \A w \in Workers : SF_vars(HandleOk(w) \/ DlqOk(w))

FairSpec == Spec /\ Fairness

-----------------------------------------------------------------------------
(* What makes the loop correct.                                            *)

BrokerTypes ==
  assigned \in BOOLEAN /\ position \in Offsets \cup {N + 1} /\ committed \in Offsets \cup {0}

LoopTypes ==
  /\ run \in {"fetch", "drain", "final", "returned", "crashed"}
  /\ cancelled \in BOOLEAN
  /\ held \in Offsets \cup {0}
  /\ inflight \in Offsets \cup {0}

QueueTypes ==
  /\ queue \in [Workers -> Seq(Offsets)]
  /\ \A w \in Workers : Len(queue[w]) <= QueueSize

WorkerTypes ==
  /\ step \in [Workers -> {"idle", "handle", "dlq", "finished"}]
  /\ cur \in [Workers -> Offsets \cup {0}]
  /\ attempt \in [Workers -> 0..MaxAttempts]

TrackerTypes ==
  /\ pending \in Seq(Offsets)
  /\ done \subseteq Offsets
  /\ ready \in Offsets \cup {0}
  /\ handed \in Offsets \cup {0}

CountTypes ==
  finished \subseteq Offsets /\ stops \in 0..MaxStops /\ rebalances \in 0..MaxRebalances

\* Types; a worker's channel never holds more than its capacity, so at most
\* QueueSize + 2 messages per worker are in memory (Backpressure,
\* consumer.go:14-15), and nothing beyond the log is ever ready or committed.
TypeOK ==
  BrokerTypes /\ LoopTypes /\ QueueTypes /\ WorkerTypes /\ TrackerTypes /\ CountTypes

\* At-least-once (consumer.go:6-7): everything up to the committed offset was
\* handled or parked, through parallel workers that finish out of order, lost
\* and failed commits, shutdowns, crashes, and partitions that leave and come
\* back while their old messages are still in the queues and in the Tracker.
CommitSafe == \A o \in 1..committed : o \in finished

\* Per-key ordering (consumer.go:9-11): a handler is running on a message only
\* if every earlier message of its key is finished: an interrupted message is
\* never overtaken by the ones queued behind it.
PerKeyOrder ==
  \A w \in Workers : cur[w] # 0 =>
    \A o \in 1..(cur[w] - 1) : Key[o] = Key[cur[w]] => o \in finished

\* Every message is in the end handled or parked and its offset committed,
\* whatever fails, stops and crashes on the way, when the partition stays with
\* the instance.
EverythingCommitted == [](rebalances = 0) => <>[](committed = N)
=============================================================================
