------------------------------- MODULE FanOut -------------------------------
(***************************************************************************)
(* How a new post of one author reaches the home feeds of its followers:   *)
(* HandlePostCreated of services/feed/worker/feed_worker.go, the plan and  *)
(* the batched fan-out of shared/feedplan/feedplan.go, the follower        *)
(* queries of shared/socialgraph/socialgraph.go and AddToFeeds of          *)
(* shared/backend/redis.go.  One step per query or Redis pipeline; follows *)
(* and unfollows (services/social/service/follow.go) happen in between.    *)
(*                                                                         *)
(* Times: now orders follows and posts (follows.created_at; backfilled     *)
(* rows may share one); At[p] is the event's CreatedAt, which              *)
(* persistNewPost always sets and the backfill may leave 0.                *)
(***************************************************************************)
EXTENDS Integers, FiniteSets

CONSTANTS
  Users,         \* the accounts that may follow the author, numbered in user_id order
  Early,         \* follows.created_at at the start, 0 for those who do not follow yet
  Posts, At,     \* the author's posts, numbered in post_id order, and their seconds, 0 for
                 \* a legacy post without one
  Nows,          \* the seconds that time.Now() may return to a handler
  Workers,       \* goroutines of feed-worker instances
  Threshold,     \* Policy.CelebrityThreshold
  PageSize,      \* followers read per query (1000 in the code)
  BatchSize, Parallelism, MaxFeedLen,  \* the other limits of Policy
  MaxAttempts,   \* consumer.Config: calls of the handler per delivery
  MaxChanges,    \* bound: follows and unfollows
  MaxFaults      \* bound: failed calls, stopped handlers, redeliveries of events already
                 \* handled and feeds that expire or are lost with Redis

ASSUME PostsAssumption ==
  Posts \subseteq Nat /\ At \in [Posts -> Nat] /\ Nows \subseteq Nat \ {0} /\ Nows # {}
ASSUME EarlyAssumption ==
  /\ IsFiniteSet(Users) /\ Users \subseteq Nat \ {0}
  /\ Early \in [Users -> 0..Cardinality(Users)]
ASSUME PolicyAssumption ==
  {Threshold, PageSize, BatchSize, Parallelism, MaxFeedLen, MaxAttempts} \subseteq Nat \ {0}
ASSUME BoundsAssumption == {MaxChanges, MaxFaults} \subseteq Nat

VARIABLES
  now,        \* the clock of the database
  follow,     \* follow[u]: created_at of the follows row, 0 when there is none
  born,       \* born[p]: when the post was committed, 0 before
  celebrity,  \* the author is in feed:celebrities
  feed,       \* feed[u][p]: score of p in the sorted set feed:home:u, 0 when p is not in it
  pushed,     \* history: the greatest score that p was ever added with, 0 if never
  handled,    \* posts whose event was handled
  parked,     \* posts whose event went to the dead-letter topic
  pc, event,  \* a worker's step and the post it handles
  tries,      \* calls of the handler that failed in this delivery
  out,        \* AllFollowers: out[w][u] is the created_at read for u, 0 if not read
  after,      \* its keyset position: created_at and id of the last row read
  score,      \* createdAt, what the post is scored with
  todo,       \* FanOut: numbers of the batches that are not written yet
  failed,     \* FanOut: firstErr # nil
  crowded,    \* history: followers were read when there were more than Threshold
  changes, faults,
  losses      \* how many of the faults are lost feeds

graphVars == <<now, follow, born, changes>>
redisVars == <<celebrity, feed, pushed>>
topicVars == <<handled, parked>>
workVars == <<pc, event, tries, out, after, score, todo, failed, crowded>>
vars == <<graphVars, redisVars, topicVars, workVars, faults, losses>>

NotRead == [u \in Users |-> 0]
NoCursor == <<0, 0>>
NoScores == [p \in Posts |-> 0]

Init ==
  /\ now = Cardinality(Users) + 1 /\ follow = Early /\ born = [p \in Posts |-> 0] /\ changes = 0
  /\ celebrity = FALSE
  /\ feed = [u \in Users |-> NoScores] /\ pushed = [u \in Users |-> NoScores]
  /\ handled = {} /\ parked = {}
  /\ pc = [w \in Workers |-> "idle"] /\ event = [w \in Workers |-> 0]
  /\ tries = [w \in Workers |-> 0] /\ score = [w \in Workers |-> 0]
  /\ out = [w \in Workers |-> NotRead] /\ after = [w \in Workers |-> NoCursor]
  /\ todo = [w \in Workers |-> {}] /\ failed = [w \in Workers |-> FALSE]
  /\ crowded = FALSE
  /\ faults = 0 /\ losses = 0

Fails == faults < MaxFaults /\ faults' = faults + 1

\* The order of the follow list, (created_at, follower_id), and of a sorted set,
\* (score, member), both newest first.
Newer(f, a, b) == f[a] > f[b] \/ (f[a] = f[b] /\ a > b)

-----------------------------------------------------------------------------
(* The social graph and the author.                                        *)

\* INSERT ... ON CONFLICT DO NOTHING made a row.
AddFollow(u) ==
  /\ follow[u] = 0 /\ changes < MaxChanges
  /\ follow' = [follow EXCEPT ![u] = now]
  /\ now' = now + 1 /\ changes' = changes + 1
  /\ UNCHANGED <<born, redisVars, topicVars, workVars, faults, losses>>

RemoveFollow(u) ==
  /\ follow[u] # 0 /\ changes < MaxChanges
  /\ follow' = [follow EXCEPT ![u] = 0]
  /\ changes' = changes + 1
  /\ UNCHANGED <<now, born, redisVars, topicVars, workVars, faults, losses>>

CreatePost(p) ==
  /\ born[p] = 0
  /\ born' = [born EXCEPT ![p] = now]
  /\ now' = now + 1
  /\ UNCHANGED <<follow, changes, redisVars, topicVars, workVars, faults, losses>>

-----------------------------------------------------------------------------
(* HandlePostCreated.                                                      *)

\* Mutant: the offset is committed before the handler ran.
HandleOnce(w, p) ==
  /\ pc[w] = "idle" /\ born[p] # 0 /\ p \notin handled /\ faults = 0
  /\ pc' = [pc EXCEPT ![w] = "count"]
  /\ event' = [event EXCEPT ![w] = p]
  /\ UNCHANGED <<graphVars, redisVars, topicVars, tries, out, after, score, todo, failed,
                 crowded, faults, losses>>

\* The consumer delivers an event until it is finished, and sometimes again.
Handle(w, p) ==
  /\ pc[w] = "idle" /\ born[p] # 0
  /\ IF p \in handled \cup parked THEN Fails ELSE UNCHANGED faults
  /\ pc' = [pc EXCEPT ![w] = "count"]
  /\ event' = [event EXCEPT ![w] = p]
  /\ UNCHANGED <<graphVars, redisVars, topicVars, tries, out, after, score, todo, failed,
                 crowded, losses>>

\* The handler's next step is s, after n failed calls of it; what it had read is gone.
Leave(w, s, n) ==
  /\ pc' = [pc EXCEPT ![w] = s]
  /\ event' = [event EXCEPT ![w] = IF s = "idle" THEN 0 ELSE @]
  /\ tries' = [tries EXCEPT ![w] = n]
  /\ out' = [out EXCEPT ![w] = NotRead] /\ after' = [after EXCEPT ![w] = NoCursor]
  /\ score' = [score EXCEPT ![w] = 0]
  /\ todo' = [todo EXCEPT ![w] = {}] /\ failed' = [failed EXCEPT ![w] = FALSE]
  /\ UNCHANGED crowded

\* The handler returned nil.
Finish(w) ==
  /\ Leave(w, "idle", 0)
  /\ handled' = handled \cup {event[w]} /\ UNCHANGED parked

\* The handler returned an error: the consumer calls it again until the budget of
\* attempts is spent; then the event goes to the dead-letter topic and counts as done.
Fail(w) ==
  /\ UNCHANGED handled
  /\ \/ /\ tries[w] + 1 < MaxAttempts
        /\ Leave(w, "count", tries[w] + 1) /\ UNCHANGED parked
     \/ /\ tries[w] + 1 >= MaxAttempts
        /\ Leave(w, "idle", 0) /\ parked' = parked \cup {event[w]}

\* Policy.Decide: the step that follows the count.
Decide(n) == IF n > Threshold THEN "mark" ELSE "read"

Followers == {u \in Users : follow[u] # 0}

\* FollowerCountUpTo(threshold + 1).
Count(w) ==
  LET all == Cardinality(Followers)
      n == IF all <= Threshold THEN all ELSE Threshold + 1
  IN  /\ pc[w] = "count"
      /\ IF n = 0 THEN Finish(w)
                  ELSE Leave(w, Decide(n), tries[w]) /\ UNCHANGED topicVars
      /\ UNCHANGED <<graphVars, redisVars, faults, losses>>

\* Pull mode: SADD feed:celebrities.
Mark(w) ==
  /\ pc[w] = "mark"
  /\ celebrity' = TRUE
  /\ Finish(w)
  /\ UNCHANGED <<graphVars, feed, pushed, faults, losses>>

IsSet(c) == c[2] # 0

\* Mutant: the keyset compares created_at alone.
RestNoTies(w) == {u \in Followers : IsSet(after[w]) => follow[u] < after[w][1]}

\* The rows after the keyset position: (created_at, follower_id) < ($2, $3).
Rest(w) ==
  {u \in Followers : IsSet(after[w]) =>
     follow[u] < after[w][1] \/ (follow[u] = after[w][1] /\ u < after[w][2])}

\* One query of AllFollowers: newest first, at most PageSize rows and never more
\* than Threshold in all.
Page(w) ==
  LET left == Threshold - Cardinality({u \in Users : out[w][u] # 0})
      n == IF PageSize <= left THEN PageSize ELSE left
      rest == Rest(w)
  IN  {u \in rest : Cardinality({v \in rest : Newer(follow, v, u)}) < n}

\* Batches: batch i holds the i-th BatchSize followers of the list.
Batch(list, i) ==
  {u \in Users : /\ list[u] # 0
                 /\ Cardinality({v \in Users : Newer(list, v, u)}) \div BatchSize = i - 1}

\* createdAt := event.CreatedAt, or time.Now().Unix() when the event has none.
Scores(p) == IF At[p] # 0 THEN {At[p]} ELSE Nows

\* The page is added; a full list or a page without a successor ends the loop and
\* the post gets its score.
ReadPage(w) ==
  LET page == Page(w)
      list == [u \in Users |-> IF u \in page THEN follow[u] ELSE out[w][u]]
      full == Cardinality({u \in Users : list[u] # 0}) >= Threshold
  IN  /\ pc[w] = "read"
      /\ out' = [out EXCEPT ![w] = list]
      /\ crowded' = (crowded \/ Cardinality(Followers) > Threshold)
      /\ IF page # Rest(w) /\ ~full
           THEN /\ \E u \in page :
                     /\ \A v \in page : u = v \/ Newer(follow, v, u)
                     /\ after' = [after EXCEPT ![w] = <<follow[u], u>>]
                /\ UNCHANGED <<pc, score, todo>>
           ELSE /\ pc' = [pc EXCEPT ![w] = "push"]
                /\ \E t \in Scores(event[w]) : score' = [score EXCEPT ![w] = t]
                /\ todo' = [todo EXCEPT ![w] =
                     {i \in 1..Cardinality(Users) : Batch(list, i) # {}}]
                /\ UNCHANGED after
      /\ UNCHANGED <<graphVars, redisVars, topicVars, event, tries, failed, faults, losses>>

\* A query or the SADD failed.
CallFails(w) ==
  /\ pc[w] \in {"count", "mark", "read"} /\ Fails
  /\ Fail(w)
  /\ UNCHANGED <<graphVars, redisVars, losses>>

-----------------------------------------------------------------------------
(* FanOut and AddToFeeds.                                                  *)

\* Mutant: the oldest entries are kept.
TrimOldest(f) ==
  [p \in Posts |->
     IF Cardinality({q \in Posts : f[q] # 0 /\ Newer(f, p, q)}) < MaxFeedLen THEN f[p] ELSE 0]

\* ZREMRANGEBYRANK 0 -(maxLen+1)
Trim(f) ==
  [p \in Posts |-> IF Cardinality({q \in Posts : Newer(f, q, p)}) < MaxFeedLen THEN f[p] ELSE 0]

\* ZADD and the trim for the users of S, the ZADD alone for those of Z.  A member
\* that is added again gets the new score.
Add(p, t, S, Z) ==
  LET ZAdd(u) == [feed[u] EXCEPT ![p] = t]
  IN  /\ feed' = [u \in Users |->
           IF u \in S THEN Trim(ZAdd(u)) ELSE IF u \in Z THEN ZAdd(u) ELSE feed[u]]
      /\ pushed' = [u \in Users |->
           IF u \in S \cup Z /\ pushed[u][p] < t THEN [pushed[u] EXCEPT ![p] = t]
                                                 ELSE pushed[u]]

\* At most Parallelism batches are in flight, started in their order.
InFlight(w, i) ==
  /\ pc[w] = "push" /\ i \in todo[w]
  /\ Cardinality({j \in todo[w] : j < i}) < Parallelism

PushBatch(w, i) ==
  /\ InFlight(w, i)
  /\ Add(event[w], score[w], Batch(out[w], i), {})
  /\ todo' = [todo EXCEPT ![w] = @ \ {i}]
  /\ UNCHANGED <<graphVars, celebrity, topicVars, pc, event, tries, out, after, score,
                 failed, crowded, faults, losses>>

\* The pipeline broke off: a prefix of its commands took effect.
PushFails(w, i) ==
  LET batch == Batch(out[w], i)
  IN  /\ InFlight(w, i) /\ Fails
      /\ \E S \in SUBSET batch :
           /\ \A u \in S, v \in batch \ S : Newer(out[w], u, v)
           /\ \/ Add(event[w], score[w], S, {})
              \/ \E v \in batch \ S :
                   /\ \A u \in batch \ S : u = v \/ Newer(out[w], v, u)
                   /\ Add(event[w], score[w], S, {v})
      /\ todo' = [todo EXCEPT ![w] = @ \ {i}]
      /\ failed' = [failed EXCEPT ![w] = TRUE]
      /\ UNCHANGED <<graphVars, celebrity, topicVars, pc, event, tries, out, after, score,
                     crowded, losses>>

\* All batches are through: the handler returns nil or the first error.
EndFanOut(w) ==
  /\ pc[w] = "push" /\ todo[w] = {}
  /\ IF failed[w] THEN Fail(w) ELSE Finish(w)
  /\ UNCHANGED <<graphVars, redisVars, faults, losses>>

\* The process stops or dies: the event is delivered again.
Stop(w) ==
  /\ pc[w] # "idle" /\ Fails
  /\ Leave(w, "idle", 0)
  /\ UNCHANGED <<graphVars, redisVars, topicVars, losses>>

\* FeedTTL passed, or Redis lost its data.
LoseFeed(u) ==
  /\ feed[u] # NoScores /\ Fails
  /\ losses' = losses + 1
  /\ feed' = [feed EXCEPT ![u] = NoScores]
  /\ UNCHANGED <<graphVars, celebrity, pushed, topicVars, workVars>>

-----------------------------------------------------------------------------
WorkerStep(w) ==
  \/ Count(w) \/ Mark(w) \/ ReadPage(w) \/ EndFanOut(w)
  \/ \E i \in todo[w] : PushBatch(w, i)

Next ==
  \/ \E u \in Users : AddFollow(u) \/ RemoveFollow(u) \/ LoseFeed(u)
  \/ \E p \in Posts : CreatePost(p) \/ \E w \in Workers : Handle(w, p)
  \/ \E w \in Workers :
       WorkerStep(w) \/ CallFails(w) \/ Stop(w) \/ \E i \in todo[w] : PushFails(w, i)

Spec == Init /\ [][Next]_vars

\* Calls return and the consumer delivers every event until it is finished.
Fairness ==
  /\ \A w \in Workers : WF_vars(WorkerStep(w))
  /\ \A p \in Posts :
       WF_vars(\E w \in Workers : Handle(w, p) /\ p \notin handled \cup parked)

FairSpec == Spec /\ Fairness

-----------------------------------------------------------------------------
(* What makes the fan-out right.                                           *)

\* Types; nothing is read beyond Threshold followers, so a fan-out is bounded.
TypeOK ==
  /\ now \in Nat /\ follow \in [Users -> Nat] /\ born \in [Posts -> Nat]
  /\ celebrity \in BOOLEAN
  /\ feed \in [Users -> [Posts -> Nat]] /\ pushed \in [Users -> [Posts -> Nat]]
  /\ handled \subseteq Posts /\ parked \subseteq Posts
  /\ pc \in [Workers -> {"idle", "count", "mark", "read", "push"}]
  /\ \A w \in Workers : event[w] \in Posts \/ (pc[w] = "idle" /\ event[w] = 0)
  /\ tries \in [Workers -> 0..(MaxAttempts - 1)]
  /\ out \in [Workers -> [Users -> Nat]]
  /\ \A w \in Workers : Cardinality({u \in Users : out[w][u] # 0}) <= Threshold
  /\ after \in [Workers -> Nat \X Nat] /\ score \in [Workers -> Nat]
  /\ failed \in [Workers -> BOOLEAN] /\ crowded \in BOOLEAN
  /\ todo \in [Workers -> SUBSET (1..Cardinality(Users))]
  /\ changes \in 0..MaxChanges /\ faults \in 0..MaxFaults /\ losses \in 0..faults

\* The follower followed before the post and ever since.
FollowsSince(u, p) == follow[u] # 0 /\ follow[u] < born[p]

\* "when a post is created, its id is added to each follower's materialised
\* feed" (feedplan.go:6-7) unless readers pull it: through failed batches,
\* retries, crashes and follows and unfollows between the pages of the query,
\* for every event that was handled and not dead-lettered instead, when no
\* handler reads the followers of an author who has passed the threshold
\* since it counted them: the list is cut at the threshold, newest first.
FollowersReached ==
  ~crowded => \A p \in handled, u \in Users :
    FollowsSince(u, p) => celebrity \/ pushed[u][p] # 0

\* Whatever the order, the repetitions and the partial failures of the pushes,
\* a feed has every post pushed to it or was given MaxFeedLen newer ones ("ZADD
\* keyed by post id is idempotent", feedplan.go:86-88, redis.go:141-142), while no
\* feed is lost.  A post without CreatedAt gets a new score with every delivery;
\* it may push others out, and nothing is said of its own place.
Kept(u, p) ==
  \/ feed[u][p] = At[p]
  \/ Cardinality({q \in Posts : Newer(pushed[u], q, p)}) >= MaxFeedLen
FeedIsNewest ==
  losses = 0 => \A u \in Users, p \in Posts : At[p] # 0 /\ pushed[u][p] # 0 => Kept(u, p)

\* Every post comes into the feed of everyone who follows since before it and, if
\* it has a CreatedAt, stays there while it is among the newest (feedplan.go:6-8),
\* unless its event was dead-lettered, the feed was lost, which nothing repairs,
\* or the list of followers was cut.
FeedComplete ==
  [](losses = 0 /\ ~crowded) =>
    <>[](\A u \in Users, p \in Posts \ (parked \ handled) :
           FollowsSince(u, p) /\ ~celebrity =>
             pushed[u][p] # 0 /\ (At[p] # 0 => Kept(u, p)))
=============================================================================
