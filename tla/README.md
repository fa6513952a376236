# Formal model of Social-AI-Backend

TLA+ modules, TLC configurations and TLAPS proofs for the services of this
repository. The modules are translated from the Go sources and their SQL;
`PROJECT.json` maps every definition to the lines it stands for, lists the
runs, the hazards the properties are aimed at, and the theorems.

Run one model with `tlc -config <run>.cfg MC<Module>`, check one set of proofs
with `tlapm <X>Proofs.tla`.

## 1. Inventory

The back end is a set of Go services around PostgreSQL (the source of truth),
Kafka (events), Redis (feeds, counters, caches, idempotency keys),
Elasticsearch (search) and Google Cloud Storage (media).

| Component | State it keeps | Operations | Correct when |
|---|---|---|---|
| **Outbox** `shared/outbox` | rows `pending / published / dead`, attempts, next attempt | `Enqueue` in the caller's transaction, `PublishNow`, relay pass `RunOnce`, `Prune` | committed events are published at least once, uncommitted ones never, and a settled row stays settled |
| **Consumer** `shared/consumer`, `shared/kafka` | per-worker queues, tracker (pending, done, ready, committed) | fetch, route, handle with retries, dead-letter, commit | a committed offset covers finished messages only; one key is handled in order; everything is finally committed |
| **Counters** `shared/counter`, `reconcile.go` | delta and dirty marker in Redis, `like_count`, like rows | like, unlike, `Incr`, `Flush`, `Reconciler.RunOnce` | the count is the number of rows, in the end and up to what is in flight |
| **Posts** `services/post/service/post.go` | rows, media objects, cleanup status, cached list of an author | `SavePost`, `DeletePost`, `CleanupDeletedPosts`, `SearchPostByUserId` | live posts have media, deleted media goes, no orphans, the cache converges |
| **Idempotency** `shared/idempotency`, `handler/post.go` | entry `running / done` with TTL | `Begin`, `Complete`, `Release` | one execution per key, true replays, retries settle |
| **Messages** `services/message` | conversation row, messages, read positions | `SendMessage`, `GetMessages`, `MarkRead`, `ListConversations` | gap-free sequence, one message per key, readers miss nothing |
| **Indexer** `services/indexer`, `cmd/reindex` | post version and embedding, documents, alias | `Sync`, `RepairMissingEmbeddings`, `Reindex`, alias switch | the index converges to the rows and is never ahead of them |
| **Fan-out** `services/feed`, `shared/feedplan`, `shared/socialgraph` | sorted set per reader, celebrity set, follows | `HandlePostCreated`, `FanOut`, `AddToFeeds` | every follower gets the post; feeds hold the newest |
| **Home feed** `services/post/service/feed.go` | the client's cursor | `GetHomeFeed` | paging repeats and skips nothing |
| **Lists** `comments.go`, `shared/socialgraph`, `follow.go`, `message.go`, `shared/pagecursor` | comments, follows, inbox positions; the client's cursor | `AddComment`, `ListComments`, `AddFollow`, `RemoveFollow`, `Followers`, `Following`, `ListConversations` | a keyset page repeats and skips nothing, replies do not come without their parent |
| **Notifications** `services/notification` | one row per post and liker, dead-letter topic | `HandlePostLiked` | every like is notified or parked, a read notification stays read |
| **Migrations** `shared/db/migrate.go`, `cmd/migrate` | advisory lock, `schema_migrations` | `Migrate` | every file once and in order, the schema is that of the code |
| **Backfill** `cmd/backfill` | the copied rows, the report | eight steps of `Run`, recount | the copy is complete, the report true, events carried over once, history in order |
| Not modelled | | auth, rate limits, routing, metrics | see section 8 |

Interactions: `SavePost`, `DeletePost` and `LikePost` write a row and an outbox
row in one transaction and publish right after it; the relay publishes what is
left. Feed worker, indexer and notification worker run the shared consumer on
the topics. `LikePost` also bumps the write-behind counter, the flush loops of
all post-service instances apply it, the reconciler repairs it. `GetHomeFeed`
reads what the feed worker pushed and merges what it did not push. The backfill
job migrates the schema like the migrate job, then copies the old store, and
hands unpublished events of old posts to the outbox.

What is hard here: every service runs in several instances; calls to Redis,
Kafka, GCS and COMMIT itself may fail after they took effect; processes stop
between two calls; leases and locks expire; events are delivered twice and out
of order; keyset pages are read while the table changes. `PROJECT.json` lists
these hazards line by line.

## 2. Modules

Each component is one module: state as `VARIABLES`, one action per call to a
store (an SQL statement, a Redis command, a publish), so that everything else
can happen between two calls. `MC*` modules only give values to constants.
Definitions marked "Mutant" are plausible bugs; `PROJECT.json` pairs each with
the definition it would replace and the property that then fails.

Failures are steps of the model with a bound on their number. Where a promise
of the code survives some failures and not others, the module remembers the
kinds that happened in a history variable (`failures.kinds`,
`mediaFailures.kinds`, `keyFailures.kinds`, `failures.gaveUp`, `parked`,
`stamped`, `crowded`, `losses`, `rebalances`), and the property names the kinds
it depends on. All failures are in one run, so the condition of a property is
exactly the list of what breaks it; section 4 says why each is there.

* **Outbox** (`EventDelivery` is its abstract specification). A row has a
  status, an attempt count that saturates at `AttemptCap`, and `wait`, the time
  until it is due. (The delay is computed in floating point and cut at
  `MaxBackoff`, `outbox.go:112-115`, so a larger count gives no other delay.) A
  request enqueues, commits or rolls back, and takes the fast path; a relay claims due rows (`Claim`: lease and
  `FOR UPDATE SKIP LOCKED` in one statement), publishes one by one, marks. A
  publish that reports an error may have reached the broker. `Tick` advances
  time; `PassBound` and `RequestBound` bound how long a pass and a request may
  take, so that both a lease that outlives a pass and one that does not can be
  asked about. `EventDelivery` has three steps: decide, deliver (again and
  again), settle.
* **Consumer**. One partition of N messages. `Fetch`/`Enqueue` with the bounded
  queue, `Take`, `HandleOk`/`HandleErr`, the dead-letter loop, `Done` with the
  loop that pops the finished prefix, the committer and the final commit,
  cancellation, crash and restart, and the consumer group taking the partition
  away and giving it back. A cancelled context shows as the `Interrupted`
  outcome of a worker.
* **Counter**. One post. `IncrBy`, `SAdd`, `Undo`, `Fallback` of a request;
  `SPop`, `GetDel`, `SinkAdd` and the way back of a flusher; `Snapshot`,
  `CheckPending`, `Rewrite` of a reconciler. `Failing` names the failures there
  may be: `incrLost` and `addLost` took effect and lost their answer, `crash`
  and `crashUnmarked` end the process with a change in hand.
* **Posts**. Upload, insert and event in one transaction, compensation, cache
  invalidation; delete; cleanup as claim, GCS delete, commit or abort; the
  cache as load, fill and expiry. `txLost` is a COMMIT whose answer is lost,
  `saveLost` an upload that is stored and reported as an error.
* **Idempotency**. Attempts of one client with one key around `SavePost`; the
  lock may expire (`Expire`), also while its holder is alive (`slow`), and so may
  a recorded result (`ExpireResult`), after which the key is free again. A body
  is what the handler takes for it, the fingerprint of message, file name and
  file size (`handler/post.go:133`).
* **Messages**. One conversation; a transaction is open, lock, look for the
  key, insert, commit, with the row lock held in between; a reader polls and
  scrolls. The unique index on `client_msg_id` (`0001_init.sql:169`) is left out:
  the model must do without the second line of defence that the code has.
* **Indexer**. `Sync` as load, embed, store, reload, versioned write, run by
  event workers, the repair loop and the reindex job with its two indices. A
  worker's `Sync` that fails is called again (`WorkerFails`) until the attempts of
  the delivery are spent and the consumer dead-letters the event (`DeadLetter`).
* **FanOut**. One author; count, pages of followers, batches in flight. The
  follower query is ordered by time and id, as its keyset is, since the backfill
  gives every follow without a time the same one (`backfill.go:147-149`). A post
  has a score in a feed, which is its `CreatedAt` or, when that is 0, a second of
  the worker's clock (`Scores`, `Nows`) that is chosen anew in every call of the
  handler. A handler that fails is called again, and the event is dead-lettered
  when its attempts are spent (`Fail`).
* **HomeFeed**. One reader; ZCOUNT, ZRANGE, celebrities, keyset query, respond.
  What is read are items of a time and a post: the score for a pushed post, the
  row's `created_at` for a pulled one. The two differ for a post that was pushed
  without `created_at` (`stamped`).
* **Lists**. One list (comments, follows or inbox) of numbered items with their
  time, and one reader. A write takes its time at the start and becomes visible
  at the commit, so items become visible out of time order; `late` remembers
  which. **Paging** lets the client read the home feed or one of these lists.
* **Notifications** composes **Consumer** with the handler of the notification
  worker: each `HandleOk`, `HandleErr` and `DlqOk` of the loop is joined with
  what it does to the table, all other steps leave the table alone.
* **Migrate**. Jobs take the advisory lock, read the applied versions, skip,
  refuse or apply file by file; an image is its list of checksums.
* **Backfill**. A legacy document is its index, its row, its references and the
  flags the code looks at. A run scans one index after the other and inserts,
  rejects or skips; a conversation is locked, then numbered in one transaction.
* **Cutover** composes **Migrate** and **Backfill** as `cmd/migrate` and
  `cmd/backfill` do, with failures, restarts and repeated runs.

Proofs are in modules of their own: `OutboxProofs`, `ConsumerProofs` (on
`Notifications`, so on both), `MessagesProofs`, `PostServiceProofs` (on
`Counter`, `Posts` and `Idempotency`, whose names are distinct for that reason:
`MediaSpec` is the specification of `Posts`, `KeySpec` that of `Idempotency`),
`FanOutProofs`, `IndexerProofs`, `PagingProofs` (on `Paging`, so on `HomeFeed` and
`Lists`) and `CutoverProofs` (on `Migrate` and `Backfill` as `Cutover` composes
them).

## 3. Runs

| Run | What it checks | Bounds |
|---|---|---|
| `outbox_safety` | `NoLoss`, `NoPhantom`, `DeadOnlyAfterMax`, `SettledIsFinal` with passes longer than their lease | 2 events, 2 relays, 2 attempts, 1 crash or stop |
| `outbox_delivery` | `Exclusive` when leases outlive passes; refinement of `EventDelivery`, liveness included | 2 events, 2 relays, no attempt limit, lease 2, pass 1 |
| `notifications` | `CommitSafe`, `PerKeyOrder`, `CommittedIsNotified`, `ReadStaysRead`; `EverythingCommitted` while the partition stays | 3 messages (a like, an unreadable one, an own like), 2 keys, 2 workers, queue 1, 2 stops or crashes, 1 rebalance |
| `counter` | `NoDrift` after one failed call; `NoOvercount`; `CountConverges` | 3 users, 3 likes and unlikes, 2 flushers, 1 reconciler, 2 failures |
| `indexer` | `DocsAreRows`; `IndexConverges` | 1 post, old or new, 1 worker, repair loop, reindex into a new index, 2 failures, 2 attempts, 1 duplicate |
| `messages` | `SeqIsTimeline`, `OncePerKey`, `AnswerIsStored`, `NothingMissed`, `ReadForward` | 3 clients of 2 users, 2 tries each, 2 of them with one key, page of 1 |
| `idempotency` | `AtMostOnce`, `RepliesAreTrue`, `EveryRetrySettles` | 3 attempts, one with another body, 3 failures or expired results |
| `posts` | `MediaPresent`, `NoOrphan`, `MediaRemoved`, `CacheConverges` | 2 posts, 2 cleaners, 1 reader, limit of 2 attempts, 1 failure |
| `fanout` | `FollowersReached`, `FeedIsNewest`, `FeedComplete` | 3 users, 2 of them followers since the same time, 2 follows or unfollows, a dated post between the two seconds of the clock and an undated one, threshold 2, pages of 1, batches of 2, feed of 1, 2 attempts, 2 faults |
| `paging` | `NeverRepeats`, `NothingSkipped`; `ListedOnce`, `RepliesFollow` | home feed: 5 posts, 2 of them without `created_at`, 2 in one second, which is also what the worker's clock says, 1 late, feed of 3, 1 failure; lists: 4 items, one a reply, writes at 5 (comments) or 3 times; page of 1 |
| `cutover` | `SchemaMatchesCode`, `CopyComplete`, `CarriedOnce`, `HistoryByTime`, `FinallyCopied` | 3 jobs, 2 of them backfills, 2 files, one edited, 15 legacy documents of all eight indices, 1 failure, 1 repeated run, 1 late message |

The `TypeOK` of `Outbox`, `Consumer`, `Messages`, `Indexer` and `FanOut` and the
`MediaTypeOK` of `Posts` are proved (section 6) and not repeated in the runs; the `TypeOK` of `Counter` and
`HomeFeed` can be added to a `.cfg` as an invariant.

Two actors of each kind are enough for every race the code guards against
(claim against claim, flush against undo, cleaner against cleaner); limits are
set to 1 or 2 so that queues fill, pages are cut, feeds are trimmed and attempt
limits are reached. `counter` has three users: one whose delta is undone after a
flusher took it, one whose like then brings the key back to zero, and one whose
like the next recount would miss (section 4). With two attempts and two faults
an event is retried after one failure and dead-lettered after two. The pages of
`fanout` are of one follower, so that follows and unfollows fall between them and
the two followers of one time are on different pages; its batch holds two, which
a failure can break in the middle. Several batches in flight are covered by the
theorems, which hold for every `BatchSize` and `Parallelism`. `indexer` has one worker because the repair loop and the
reindex job run the same `Sync` beside it. Every bound is a named constant and
appears only in guards of failures, repetitions and environment actions.
The models end when the environment has done all it may do, so no run checks
for deadlock; what must still happen is stated as liveness.

The legacy store of `cutover` has the anomalies of `legacyStore()` in
`cmd/backfill/backfill_test.go`: a user without a password, a self-follow, a
like stored twice, a like of a missing post, a reply that is scanned before its
parent, a pending and a deleted post, messages out of time order.

One run ends in a violation and stands for a finding:

| Run | What the trace shows |
|---|---|
| `homefeed_tie` | A post of the cursor's second is pushed between ZCOUNT and ZRANGE and takes a place in the window; the page looks like the last one, and paging stops early, which `redis.go:108-109` excludes |

`NothingSkipped` holds in `paging` because its late post has a second of its own,
other than the worker's clock says, and is not by the star (`LateApart` of section 6).

## 4. What the conditions of the properties stand for

| Property | Does not cover | Reason in the code |
|---|---|---|
| `EverythingCommitted` | a rebalance | an offset fetched twice by one `Run` is tracked twice, the second entry of the tracker is never popped (`tracker.go:60`) |
| `NoDrift` | two failures, a lost reply, a recount that overlooks an unlike or a stranded delta | a reply of INCRBY that is lost makes the fallback count the change again (`counter.go:82`); a flush may run between INCRBY and its undo (`counter.go:88`); the quiet time looks at new likes only, so a recount may meet an unlike in flight (`reconcile.go:53`), which a later pass repairs; an undo that comes after the flush leaves a delta of -1 without a marker, the next like brings it to 0, and `hasPendingDelta` takes that for "nothing pending" (`reconcile.go:86-93`) |
| `CountConverges` | a stranded or doubled delta | a process that dies between INCRBY and SADD, or between SPOP and GETDEL, leaves a delta without its marker: no flush looks at the post until it is liked again, and `hasPendingDelta` makes every reconcile pass skip it (`reconcile.go:86-93`), although `counter.go:13-15` counts on the reconciler after a crash |
| `IndexConverges` | an event that was dead-lettered, a failed repair or reindex job | the consumer gives up on an event after `MaxAttempts` (`consumer.go:242-263`), and nothing but a later event of the post or a reindex makes up for it; the repair loop stores the embedding first; if its document write fails, no later pass selects the row (`indexer.go:149`). Reindex is run by hand and fails as a whole |
| `AtMostOnce` | Redis that takes no claim or result, a stored post reported as an error, a handler slower than `LockTTL`, a crash before `Complete`, a retry later than `ResultTTL` | the handler runs unprotected when Redis fails, and work and record are two stores (`handler/post.go:92`); the result is kept for 24 hours (`idempotency.go:60-61,128`), and a later retry is a new request that stores a second post |
| `RepliesAreTrue` | two uploads of one message, file name and size with different bytes | they have one fingerprint (`handler/post.go:133`): to the key they are the same body |
| `MediaPresent` | a COMMIT that is applied and reported as an error | the compensation then deletes the media of a stored post (`post.go:218`) |
| `NoOrphan` | a crash, an upload that is stored and reported as an error, a failing GCS during the compensation | `SavePost` returns before it has anything to compensate (`gcs.go:66-68`, `post.go:181-184`); nothing looks for objects without a row |
| `MediaRemoved` | (allows `failed`) | the last attempt leaves the row to an operator; a cleanup whose COMMIT fails after the object is gone ends there as well, with nothing left to clean (`post.go:332`) |
| `FollowersReached` | an author who passes the threshold between count and read | the list is cut at the threshold, newest followers first (`feed_worker.go:68`) |
| `FollowersReached`, `FeedComplete` | an event that was dead-lettered and not handled | its last call may have reached some batches only, and nothing tries again (`consumer.go:242-263`) |
| `FeedIsNewest`, `FeedComplete` | the place of a post without `created_at` | the worker scores it with its clock, anew at every delivery (`feed_worker.go:73-76`, `backfill.go:220-223`), although `redis.go:141` says "same member, same score"; such posts are in the run and may push others out |
| `NeverRepeats`, `NothingSkipped` | a post that was pushed without `created_at` | its score is the worker's clock and its row's time is 0: once its author is a celebrity both are returned, and a delivery that comes again moves it above the cursor. A post without `created_at` that is only pulled is covered |
| `FeedIsNewest`, `FeedComplete` | a feed that Redis lost or expired | nothing rebuilds it (`redis.go:144`) |
| `ListedOnce`, `RepliesFollow` | a comment that became visible after a later one | `created_at` is the time of the insert, not of its commit (`comments.go:93`): a reader that is past it skips it, and may read a reply without it. Comments that the backfill wrote carry whole seconds or the epoch (`backfill.go:297`), so a reply may tie with its parent there and is then ordered by id; `Lists` models the writes of `AddComment`, whose times are of the database's clock |
| `ListedOnce` | a conversation that moves, a user followed again | it is at another place of the list; it is still not returned twice |
| `HistoryByTime` | a message that reaches the old store after a run | it is appended after what is already numbered |
| `HistoryByTime` | a conversation of messages without `created_at` only | `lastAt.IsZero()` (`backfill.go:394`) takes them for nothing new: they are stored and `last_seq` stays 0, so the next message gets a number that is taken |
| `CopyComplete` | (allows the rejection of a reply with a wrong legacy depth that a second run would insert) | comments are sorted by the depth in the document (`backfill.go:280`); the constants of the run have true depths |
| `FinallyCopied` | a job with an edited file | it is refused for good, as `migrate.go:51-53` says |

`CarriedOnce` states the exact rule for the events of the old outbox. Step 5 of
docs/MIGRATION.md compares the pending rows of the outbox with all posts whose
`outbox_status` was `pending`; posts that were also deleted carry no event
(`backfill.go:219`), so the two numbers differ by those.

Two more limits are visible in the models and not promised by any property: an
event may overtake an earlier one of the same key whose publish failed
(`outbox.go:182`), and `Run` returns after a final commit that failed, so
finished messages are handled again (`consumer.go:205`).
The consumers are modelled with what the first one makes of the topics.

## 5. Fairness

Steps that the code takes on its own get weak fairness: relay loops
(`Relay.Run`), consumer loops and committer, flush, reconcile and cleanup loops
of `main.go`, requests that end, clients of `Idempotency` that retry, locks and
cache entries that expire, time that passes. The environment (likes, posts,
follows, crashes, failures) gets none. Most failures are bounded in number, so
"eventually" means "after the failures stop". Where they are not bounded,
strong fairness says that the call succeeds in the end if it is tried again and
again: the relay's acknowledged publish and its mark in `Outbox`, the handler or
dead-letter publish and the commit in `Consumer`. A broker that stays away for
ever delays everything for ever. `Claim` has strong fairness in `Outbox`
because a row may be in another relay's hands when a pass looks for it.
`QuietPasses` of `Counter` is the passing of the reconciler's quiet time. In
`Cutover` the job controller retries a failed job; in `Notifications` a message
that is tried again and again is in the end handled or parked.

## 6. Proofs

Proved with TLAPS for every value of the constants allowed by the modules'
assumptions. Each safety theorem has the same frame: an inductive invariant,
`Init` establishes it, every action keeps it, it implies the property. TLC
checked the invariants on the instances of the runs before they were proved.
What the invariants add to the properties:

* `OutboxProofs`. `NoLossHolds` and `NoPhantomHolds` need `DeliveryInv`: whoever
  is about to mark an event published has published it, and what anyone holds is
  committed. `ExclusiveHolds` needs `HoldInv`, which ties the remaining wait of a
  row to the time its holder has left, from the hypothesis `Timely` (pass shorter
  than lease, request shorter than grace, what `main.go:66-68` arranges with
  `BatchSize = 20`). `DeadOnlyAfterMaxHolds` needs `ChargeInv`: the attempts in a
  row, and in the stale copy of a relay that lost its lease, never exceed the
  publishes that really failed. `SettledIsFinalHolds` is an action property.
  `ImplementsSafeDelivery` is the refinement of `EventDelivery` without its
  liveness: initial states map to initial states, every step to one abstract
  step or to a stutter.
* `ConsumerProofs`. `CommitSafeHolds` needs `CommitInv`: below `ready` everything
  is finished, the tracked list continues it without a gap, and what is marked
  done is finished; this survives crashes and rebalances. `PerKeyOrderHolds`
  needs `OrderInv`: every fetched message that is not finished is in the hands
  of the loop, a worker or the queue of its worker, in offset order, until the
  context is cancelled; from then on only what a worker already holds matters.
  `NotifyImplementsConsumer` shows that the notification worker takes only steps
  of the consumer, so both theorems hold for it; `CommittedIsNotifiedHolds` adds
  that what is finished has its row or is parked, and `ReadStaysReadHolds` that
  no insert touches an existing row.
* `MessagesProofs`. `SeqIsTimelineHolds`, `OncePerKeyHolds` and
  `AnswerIsStoredHolds` share `SendInv`: the row lock is held exactly by the
  transaction between lock and end, its draft carries the next number and a time
  that is not before the last, and its key is still free. `NothingMissedHolds`
  needs `ReaderInv` on top (what becomes visible is above the reader's cursor);
  `ReadForwardHolds` needs that the snapshot of `MarkRead` is not ahead.
* `PostServiceProofs`, the counter. `NoDriftHolds` and `NoOvercountHolds` share
  `CountInv`. The drift is the count, the delta in Redis and a sum over everything
  that requests and flushers have in hand, less the rows. The sum is defined by
  counting units, so that no induction over its terms is needed: when one process
  changes what it holds, the total follows (`TotalChange`). Each step of a request
  or a flusher then moves a change from one place to the next or loses it
  (`Lands`), and what it may lose or strand is tied to the failures that happened
  (`Failed`, `Positive`). The reconciler overwrites the count, so `Snapshots`
  follows the row it has read: while the count is still the one it read, the rows
  it counted and all that is on its way are not more than the rows there are.
  That is true when it reads because a post without recent rows has nothing on
  its way (`Calm`) and no delta without a marker or a process that will set it
  (`Scheduled`); and where `NoDrift` claims anything no wrong recount has
  happened (`NoRecount`). Two users show no drift without the second part of
  `Misread`; the proof does not go through without it, and a run with three users
  shows why (section 4).
* `PostServiceProofs`, the posts (`MediaSpec`). `MediaPresentHolds` and
  `NoOrphanHolds` need `LifeInv`, which says for each stage of a save and each
  state of a row which of row, object and claim there are, and that a cleaner
  holds one row at a time. `TypeCorrect` includes that no post gets more than
  `MaxAttempts` attempts.
* `PostServiceProofs`, the idempotency keys (`KeySpec`). `RepliesAreTrueHolds`: a
  recorded or returned result names a post stored with that fingerprint.
  `AtMostOnceHolds`: while none of the failures that remove the protection has
  happened, whoever works holds the claim and is alone, and a stored post is
  recorded under the key or about to be.
* `FanOutProofs`. `FollowersReachedHolds` needs `Reading` and `Pushing`. Between two
  pages nobody is both read and still to come, those two groups together hold
  everyone who followed since before the post, and they are no more than the
  threshold: a follow made meanwhile gets a time after the keyset position, so it
  joins neither, and the group can only shrink. Hence a list that ends because it
  is full is complete, like one that ends with a page without a successor
  (`KeysetMoves`: the rest below the last row is the rest without the page). While
  the batches are written everyone in the list has the post, or waits in a batch
  (`InSomeBatch`), or a batch failed and the handler starts over.
  `FeedIsNewestHolds` needs that a feed holds only what was pushed, with no score
  above the greatest it was ever pushed with, and a dated post with its own time
  (`FeedTypes`): what a trim drops has `MaxFeedLen` newer posts in the feed it is
  dropped from, and the history of an undated post only ever moves up, so those
  that were newer stay newer.
  `TypeCorrect` includes the bound of a fan-out: the list never exceeds the
  threshold, because time and id order the rows strictly, whatever times they
  share, and so a page is no longer than its `LIMIT` (`LimitHolds`).
* `IndexerProofs`. `DocsAreRowsHolds` needs `IndexInv`: versions are unique in
  the history of a row, and the copy a syncer carries through its calls is a row
  of that history. `UpToDateHolds` then says what the external version buys: no
  document is newer than its row, and one of the row's version is the row.
* `PagingProofs`. `NeverRepeatsHolds` needs that what was shown is not older than
  the cursor (`Passed`). `NothingSkippedHolds` has the hypothesis `LateApart`: a
  post that becomes visible while the reader pages has a `created_at`, a second
  of its own, which the worker's clock gave to no other post, and
  is not by an author whose posts are also pulled. Without the first part it is
  false as `homefeed_tie` shows; without the second a late post that was pulled,
  and is the cursor, can be pushed between ZCOUNT and ZRANGE with the same
  effect. `SkipInv` follows an owed post through the calls of a request: it is
  read, or a page of newer posts is, or its author will be asked later
  (`ReadSoFar`); the window has room for the cursor's second (`TiesCounted`);
  what left the feed was trimmed and stays out. `ListedOnceHolds` and `RepliesFollowHolds` need
  `ListInv`: the cursor is the last item returned, what was returned is not
  behind it, what is expected and not yet returned is. The lemmas on the lowest
  items of a finite ordered set (`UnderFacts`, `RanksHaveNoGap`, `LowestFacts`,
  `SegmentHasLowest`, `Exhausted`) say what a `LIMIT` query returns, and that a short page is the
  last one.
* `CutoverProofs`. `SchemaMatchesCodeHolds` needs `SchemaInv`: whoever is past the
  lock is alone, has the true table, and the table is a prefix of the files.
  `CopyCompleteHolds` needs `CopyInv`: for each run, what it has scanned is stored
  or was rejected for a reason that stays. `CarriedOnceHolds` ties each event to
  the row it came with. `HistoryByTimeHolds` needs `HistoryInv` about numbers,
  lock and the messages in memory, and has the hypothesis `LateTimed`: a message
  that reaches the old store between two runs carries its time. Without it the
  statement is false for the reason given in section 4 (`backfill.go:394`).

Assumptions on constants are named in the modules and evaluated by TLC in every
run. Most are types and bounds. Those that say something about the system:
`RouteByKey` (a message is routed by its key), `RowAssumption` (the old store
kept a post under its post_id, so no two documents of the post index are one
row), `RefsAssumption` (a foreign key points to a row of an earlier step of the
backfill or from a reply to a less deep parent, so the depths of the legacy
documents are true, as section 4 says of the run), `EarlyAssumption` (finitely
many accounts, whose first follows were made, at any times, before the first post), `JobsAssumption`,
`FreeAssumption`, `CleanersAssumption` (a process is not one of the model's marks for "nobody").

Left to TLC:

* liveness and `ENABLED` (`EverythingCommitted`, `CountConverges`,
  `IndexConverges`, `EveryRetrySettles`, `MediaRemoved`, `CacheConverges`,
  `FeedComplete`, `FinallyCopied`, the liveness part of `ImplementsDelivery`),
  which the prover does not treat.

Every invariant and every action property that a passing run checks is also the
statement of a theorem.

## 7. Plan

1. Done: all components that keep state or order steps, their runs; proofs of
   the safety properties of all of them.
2. Later: Outbox and Consumer end to end, FanOut and HomeFeed in one module.

## 8. Not modelled

Auth (sign-up and login) is one INSERT with a unique key, hashing and token
signing. Rate limiting is an in-memory map of token buckets of an external
library (`golang.org/x/time/rate`) behind one mutex; the data paths do not see it.
Routing, JSON, metrics and logging neither change the data nor order anything;
of the handlers only `withIdempotency` keeps state. Search ranking, embeddings
and image generation are external; only their failures matter here. The test
doubles of `shared/testutil` are not part of the program.

In `Backfill` two legacy messages with one id in one conversation, which abort
the run, are not modelled, and neither is traffic of the new services: the
procedure runs the copy while writes are frozen (docs/MIGRATION.md, step 3).
Elasticsearch, Redis, Kafka and GCS are modelled by what the code relies on:
external versions, atomic single commands, acknowledged or unacknowledged
publishes, deletion that fails for a missing object.
