------------------------------- MODULE Counter -------------------------------
(***************************************************************************)
(* The like counter of one post: LikePost, UnlikePost and bumpCounter of   *)
(* services/post/service/post.go, the write-behind counter of              *)
(* shared/counter/counter.go, its sink (store.go) and the reconciler       *)
(* (reconcile.go).  One step per call to PostgreSQL or Redis.              *)
(*                                                                         *)
(* The rows of post_likes are the truth; posts.like_count follows them     *)
(* through a delta in Redis that every post-service instance may flush.    *)
(* shared_count takes the same path.                                       *)
(***************************************************************************)
EXTENDS Integers, FiniteSets

CONSTANTS
  Users, Flushers, Reconcilers,
  Failing,      \* the failures there may be: Plain and Stranding below
  MaxFailures,  \* bound: failures
  MaxOps        \* bound: likes and unlikes

\* Failed calls, and "crash": the process of a request or a flush dies with a
\* change in hand.
Plain == {"incr", "getdel", "add", "fallback", "get", "crash"}

\* The failures that may leave a delta in Redis without a marker or count a
\* change twice: the marker or the undo fails, a call is applied and its answer
\* lost, the process dies between a marker and its delta.
Stranding == {"sadd", "undo", "incrLost", "addLost", "crashUnmarked"}

\* The kinds that are remembered.
Recorded == Stranding \cup {"crash"}

ASSUME BoundsAssumption ==
  Failing \subseteq Plain \cup Stranding /\ MaxFailures \in Nat /\ MaxOps \in Nat

VARIABLES
  likes,     \* post_likes: the users with a row
  recent,    \* those whose row is younger than Quiet
  count,     \* posts.like_count
  delta,     \* Redis cnt:like_count:{post}, 0 when the key is absent
  dirty,     \* the post is in the Redis set cnt:dirty
  pc, sign,  \* request of user u: its step in bumpCounter and its n
  fpc, took, \* flusher f: its step in Flush and the delta it took
  rpc, seen, \* reconciler r: its step in RunOnce and the row it read
  failures,  \* history: how many failures, and the recorded kinds
  past,      \* history: a like was taken back, a recount replaced the count
  ops

requestVars == <<pc, sign>>
flushVars == <<fpc, took>>
reconVars == <<rpc, seen>>
bounds == <<failures, past, ops>>
vars == <<likes, recent, count, delta, dirty, requestVars, flushVars, reconVars, bounds>>

Init ==
  /\ likes = {} /\ recent = {} /\ count = 0
  /\ delta = 0 /\ dirty = FALSE
  /\ pc = [u \in Users |-> "idle"] /\ sign = [u \in Users |-> 0]
  /\ fpc = [f \in Flushers |-> "idle"] /\ took = [f \in Flushers |-> 0]
  /\ rpc = [r \in Reconcilers |-> "idle"]
  /\ seen = [r \in Reconcilers |-> [count |-> 0, rows |-> 0, busy |-> FALSE]]
  /\ failures = [n |-> 0, kinds |-> {}]
  /\ past = [unliked |-> FALSE, recounted |-> FALSE] /\ ops = 0

\* The failures happen, within the bound.
Fail(ks) ==
  /\ ks \subseteq Failing /\ failures.n + Cardinality(ks) <= MaxFailures
  /\ failures' = [n |-> failures.n + Cardinality(ks),
                  kinds |-> failures.kinds \cup (ks \cap Recorded)]

Fails(kind) == Fail({kind})

-----------------------------------------------------------------------------
(* A request: the row is committed, then bumpCounter.                      *)

Goto(u, s) == pc' = [pc EXCEPT ![u] = s]

\* INSERT ... ON CONFLICT DO NOTHING made a row.
LikePost(u) ==
  /\ pc[u] = "idle" /\ u \notin likes /\ ops < MaxOps
  /\ ops' = ops + 1
  /\ likes' = likes \cup {u} /\ recent' = recent \cup {u}
  /\ sign' = [sign EXCEPT ![u] = 1]
  /\ Goto(u, "incr")
  /\ UNCHANGED <<count, delta, dirty, flushVars, reconVars, failures, past>>

\* The DELETE removed a row; nothing marks the post as recently changed.
UnlikePost(u) ==
  /\ pc[u] = "idle" /\ u \in likes /\ ops < MaxOps
  /\ ops' = ops + 1 /\ past' = [past EXCEPT !.unliked = TRUE]
  /\ likes' = likes \ {u} /\ recent' = recent \ {u}
  /\ sign' = [sign EXCEPT ![u] = -1]
  /\ Goto(u, "incr")
  /\ UNCHANGED <<count, delta, dirty, flushVars, reconVars, failures>>

\* Counter.Incr: INCRBY.  An error sends the caller to the fallback.
IncrBy(u) ==
  /\ pc[u] = "incr"
  /\ \/ delta' = delta + sign[u] /\ Goto(u, "sadd") /\ UNCHANGED failures
     \/ Fails("incr") /\ Goto(u, "fallback") /\ UNCHANGED delta
     \/ Fails("incrLost") /\ Goto(u, "fallback") /\ delta' = delta + sign[u]
  /\ UNCHANGED <<likes, recent, count, dirty, sign, flushVars, reconVars, past, ops>>

SAdd(u) ==
  /\ pc[u] = "sadd"
  /\ \/ dirty' = TRUE /\ Goto(u, "idle") /\ UNCHANGED failures
     \/ Fails("sadd") /\ Goto(u, "undo") /\ UNCHANGED dirty
  /\ UNCHANGED <<likes, recent, count, delta, sign, flushVars, reconVars, past, ops>>

\* Mutant: the caller falls back although the delta is still in Redis.
UndoNothing(u) ==
  /\ pc[u] = "undo"
  /\ Goto(u, "fallback")
  /\ UNCHANGED <<likes, recent, count, delta, dirty, sign, flushVars, reconVars, bounds>>

\* The marker could not be set: take the delta back and fall back, or leave it.
Undo(u) ==
  /\ pc[u] = "undo"
  /\ \/ delta' = delta - sign[u] /\ Goto(u, "fallback") /\ UNCHANGED failures
     \/ Fails("undo") /\ Goto(u, "idle") /\ UNCHANGED delta
  /\ UNCHANGED <<likes, recent, count, dirty, sign, flushVars, reconVars, past, ops>>

\* ErrNotRecorded: pgCounterSink.Add on the row itself.
Fallback(u) ==
  /\ pc[u] = "fallback"
  /\ \/ count' = count + sign[u] /\ UNCHANGED failures
     \/ Fails("fallback") /\ UNCHANGED count
  /\ Goto(u, "idle")
  /\ UNCHANGED <<likes, recent, delta, dirty, sign, flushVars, reconVars, past, ops>>

RequestCrash(u) ==
  /\ pc[u] # "idle"
  /\ Fails(IF pc[u] \in {"sadd", "undo"} THEN "crashUnmarked" ELSE "crash")
  /\ Goto(u, "idle")
  /\ UNCHANGED <<likes, recent, count, delta, dirty, sign, flushVars, reconVars, past, ops>>

-----------------------------------------------------------------------------
(* A flusher: Counter.Flush.                                               *)

FGoto(f, s) == fpc' = [fpc EXCEPT ![f] = s]

SPop(f) ==
  /\ fpc[f] = "idle" /\ dirty
  /\ dirty' = FALSE
  /\ FGoto(f, "popped")
  /\ UNCHANGED <<likes, recent, count, delta, took, requestVars, reconVars, bounds>>

\* GETDEL, or on an error SADD of the marker, whose own error is ignored.
GetDel(f) ==
  /\ fpc[f] = "popped"
  /\ \/ /\ took' = [took EXCEPT ![f] = delta] /\ delta' = 0
        /\ FGoto(f, IF delta = 0 THEN "idle" ELSE "took")
        /\ UNCHANGED <<dirty, failures>>
     \/ /\ Fails("getdel") /\ dirty' = TRUE
        /\ FGoto(f, "idle") /\ UNCHANGED <<delta, took>>
     \/ /\ Fail({"getdel", "sadd"})
        /\ FGoto(f, "idle") /\ UNCHANGED <<delta, dirty, took>>
  /\ UNCHANGED <<likes, recent, count, requestVars, reconVars, past, ops>>

SinkAdd(f) ==
  /\ fpc[f] = "took"
  /\ \/ /\ count' = count + took[f]
        /\ took' = [took EXCEPT ![f] = 0] /\ FGoto(f, "idle") /\ UNCHANGED failures
     \/ Fails("add") /\ FGoto(f, "back") /\ UNCHANGED <<count, took>>
     \/ Fails("addLost") /\ FGoto(f, "back") /\ count' = count + took[f] /\ UNCHANGED took
  /\ UNCHANGED <<likes, recent, delta, dirty, requestVars, reconVars, past, ops>>

\* The delta goes back with Counter.Incr: INCRBY, SADD and the undo of the
\* INCRBY if the SADD failed, in which case the delta is lost ("lost %d").
BackIncrBy(f) ==
  /\ fpc[f] = "back"
  /\ \/ delta' = delta + took[f] /\ FGoto(f, "backMark") /\ UNCHANGED <<took, failures>>
     \/ /\ Fails("incr") /\ FGoto(f, "idle")
        /\ took' = [took EXCEPT ![f] = 0] /\ UNCHANGED delta
     \/ /\ Fails("incrLost") /\ FGoto(f, "idle")
        /\ took' = [took EXCEPT ![f] = 0] /\ delta' = delta + took[f]
  /\ UNCHANGED <<likes, recent, count, dirty, requestVars, reconVars, past, ops>>

BackSAdd(f) ==
  /\ fpc[f] = "backMark"
  /\ \/ /\ dirty' = TRUE /\ FGoto(f, "idle")
        /\ took' = [took EXCEPT ![f] = 0] /\ UNCHANGED failures
     \/ Fails("sadd") /\ FGoto(f, "backUndo") /\ UNCHANGED <<dirty, took>>
  /\ UNCHANGED <<likes, recent, count, delta, requestVars, reconVars, past, ops>>

BackUndo(f) ==
  /\ fpc[f] = "backUndo"
  /\ \/ delta' = delta - took[f] /\ UNCHANGED failures
     \/ Fails("undo") /\ UNCHANGED delta
  /\ took' = [took EXCEPT ![f] = 0] /\ FGoto(f, "idle")
  /\ UNCHANGED <<likes, recent, count, dirty, requestVars, reconVars, past, ops>>

FlushCrash(f) ==
  /\ fpc[f] # "idle"
  /\ Fails(IF fpc[f] \in {"took", "back"} THEN "crash" ELSE "crashUnmarked")
  /\ took' = [took EXCEPT ![f] = 0] /\ FGoto(f, "idle")
  /\ UNCHANGED <<likes, recent, count, delta, dirty, requestVars, reconVars, past, ops>>

-----------------------------------------------------------------------------
(* The reconciler: Reconciler.RunOnce for this post.                       *)

Nothing == [count |-> 0, rows |-> 0, busy |-> FALSE]

RGoto(r, s) == rpc' = [rpc EXCEPT ![r] = s]

\* Mutant: the recent rows are not looked at.
SnapshotNotBusy(r) ==
  /\ rpc[r] = "idle" /\ count # Cardinality(likes)
  /\ seen' = [seen EXCEPT ![r] =
       [count |-> count, rows |-> Cardinality(likes), busy |-> FALSE]]
  /\ RGoto(r, "read")
  /\ UNCHANGED <<likes, recent, count, delta, dirty, requestVars, flushVars, bounds>>

\* One statement reads the count, the rows and whether one is recent.
Snapshot(r) ==
  /\ rpc[r] = "idle" /\ count # Cardinality(likes)
  /\ seen' = [seen EXCEPT ![r] =
       [count |-> count, rows |-> Cardinality(likes), busy |-> recent # {}]]
  /\ RGoto(r, "read")
  /\ UNCHANGED <<likes, recent, count, delta, dirty, requestVars, flushVars, bounds>>

\* hasPendingDelta, later: the post is left alone if it is busy, a delta is
\* pending or Redis does not answer.
CheckPending(r) ==
  /\ rpc[r] = "read"
  /\ \/ /\ ~seen[r].busy /\ delta = 0
        /\ RGoto(r, "update") /\ UNCHANGED <<seen, failures>>
     \/ /\ \/ (seen[r].busy \/ delta # 0) /\ UNCHANGED failures
           \/ Fails("get")
        /\ RGoto(r, "idle") /\ seen' = [seen EXCEPT ![r] = Nothing]
  /\ UNCHANGED <<likes, recent, count, delta, dirty, requestVars, flushVars, past, ops>>

\* Mutant: the UPDATE compares with the number of rows, so it never matches.
RewriteNever(r) ==
  /\ rpc[r] = "update"
  /\ seen' = [seen EXCEPT ![r] = Nothing] /\ RGoto(r, "idle")
  /\ UNCHANGED <<likes, recent, count, delta, dirty, requestVars, flushVars, bounds>>

\* UPDATE ... WHERE like_count = the count that was read.
Rewrite(r) ==
  /\ rpc[r] = "update"
  /\ IF count = seen[r].count
       THEN count' = seen[r].rows /\ past' = [past EXCEPT !.recounted = TRUE]
       ELSE UNCHANGED <<count, past>>
  /\ seen' = [seen EXCEPT ![r] = Nothing] /\ RGoto(r, "idle")
  /\ UNCHANGED <<likes, recent, delta, dirty, requestVars, flushVars, failures, ops>>

\* Quiet passes without a like.  It is longer than a request, a flush and the
\* wait for the next flush of a post in the dirty set.
QuietPasses ==
  /\ recent # {} /\ ~dirty
  /\ \A u \in Users : pc[u] = "idle"
  /\ \A f \in Flushers : fpc[f] = "idle"
  /\ recent' = {}
  /\ UNCHANGED <<likes, count, delta, dirty, requestVars, flushVars, reconVars, bounds>>

-----------------------------------------------------------------------------
RequestStep(u) == IncrBy(u) \/ SAdd(u) \/ Undo(u) \/ Fallback(u)
FlushStep(f) ==
  SPop(f) \/ GetDel(f) \/ SinkAdd(f) \/ BackIncrBy(f) \/ BackSAdd(f) \/ BackUndo(f)
ReconStep(r) == Snapshot(r) \/ CheckPending(r) \/ Rewrite(r)

Next ==
  \/ \E u \in Users : LikePost(u) \/ UnlikePost(u) \/ RequestStep(u) \/ RequestCrash(u)
  \/ \E f \in Flushers : FlushStep(f) \/ FlushCrash(f)
  \/ \E r \in Reconcilers : ReconStep(r)
  \/ QuietPasses

Spec == Init /\ [][Next]_vars

\* Requests end, every instance runs its flush and reconcile loops, time passes.
Fairness ==
  /\ \A u \in Users : WF_vars(RequestStep(u))
  /\ \A f \in Flushers : WF_vars(FlushStep(f))
  /\ \A r \in Reconcilers : WF_vars(ReconStep(r))
  /\ WF_vars(QuietPasses)

FairSpec == Spec /\ Fairness

-----------------------------------------------------------------------------
(* What makes the count right.                                             *)

TypeOK ==
  /\ likes \subseteq Users /\ recent \subseteq likes
  /\ count \in Int /\ delta \in Int /\ dirty \in BOOLEAN
  /\ pc \in [Users -> {"idle", "incr", "sadd", "undo", "fallback"}]
  /\ sign \in [Users -> {-1, 0, 1}]
  /\ fpc \in [Flushers -> {"idle", "popped", "took", "back", "backMark", "backUndo"}]
  /\ took \in [Flushers -> Int]
  /\ \A f \in Flushers : fpc[f] \notin {"idle", "popped"} => took[f] # 0
  /\ rpc \in [Reconcilers -> {"idle", "read", "update"}]
  /\ failures.n \in 0..MaxFailures /\ failures.kinds \subseteq Recorded

\* The sum of the values of c, by counting: Units(c) holds n elements for a
\* value n > 0, and none for another.
Units(c) == UNION {{x} \X (1..c[x]) : x \in DOMAIN c}
Total(c) == Cardinality(Units(c)) - Cardinality(Units([x \in DOMAIN c |-> -c[x]]))

\* The changes that requests and flushers still have in hand.
Requests == [u \in Users |-> IF pc[u] \in {"incr", "fallback"} THEN sign[u] ELSE 0]
Flushes == [f \in Flushers |-> IF fpc[f] \in {"took", "back"} THEN took[f] ELSE 0]
InHand == Total(Requests) + Total(Flushes)

\* How far the count, once everything on its way has landed, is off the rows.
Drift == count + delta + InHand - Cardinality(likes)

Unstranded == failures.kinds \cap Stranding = {}

\* A recount may be wrong after an unlike, which leaves no row, so that nothing
\* tells the reconciler that its delta is on the way; and after the undo of a
\* delta that a flusher had taken by then: it leaves a negative delta, and the
\* next like brings the key back to zero, which hasPendingDelta takes for "none".
Misread == past.recounted /\ (past.unliked \/ ~Unstranded)

\* Every like and unlike is counted exactly once, in the row, in Redis or in the
\* hands of one request or flusher, although any one call fails ("A failed
\* database or Redis call, the common case, loses nothing", counter.go:15).
\* Broken by a change that is dropped, or applied by the flush and by the
\* fallback as well ("Never both", post.go:440).
NoDrift ==
  ( /\ failures.n <= 1 /\ failures.kinds \subseteq {"sadd"}
    /\ ~Misread ) => Drift = 0

\* Likes are lost by crashes and double failures, never counted twice: a
\* recount by the reconciler does not include a like whose delta is still on
\* its way (reconcile.go:17-20).  A lost unlike leaves the count too high.
NoOvercount == Unstranded /\ ~past.unliked => Drift <= 0

\* When likes stop, the count becomes the number of rows and stays there: each
\* delta in Redis is flushed, each lost one repaired by the reconciler
\* (counter.go:13-17, reconcile.go:13-21), a misread one too.  No delta may be
\* stranded without its marker: the reconciler leaves such a post alone.
CountConverges == []Unstranded => <>[](count = Cardinality(likes))
=============================================================================
