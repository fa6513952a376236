-------------------------------- MODULE Posts --------------------------------
(***************************************************************************)
(* The life of one author's posts: SavePost, persistNewPost, DeletePost,   *)
(* CleanupDeletedPosts and the cached list of SearchPostByUserId, all of   *)
(* services/post/service/post.go, with the single-flight Group of          *)
(* shared/cache/cache.go.  One step per transaction or call to Cloud       *)
(* Storage or Redis.  The events of a post are the subject of Outbox.      *)
(***************************************************************************)
EXTENDS Integers, FiniteSets

CONSTANTS
  Posts, Cleaners,  \* Cleaners: the instances that run CleanupDeletedPosts
  Instances,        \* the instances that serve SearchPostByUserId
  MaxAttempts,      \* cleanup attempts before a post is "failed" (5 in the code)
  MediaFailing,     \* what may fail: "save", "saveLost" (stored, but an error is reported),
                    \* "tx", "txLost" (committed, but an error is reported), "gcs",
                    \* "redis", "cleanupTx", and "crash": the process of a request dies
                    \* between two calls
  MaxMediaFailures  \* bound: failures

ASSUME MediaBoundsAssumption == MaxAttempts \in Nat \ {0} /\ MaxMediaFailures \in Nat

\* A Redis value or a load in progress: {} or a singleton that holds the list.
NotCached == {}
Nobody == "nobody"

ASSUME CleanersAssumption == Nobody \notin Cleaners

VARIABLES
  object,    \* the posts whose media object is in Cloud Storage
  row,       \* posts row: "none", "live" or "deleted"
  deletedAt, \* its deleted_at, as a rank
  cleanup, attempts,  \* cleanup_status, cleanup_attempts
  saving,    \* step of the request that creates the post
  deleting,  \* step of the request that deletes it
  holder,    \* the cleaner whose transaction holds the row
  cpc,       \* step of a cleaner
  cache,     \* the cached list, a set of posts, or NotCached
  load,      \* an instance's single-flight load: the list it read, or NotCached
  mediaFailures   \* history: how many failures, and the unmasked kinds

cleanVars == <<cleanup, attempts, holder, cpc>>
readVars == <<cache, load>>
mediaVars == <<object, row, deletedAt, saving, deleting, cleanVars, readVars, mediaFailures>>

MediaInit ==
  /\ object = {} /\ row = [p \in Posts |-> "none"] /\ deletedAt = [p \in Posts |-> 0]
  /\ cleanup = [p \in Posts |-> ""] /\ attempts = [p \in Posts |-> 0]
  /\ saving = [p \in Posts |-> "new"] /\ deleting = [p \in Posts |-> "idle"]
  /\ holder = [p \in Posts |-> Nobody] /\ cpc = [k \in Cleaners |-> "idle"]
  /\ cache = NotCached /\ load = [i \in Instances |-> NotCached]
  /\ mediaFailures = [n |-> 0, kinds |-> {}]

\* The failures after which a request is not made good; they are remembered.
Unmasked == {"saveLost", "txLost", "gcs", "crash"}

MediaFails(call) ==
  /\ call \in MediaFailing /\ mediaFailures.n < MaxMediaFailures
  /\ mediaFailures' = [n |-> mediaFailures.n + 1,
                       kinds |-> mediaFailures.kinds \cup ({call} \cap Unmasked)]

Live == {p \in Posts : row[p] = "live"}

-----------------------------------------------------------------------------
(* SavePost and GenerateImageFromOpenAIAndSavePost.                        *)

SGoto(p, s) == saving' = [saving EXCEPT ![p] = s]

SaveToGCS(p) ==
  /\ saving[p] = "new"
  /\ \/ object' = object \cup {p} /\ SGoto(p, "tx") /\ UNCHANGED mediaFailures
     \/ MediaFails("save") /\ SGoto(p, "end") /\ UNCHANGED object
     \/ MediaFails("saveLost") /\ SGoto(p, "end") /\ object' = object \cup {p}
  /\ UNCHANGED <<row, deletedAt, deleting, cleanVars, readVars>>

\* The transaction of persistNewPost.
InsertPost(p) ==
  /\ saving[p] = "tx"
  /\ \/ row' = [row EXCEPT ![p] = "live"] /\ SGoto(p, "forget") /\ UNCHANGED mediaFailures
     \/ MediaFails("tx") /\ SGoto(p, "compensate") /\ UNCHANGED row
     \/ MediaFails("txLost") /\ SGoto(p, "compensate") /\ row' = [row EXCEPT ![p] = "live"]
  /\ UNCHANGED <<object, deletedAt, deleting, cleanVars, readVars>>

\* Mutant: the object of a failed transaction stays.
CompensateNot(p) ==
  /\ saving[p] = "compensate"
  /\ SGoto(p, "end")
  /\ UNCHANGED <<object, row, deletedAt, deleting, cleanVars, readVars, mediaFailures>>

\* DeleteFromGCS of the object whose row was not stored.
Compensate(p) ==
  /\ saving[p] = "compensate"
  /\ \/ object' = object \ {p} /\ UNCHANGED mediaFailures
     \/ MediaFails("gcs") /\ UNCHANGED object
  /\ SGoto(p, "end")
  /\ UNCHANGED <<row, deletedAt, deleting, cleanVars, readVars>>

\* DEL of the cached list; an error is ignored.
Forget ==
  \/ cache' = NotCached /\ UNCHANGED mediaFailures
  \/ MediaFails("redis") /\ UNCHANGED cache

ForgetAfterSave(p) ==
  /\ saving[p] = "forget"
  /\ Forget /\ SGoto(p, "end")
  /\ UNCHANGED <<object, row, deletedAt, deleting, cleanVars, load>>

SaveCrash(p) ==
  /\ saving[p] \in {"tx", "compensate", "forget"}
  /\ MediaFails("crash") /\ SGoto(p, "end")
  /\ UNCHANGED <<object, row, deletedAt, deleting, cleanVars, readVars>>

-----------------------------------------------------------------------------
(* DeletePost.                                                             *)

\* FOR UPDATE, then the soft delete.  A second delete finds the post gone.
DeletePost(p) ==
  /\ deleting[p] = "idle" /\ row[p] = "live"
  /\ row' = [row EXCEPT ![p] = "deleted"]
  /\ deletedAt' = [deletedAt EXCEPT ![p] = Cardinality({q \in Posts : row[q] = "deleted"}) + 1]
  /\ cleanup' = [cleanup EXCEPT ![p] = "pending"]
  /\ attempts' = [attempts EXCEPT ![p] = 0]
  /\ deleting' = [deleting EXCEPT ![p] = "forget"]
  /\ UNCHANGED <<object, saving, holder, cpc, readVars, mediaFailures>>

ForgetAfterDelete(p) ==
  /\ deleting[p] = "forget"
  /\ Forget
  /\ deleting' = [deleting EXCEPT ![p] = "end"]
  /\ UNCHANGED <<object, row, deletedAt, saving, cleanVars, load>>

DeleteCrash(p) ==
  /\ deleting[p] = "forget" /\ MediaFails("crash")
  /\ deleting' = [deleting EXCEPT ![p] = "end"]
  /\ UNCHANGED <<object, row, deletedAt, saving, cleanVars, readVars>>

-----------------------------------------------------------------------------
(* CleanupDeletedPosts: one transaction per post.                          *)

\* Mutant: the cleanup status is not looked at.
UnclaimedAny(p) == row[p] # "none" /\ holder[p] = Nobody

\* Mutant: an attempt that failed is not repeated.
UnclaimedOnce(p) == cleanup[p] = "pending" /\ holder[p] = Nobody /\ attempts[p] = 0

Unclaimed(p) == cleanup[p] = "pending" /\ holder[p] = Nobody

\* SELECT ... WHERE cleanup_status = 'pending' ORDER BY deleted_at LIMIT 1
\* FOR UPDATE SKIP LOCKED.
ClaimCleanup(k, p) ==
  /\ cpc[k] = "idle" /\ Unclaimed(p)
  /\ \A q \in Posts : Unclaimed(q) => deletedAt[p] <= deletedAt[q]
  /\ holder' = [holder EXCEPT ![p] = k]
  /\ cpc' = [cpc EXCEPT ![k] = "claimed"]
  /\ UNCHANGED <<object, row, deletedAt, saving, deleting, cleanup, attempts, readVars,
                 mediaFailures>>

\* DeleteFromGCS, which is an error too when the object does not exist.
DeleteMedia(k, p) ==
  /\ holder[p] = k /\ cpc[k] = "claimed"
  /\ \/ /\ p \in object /\ object' = object \ {p}
        /\ cpc' = [cpc EXCEPT ![k] = "removed"] /\ UNCHANGED mediaFailures
     \/ /\ p \notin object /\ cpc' = [cpc EXCEPT ![k] = "failed"]
        /\ UNCHANGED <<object, mediaFailures>>
     \/ MediaFails("gcs") /\ cpc' = [cpc EXCEPT ![k] = "failed"] /\ UNCHANGED object
  /\ UNCHANGED <<row, deletedAt, saving, deleting, cleanup, attempts, holder, readVars>>

ReleaseRow(k, p) ==
  /\ holder' = [holder EXCEPT ![p] = Nobody]
  /\ cpc' = [cpc EXCEPT ![k] = "idle"]

CommitCleanup(k, p) ==
  /\ holder[p] = k /\ cpc[k] \in {"removed", "failed"}
  /\ cleanup' = [cleanup EXCEPT ![p] =
       IF cpc[k] = "removed" THEN "completed"
       ELSE IF attempts[p] + 1 >= MaxAttempts THEN "failed" ELSE "pending"]
  /\ attempts' = [attempts EXCEPT ![p] = IF cpc[k] = "failed" THEN @ + 1 ELSE @]
  /\ ReleaseRow(k, p)
  /\ UNCHANGED <<object, row, deletedAt, saving, deleting, readVars, mediaFailures>>

\* The transaction is rolled back: an error, a shutdown or a crash.
AbortCleanup(k, p) ==
  /\ holder[p] = k
  /\ MediaFails("cleanupTx")
  /\ ReleaseRow(k, p)
  /\ UNCHANGED <<object, row, deletedAt, saving, deleting, cleanup, attempts, readVars>>

-----------------------------------------------------------------------------
(* SearchPostByUserId: read through the cache.                             *)

\* Mutant: deleted posts are listed too.
LoadAll(i) ==
  /\ cache = NotCached /\ load[i] = NotCached
  /\ load' = [load EXCEPT ![i] = {{p \in Posts : row[p] # "none"}}]
  /\ UNCHANGED <<object, row, deletedAt, saving, deleting, cleanVars, cache, mediaFailures>>

\* A miss: the first request runs loadUserPosts, the others wait for it.
LoadUserPosts(i) ==
  /\ cache = NotCached /\ load[i] = NotCached
  /\ load' = [load EXCEPT ![i] = {Live}]
  /\ UNCHANGED <<object, row, deletedAt, saving, deleting, cleanVars, cache, mediaFailures>>

\* The SET of what was read; an error is ignored.
FillCache(i) ==
  /\ load[i] # NotCached
  /\ \/ cache' = load[i] /\ UNCHANGED mediaFailures
     \/ MediaFails("redis") /\ UNCHANGED cache
  /\ load' = [load EXCEPT ![i] = NotCached]
  /\ UNCHANGED <<object, row, deletedAt, saving, deleting, cleanVars>>

ExpireCache ==
  /\ cache # NotCached
  /\ cache' = NotCached
  /\ UNCHANGED <<object, row, deletedAt, saving, deleting, cleanVars, load, mediaFailures>>

-----------------------------------------------------------------------------
SaveStep(p) == SaveToGCS(p) \/ InsertPost(p) \/ Compensate(p) \/ ForgetAfterSave(p)
CleanStep(k) ==
  \E p \in Posts : ClaimCleanup(k, p) \/ DeleteMedia(k, p) \/ CommitCleanup(k, p)

MediaNext ==
  \/ \E p \in Posts : SaveStep(p) \/ SaveCrash(p)
  \/ \E p \in Posts : DeletePost(p) \/ ForgetAfterDelete(p) \/ DeleteCrash(p)
  \/ \E k \in Cleaners : CleanStep(k) \/ \E p \in Posts : AbortCleanup(k, p)
  \/ \E i \in Instances : LoadUserPosts(i) \/ FillCache(i)
  \/ ExpireCache

MediaSpec == MediaInit /\ [][MediaNext]_mediaVars

\* Requests run to their end, every instance runs the cleanup loop, the cache
\* entry expires after userPostsTTL.
MediaFairness ==
  /\ \A p \in Posts : WF_mediaVars(SaveStep(p)) /\ WF_mediaVars(ForgetAfterDelete(p))
  /\ \A k \in Cleaners : WF_mediaVars(CleanStep(k))
  /\ \A i \in Instances : WF_mediaVars(FillCache(i))
  /\ WF_mediaVars(ExpireCache)

MediaFairSpec == MediaSpec /\ MediaFairness

-----------------------------------------------------------------------------
(* What makes it right.                                                    *)

\* Types; no post gets more cleanup attempts than MaxAttempts ("failures stop
\* after 5 attempts", SCALING.md:50).
MediaTypeOK ==
  /\ object \subseteq Posts
  /\ row \in [Posts -> {"none", "live", "deleted"}]
  /\ cleanup \in [Posts -> {"", "pending", "completed", "failed"}]
  /\ attempts \in [Posts -> 0..MaxAttempts]
  /\ saving \in [Posts -> {"new", "tx", "compensate", "forget", "end"}]
  /\ deleting \in [Posts -> {"idle", "forget", "end"}]
  /\ holder \in [Posts -> Cleaners \cup {Nobody}]
  /\ cpc \in [Cleaners -> {"idle", "claimed", "removed", "failed"}]
  /\ mediaFailures.n \in 0..MaxMediaFailures /\ mediaFailures.kinds \subseteq Unmasked

\* A post that readers can see has its media: neither the compensation of a
\* failed upload nor the cleanup of deleted posts removes it (post.go:215-221,
\* 310-312).  The exception is a COMMIT that was applied and reported as an
\* error: the compensation then deletes the media of a stored post.
MediaPresent ==
  "txLost" \notin mediaFailures.kinds => \A p \in Posts : row[p] = "live" => p \in object

\* An object in Cloud Storage belongs to a post, or to a save that is not over:
\* a failed transaction leaves no orphan (post.go:171-172), unless the process
\* dies or Cloud Storage fails too, and a deleted post keeps its claim on the
\* cleanup until the object is gone.  An upload that was stored and reported as
\* an error is not compensated (post.go:181-184) and leaves one.
NoOrphan ==
  mediaFailures.kinds \cap {"saveLost", "crash", "gcs"} = {} =>
    \A p \in object :
      saving[p] # "end" \/ row[p] = "live" \/ cleanup[p] \in {"pending", "failed"}

\* The media of a deleted post goes, or the row asks for an operator.
MediaRemoved ==
  \A p \in Posts : row[p] = "deleted" ~> (p \notin object \/ cleanup[p] = "failed")

\* Once posts stop changing the cached list becomes and stays the list of live
\* posts, although an instance may store a list it read before the change and
\* after the DEL that was to drop it.
CacheConverges == <>[](cache \in {NotCached, {Live}})
=============================================================================
