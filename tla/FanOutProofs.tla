---------------------------- MODULE FanOutProofs ----------------------------
(***************************************************************************)
(* Proofs about FanOut: that a feed holds the newest of the posts pushed   *)
(* to it, and that a finished event has reached everyone who followed      *)
(* since before the post, for any number of users, posts and workers, any  *)
(* policy, and follows of which any number share a time.                   *)
(***************************************************************************)
EXTENDS FanOut, FiniteSetTheorems, TLAPS

\* The followers that a handler has read so far.
Listed(w) == {u \in Users : out[w][u] # 0}

\* The database: a time of the past for every row.
GraphTypes ==
  /\ now \in Nat /\ now # 0
  /\ follow \in [Users -> Nat] /\ \A u \in Users : follow[u] < now
  /\ born \in [Posts -> Nat] /\ \A p \in Posts : born[p] < now

Support(f) == {p \in Posts : f[p] # 0}

\* Redis: a feed holds nothing that was not pushed, and a post with a CreatedAt
\* has no other score.
FeedTypes ==
  /\ feed \in [Users -> [Posts -> Nat]] /\ pushed \in [Users -> [Posts -> Nat]]
  /\ \A u \in Users : IsFiniteSet(Support(pushed[u]))
  /\ \A u \in Users, p \in Posts :
       /\ feed[u][p] <= pushed[u][p]
       /\ At[p] # 0 => feed[u][p] \in {0, At[p]} /\ pushed[u][p] \in {0, At[p]}

\* A handler that runs has the event of a post that exists.
WorkTypes ==
  /\ handled \subseteq Posts /\ \A p \in handled : born[p] # 0
  /\ pc \in [Workers -> {"idle", "count", "mark", "read", "push"}]
  /\ DOMAIN event = Workers
  /\ \A w \in Workers : pc[w] # "idle" => event[w] \in Posts /\ born[event[w]] # 0
  /\ out \in [Workers -> [Users -> Nat]]
  /\ after \in [Workers -> Nat \X Nat] /\ \A w \in Workers : after[w][1] < now
  /\ score \in [Workers -> Nat]
  /\ \A w \in Workers : pc[w] = "push" => score[w] \in Scores(event[w])
  /\ DOMAIN todo = Workers
  /\ failed \in [Workers -> BOOLEAN]

\* Between two pages: nobody is read twice, the followers read and the ones to
\* come are no more than the threshold, and between them they are all who
\* followed since before the post.
Reading(w) ==
  pc[w] = "read" =>
    /\ ~IsSet(after[w]) => Listed(w) = {}
    /\ ~crowded =>
         /\ Listed(w) \cap Rest(w) = {}
         /\ IsSet(after[w]) => Cardinality(Listed(w) \cup Rest(w)) <= Threshold
         /\ \A u \in Users : FollowsSince(u, event[w]) => u \in Listed(w) \cup Rest(w)

\* While the batches are written: who followed since before the post is in the
\* list, and who is in the list has the post, or waits in a batch, or was in a
\* batch that failed, which makes the handler start over.
Pushing(w) ==
  pc[w] = "push" /\ ~crowded =>
    /\ \A u \in Users : FollowsSince(u, event[w]) => u \in Listed(w)
    /\ \A u \in Listed(w) : \/ failed[w] \/ pushed[u][event[w]] # 0
                            \/ \E i \in todo[w] : u \in Batch(out[w], i)

FanOutInv ==
  /\ GraphTypes /\ FeedTypes /\ WorkTypes
  /\ \A w \in Workers : Reading(w) /\ Pushing(w)
  /\ losses \in Nat
  /\ FollowersReached /\ FeedIsNewest

-----------------------------------------------------------------------------
(* The feeds.                                                              *)

\* As scores grow, no fewer posts are newer than one whose score stays.
LEMMA NewerGrows ==
  ASSUME NEW f \in [Posts -> Nat], NEW g \in [Posts -> Nat], IsFiniteSet(Support(g)),
         NEW x \in Posts, f[x] # 0, f[x] = g[x], \A q \in Posts : f[q] <= g[q],
         ~(Cardinality({q \in Posts : Newer(f, q, x)}) < MaxFeedLen)
  PROVE  Cardinality({q \in Posts : Newer(g, q, x)}) >= MaxFeedLen
<1> DEFINE A == {q \in Posts : Newer(f, q, x)}
           B == {q \in Posts : Newer(g, q, x)}
<1>1. Posts \subseteq Nat
      BY PostsAssumption DEF PostsAssumption
<1>2. A \in SUBSET B
      <2>1. ASSUME NEW q \in Posts, Newer(f, q, x) PROVE Newer(g, q, x)
            <3>1. /\ f[q] \in Nat /\ g[q] \in Nat /\ f[x] \in Nat /\ f[x] = g[x]
                  /\ f[q] <= g[q] /\ q \in Nat /\ x \in Nat
                  BY <1>1
            <3> QED
                BY <2>1, <3>1 DEF Newer
      <2> QED
          BY <2>1
<1>3. B \in SUBSET Support(g)
      BY <1>1 DEF Newer, Support
<1>4. IsFiniteSet(B) /\ Cardinality(B) \in Nat
      BY <1>3, FS_Subset, FS_CardinalityType
<1>5. IsFiniteSet(A) /\ Cardinality(A) <= Cardinality(B) /\ Cardinality(A) \in Nat
      BY <1>2, <1>4, FS_Subset, FS_CardinalityType
<1>6. MaxFeedLen \in Nat
      BY PolicyAssumption DEF PolicyAssumption
<1>7. ~(Cardinality(A) < MaxFeedLen)
      OBVIOUS
<1> HIDE DEF A, B
<1>8. Cardinality(B) >= MaxFeedLen
      BY <1>4, <1>5, <1>6, <1>7
<1> QED
    BY <1>8 DEF B

\* ZADD with or without the trim: what the trim drops has MaxFeedLen newer posts
\* in the feed it is dropped from, so among the scores ever pushed.
LEMMA AddStep ==
  ASSUME FeedTypes, FeedIsNewest, losses' = losses, NEW p \in Posts, NEW t \in Scores(p),
         NEW S, NEW Z, Add(p, t, S, Z)
  PROVE  /\ FeedTypes' /\ FeedIsNewest'
         /\ \A u \in Users, q \in Posts : pushed[u][q] # 0 => pushed'[u][q] # 0
         /\ \A u \in Users : u \in S \cup Z => pushed'[u][p] # 0
<1> DEFINE ZAdd(u) == [feed[u] EXCEPT ![p] = t]
           Before(u) == IF u \in S \cup Z THEN ZAdd(u) ELSE feed[u]
<1>1. t \in Nat /\ t # 0 /\ (At[p] # 0 => t = At[p])
      BY PostsAssumption DEF PostsAssumption, Scores
<1>2. ASSUME NEW u \in Users
      PROVE  /\ pushed'[u] = IF u \in S \cup Z /\ pushed[u][p] < t
                               THEN [pushed[u] EXCEPT ![p] = t] ELSE pushed[u]
             /\ feed'[u] = IF u \in S THEN Trim(Before(u)) ELSE Before(u)
      BY DEF Add
<1>3. ASSUME NEW u \in Users
      PROVE  /\ feed[u] \in [Posts -> Nat] /\ pushed[u] \in [Posts -> Nat]
             /\ IsFiniteSet(Support(pushed[u]))
      BY DEF FeedTypes
<1>4. ASSUME NEW u \in Users
      PROVE  /\ pushed'[u] \in [Posts -> Nat] /\ IsFiniteSet(Support(pushed'[u]))
             /\ Before(u) \in [Posts -> Nat] /\ feed'[u] \in [Posts -> Nat]
      <2>1. pushed'[u] \in [Posts -> Nat] /\ Before(u) \in [Posts -> Nat]
            BY <1>1, <1>2, <1>3
      <2>2. feed'[u] \in [Posts -> Nat]
            <3>1. \A g \in [Posts -> Nat] : Trim(g) \in [Posts -> Nat]
                  BY DEF Trim
            <3> HIDE DEF Before
            <3> QED
                BY <1>2, <2>1, <3>1
      <2>3. Support(pushed'[u]) \in SUBSET (Support(pushed[u]) \cup {p})
            BY <1>2, <1>3 DEF Support
      <2>4. IsFiniteSet(Support(pushed[u]) \cup {p})
            BY <1>3, FS_AddElement
      <2>5. IsFiniteSet(Support(pushed'[u]))
            BY <2>3, <2>4, FS_Subset
      <2> QED
          BY <2>1, <2>2, <2>5
<1>5. ASSUME NEW u \in Users, NEW q \in Posts
      PROVE  /\ pushed[u][q] <= pushed'[u][q] /\ Before(u)[q] <= pushed'[u][q]
             /\ feed'[u][q] \in {0, Before(u)[q]}
             /\ At[q] # 0 => Before(u)[q] \in {0, At[q]} /\ pushed'[u][q] \in {0, At[q]}
             /\ u \in S \cup Z => pushed'[u][p] # 0
      <2>1. /\ feed[u][q] \in Nat /\ pushed[u][q] \in Nat /\ feed[u][q] <= pushed[u][q]
            /\ At[q] # 0 => feed[u][q] \in {0, At[q]} /\ pushed[u][q] \in {0, At[q]}
            /\ pushed[u][p] \in Nat
            BY <1>3 DEF FeedTypes
      <2>2. /\ Before(u)[q] = IF u \in S \cup Z /\ q = p THEN t ELSE feed[u][q]
            /\ pushed'[u][q] = IF u \in S \cup Z /\ q = p /\ pushed[u][p] < t
                                 THEN t ELSE pushed[u][q]
            /\ pushed'[u][p] = IF u \in S \cup Z /\ pushed[u][p] < t THEN t ELSE pushed[u][p]
            BY <1>2, <1>3
      <2>3. feed'[u][q] \in {0, Before(u)[q]}
            <3> HIDE DEF Before
            <3> QED
                BY <1>2 DEF Trim
      <2> HIDE DEF Before
      <2> QED
          BY <1>1, <2>1, <2>2, <2>3
<1> HIDE DEF Before
<1>6. FeedTypes'
      <2>1. feed' \in [Users -> [Posts -> Nat]] /\ pushed' \in [Users -> [Posts -> Nat]]
            <3>1. DOMAIN feed' = Users /\ DOMAIN pushed' = Users
                  BY DEF Add
            <3>2. feed' = [u \in Users |-> feed'[u]] /\ pushed' = [u \in Users |-> pushed'[u]]
                  BY DEF Add
            <3> QED
                BY <1>4, <3>2
      <2>2. ASSUME NEW u \in Users, NEW q \in Posts
            PROVE  /\ feed'[u][q] <= pushed'[u][q]
                   /\ At[q] # 0 => feed'[u][q] \in {0, At[q]} /\ pushed'[u][q] \in {0, At[q]}
            <3>1. /\ pushed'[u][q] \in Nat /\ Before(u)[q] \in Nat
                  BY <1>4
            <3> QED
                BY <1>5, <3>1
      <2>3. \A u \in Users : IsFiniteSet(Support(pushed'[u]))
            BY <1>4
      <2>4. \A u \in Users : Support(pushed[u])' = Support(pushed'[u])
            BY DEF Support
      <2> QED
          BY <2>1, <2>2, <2>3, <2>4 DEF FeedTypes
<1>7. FeedIsNewest'
      <2>1. SUFFICES ASSUME losses = 0, NEW u \in Users, NEW x \in Posts, At[x] # 0,
                            pushed'[u][x] # 0, feed'[u][x] # At[x]
            PROVE  Cardinality({q \in Posts : Newer(pushed'[u], q, x)}) >= MaxFeedLen
            BY DEF FeedIsNewest, Kept, Newer
      <2>2. pushed'[u][x] = At[x]
            BY <1>5, <2>1
      <2>3. CASE Before(u)[x] = At[x]
            <3>1. u \in S /\ feed'[u] = Trim(Before(u))
                  BY <1>2, <2>1, <2>3
            <3>2. ~(Cardinality({q \in Posts : Newer(Before(u), q, x)}) < MaxFeedLen)
                  BY <2>1, <2>3, <3>1 DEF Trim
            <3>3. \A q \in Posts : Before(u)[q] <= pushed'[u][q]
                  BY <1>5
            <3> QED
                BY <1>4, <2>1, <2>2, <2>3, <3>2, <3>3, NewerGrows
      <2>4. CASE Before(u)[x] # At[x]
            <3>1. feed[u][x] # At[x] /\ pushed[u][x] = pushed'[u][x]
                  <4>1. ~(u \in S \cup Z /\ x = p)
                        BY <1>1, <1>3, <2>1, <2>4 DEF Before
                  <4> QED
                      BY <1>2, <1>3, <2>4, <4>1 DEF Before
            <3>2. Cardinality({q \in Posts : Newer(pushed[u], q, x)}) >= MaxFeedLen
                  BY <2>1, <3>1 DEF FeedIsNewest, Kept
            <3>3. ~(Cardinality({q \in Posts : Newer(pushed[u], q, x)}) < MaxFeedLen)
                  <4> DEFINE A == {q \in Posts : Newer(pushed[u], q, x)}
                  <4>1. A \in SUBSET Support(pushed[u])
                        <5>1. Posts \subseteq Nat /\ pushed[u] \in [Posts -> Nat]
                              BY <1>3, PostsAssumption DEF PostsAssumption
                        <5> QED
                            BY <2>1, <3>1, <5>1 DEF Newer, Support
                  <4>2. Cardinality(A) \in Nat /\ MaxFeedLen \in Nat
                        BY <1>3, <4>1, FS_Subset, FS_CardinalityType, PolicyAssumption
                        DEF PolicyAssumption
                  <4>3. Cardinality(A) >= MaxFeedLen
                        BY <3>2
                  <4> HIDE DEF A
                  <4>4. ~(Cardinality(A) < MaxFeedLen)
                        BY <4>2, <4>3
                  <4> QED
                      BY <4>4 DEF A
            <3>4. \A q \in Posts : pushed[u][q] <= pushed'[u][q]
                  BY <1>5
            <3> QED
                BY <1>3, <1>4, <2>1, <3>1, <3>3, <3>4, NewerGrows
      <2> QED
          BY <2>3, <2>4
<1>8. ASSUME NEW u \in Users, NEW q \in Posts, pushed[u][q] # 0 PROVE pushed'[u][q] # 0
      BY <1>3, <1>4, <1>5, <1>8
<1> QED
    BY <1>5, <1>6, <1>7, <1>8

LEMMA FeedFrame ==
  ASSUME FeedTypes, FeedIsNewest, UNCHANGED <<feed, pushed, losses>>
  PROVE  FeedTypes' /\ FeedIsNewest'
BY DEF FeedTypes, FeedIsNewest, Kept, Newer, Support

\* A lost feed is empty, and from then on the claim is dropped.
LEMMA LoseStep ==
  ASSUME FeedTypes, losses \in Nat, NEW u \in Users, LoseFeed(u)
  PROVE  FeedTypes' /\ FeedIsNewest' /\ pushed' = pushed
<1>1. losses' # 0
      BY DEF LoseFeed
<1>2. NoScores \in [Posts -> Nat] /\ \A p \in Posts : NoScores[p] = 0
      BY DEF NoScores
<1>3. feed' = [feed EXCEPT ![u] = NoScores] /\ pushed' = pushed
      BY DEF LoseFeed
<1>4. feed' \in [Users -> [Posts -> Nat]]
      BY <1>2, <1>3 DEF FeedTypes
<1>5. ASSUME NEW v \in Users, NEW p \in Posts
      PROVE  feed'[v][p] \in {0, feed[v][p]}
      BY <1>2, <1>3 DEF FeedTypes
<1>6. \A v \in Users, p \in Posts : pushed[v][p] \in Nat
      BY DEF FeedTypes
<1>7. FeedTypes'
      BY <1>3, <1>4, <1>5, <1>6 DEF FeedTypes, Support
<1> QED
    BY <1>1, <1>3, <1>7 DEF FeedIsNewest

-----------------------------------------------------------------------------
(* Follows, unfollows and posts between the steps of the handlers.         *)

\* Whatever the graph does, a row gets a time after all that was read or posted,
\* so a row that is older than a post, or than a keyset position, has been there.
LEMMA GraphStep ==
  ASSUME FanOutInv, GraphTypes', now <= now',
         \A u \in Users : follow'[u] \in {follow[u], 0, now},
         \A p \in Posts : born[p] # 0 => born'[p] = born[p],
         UNCHANGED <<redisVars, handled, workVars, losses>>
  PROVE  FanOutInv'
<1> USE DEF redisVars, workVars
<1>1. FeedTypes' /\ FeedIsNewest' /\ losses' \in Nat
      BY FeedFrame DEF FanOutInv
<1>2. ASSUME NEW u \in Users, NEW p \in Posts, born[p] # 0,
             follow'[u] # 0, follow'[u] < born'[p]
      PROVE  FollowsSince(u, p) /\ follow'[u] = follow[u]
      <2>1. follow'[u] # 0 /\ follow'[u] < born[p] /\ born[p] < now
            BY <1>2 DEF FanOutInv, GraphTypes
      <2>2. follow'[u] = follow[u]
            BY <2>1 DEF FanOutInv, GraphTypes
      <2> QED
          BY <2>1, <2>2 DEF FollowsSince
<1>3. WorkTypes'
      <2>1. \A p \in handled' : born'[p] # 0
            BY DEF FanOutInv, WorkTypes
      <2>2. ASSUME NEW w \in Workers, pc'[w] # "idle"
            PROVE  event'[w] \in Posts /\ born'[event'[w]] # 0
            BY <2>2 DEF FanOutInv, WorkTypes
      <2>3. \A w \in Workers : after'[w][1] < now'
            <3>1. \A w \in Workers : after[w][1] \in Nat /\ after[w][1] < now
                  BY DEF FanOutInv, WorkTypes
            <3> QED
                BY <3>1 DEF FanOutInv, GraphTypes
      <2> QED
          BY <2>1, <2>2, <2>3 DEF FanOutInv, WorkTypes
<1>4. ASSUME NEW w \in Workers PROVE Listed(w)' = Listed(w)
      BY DEF Listed
<1>5. ASSUME NEW w \in Workers, IsSet(after[w]) PROVE Rest(w)' \subseteq Rest(w)
      <2>1. ASSUME NEW u \in Rest(w)' PROVE u \in Rest(w)
            <3>1. after[w][1] \in Nat /\ after[w][1] < now
                  BY DEF FanOutInv, WorkTypes
            <3>2. /\ u \in Users /\ follow'[u] # 0
                  /\ follow'[u] < after[w][1] \/ (follow'[u] = after[w][1] /\ u < after[w][2])
                  BY <1>5, <2>1 DEF Rest, Followers, IsSet
            <3>3. follow'[u] \in Nat /\ follow[u] \in Nat /\ now \in Nat
                  BY <3>2 DEF FanOutInv, GraphTypes
            <3>4. follow'[u] = follow[u]
                  BY <3>1, <3>2, <3>3
            <3> QED
                BY <3>2, <3>4 DEF Rest, Followers
      <2> QED
          BY <2>1
<1>6. ASSUME NEW w \in Workers, pc[w] # "idle", NEW u \in Users, FollowsSince(u, event[w])'
      PROVE  FollowsSince(u, event[w]) /\ (u \in Rest(w) => u \in Rest(w)')
      <2>1. event'[w] = event[w] /\ event[w] \in Posts /\ born[event[w]] # 0
            BY <1>6 DEF FanOutInv, WorkTypes
      <2>2. follow'[u] # 0 /\ follow'[u] < born'[event[w]]
            BY <1>6, <2>1 DEF FollowsSince
      <2>3. FollowsSince(u, event[w]) /\ follow'[u] = follow[u]
            BY <1>2, <2>1, <2>2
      <2> QED
          BY <2>3 DEF Rest, Followers
<1>7. ASSUME NEW w \in Workers PROVE Reading(w)'
      <2>1. SUFFICES ASSUME pc[w] = "read" PROVE Reading(w)'
            BY DEF Reading
      <2>2. ~IsSet(after[w]) => Listed(w) = {}
            BY <2>1 DEF FanOutInv, Reading
      <2>3. ASSUME ~crowded
            PROVE  /\ Listed(w) \cap Rest(w) = {}
                   /\ IsSet(after[w]) => Cardinality(Listed(w) \cup Rest(w)) <= Threshold
                   /\ \A u \in Users : FollowsSince(u, event[w]) => u \in Listed(w) \cup Rest(w)
            BY <2>1, <2>3 DEF FanOutInv, Reading
      <2>4. ASSUME ~crowded PROVE Listed(w) \cap Rest(w)' = {}
            BY <1>5, <2>2, <2>3, <2>4
      <2>5. ASSUME ~crowded, IsSet(after[w])
            PROVE  Cardinality(Listed(w) \cup Rest(w)') <= Threshold
            <3>1. Listed(w) \cup Rest(w)' \in SUBSET (Listed(w) \cup Rest(w))
                  BY <1>5, <2>5
            <3>2. Listed(w) \cup Rest(w) \in SUBSET Users
                  BY DEF Listed, Rest, Followers
            <3>3. IsFiniteSet(Listed(w) \cup Rest(w))
                  BY <3>2, FS_Subset, EarlyAssumption DEF EarlyAssumption
            <3>4. Cardinality(Listed(w) \cup Rest(w)') <= Cardinality(Listed(w) \cup Rest(w))
                  BY <3>1, <3>3, FS_Subset
            <3>5. IsFiniteSet(Listed(w) \cup Rest(w)')
                  BY <3>1, <3>3, FS_Subset
            <3>6. /\ Cardinality(Listed(w) \cup Rest(w)') \in Nat
                  /\ Cardinality(Listed(w) \cup Rest(w)) \in Nat /\ Threshold \in Nat
                  BY <3>3, <3>5, FS_CardinalityType, PolicyAssumption DEF PolicyAssumption
            <3> QED
                BY <2>3, <2>5, <3>4, <3>6
      <2>6. ASSUME ~crowded, NEW u \in Users, FollowsSince(u, event[w])'
            PROVE  u \in Listed(w) \cup Rest(w)'
            BY <1>6, <2>1, <2>3, <2>6
      <2> QED
          BY <1>4, <2>2, <2>4, <2>5, <2>6 DEF Reading, IsSet
<1>8. ASSUME NEW w \in Workers PROVE Pushing(w)'
      <2>1. SUFFICES ASSUME pc[w] = "push", ~crowded PROVE Pushing(w)'
            BY DEF Pushing
      <2>2. Pushing(w)
            BY DEF FanOutInv
      <2> QED
          <3>1. \A u \in Users : FollowsSince(u, event[w])' => u \in Listed(w)
                BY <1>6, <2>1, <2>2 DEF Pushing
          <3>2. ASSUME NEW u \in Listed(w)
                PROVE  \/ failed'[w] \/ pushed'[u][event'[w]] # 0
                       \/ \E i \in todo'[w] : u \in Batch(out[w], i)'
                <4>1. \A i : Batch(out[w], i)' = Batch(out[w], i)
                      BY DEF Batch, Newer
                <4> QED
                    BY <2>1, <2>2, <4>1 DEF Pushing
          <3> QED
              BY <1>4, <3>1, <3>2 DEF Pushing
<1>9. FollowersReached'
      <2>1. SUFFICES ASSUME ~crowded, NEW p \in handled, NEW u \in Users, FollowsSince(u, p)'
            PROVE  celebrity \/ pushed[u][p] # 0
            BY DEF FollowersReached
      <2>2. p \in Posts /\ born[p] # 0
            BY DEF FanOutInv, WorkTypes
      <2>3. FollowsSince(u, p)
            BY <1>2, <2>1, <2>2 DEF FollowsSince
      <2> QED
          BY <2>1, <2>3 DEF FanOutInv, FollowersReached
<1> QED
    BY <1>1, <1>3, <1>7, <1>8, <1>9 DEF FanOutInv

LEMMA AddFollowStep ==
  ASSUME FanOutInv, NEW u \in Users, AddFollow(u)
  PROVE  FanOutInv'
<1>1. GraphTypes' /\ now <= now'
      BY DEF FanOutInv, GraphTypes, AddFollow
<1>2. \A v \in Users : follow'[v] \in {follow[v], 0, now}
      BY DEF AddFollow, FanOutInv, GraphTypes
<1> QED
    BY <1>1, <1>2, GraphStep DEF AddFollow, topicVars

LEMMA RemoveFollowStep ==
  ASSUME FanOutInv, NEW u \in Users, RemoveFollow(u)
  PROVE  FanOutInv'
<1>1. GraphTypes' /\ now <= now'
      BY DEF FanOutInv, GraphTypes, RemoveFollow
<1>2. \A v \in Users : follow'[v] \in {follow[v], 0, now}
      BY DEF RemoveFollow, FanOutInv, GraphTypes
<1> QED
    BY <1>1, <1>2, GraphStep DEF RemoveFollow, topicVars

LEMMA CreatePostStep ==
  ASSUME FanOutInv, NEW p \in Posts, CreatePost(p)
  PROVE  FanOutInv'
<1>1. GraphTypes' /\ now <= now'
      BY DEF FanOutInv, GraphTypes, CreatePost
<1>2. \A q \in Posts : born[q] # 0 => born'[q] = born[q]
      BY DEF CreatePost, FanOutInv, GraphTypes
<1>3. \A v \in Users : follow'[v] \in {follow[v], 0, now}
      BY DEF CreatePost
<1> QED
    BY <1>1, <1>2, <1>3, GraphStep DEF CreatePost, topicVars

-----------------------------------------------------------------------------
(* The handlers.                                                           *)

\* What was pushed stays pushed.
PushedGrows == \A u \in Users, p \in Posts : pushed[u][p] # 0 => pushed'[u][p] # 0

\* The step is not one of worker v.
Rests(v) ==
  /\ pc'[v] = pc[v] /\ event'[v] = event[v] /\ out'[v] = out[v] /\ after'[v] = after[v]
  /\ score'[v] = score[v] /\ todo'[v] = todo[v] /\ failed'[v] = failed[v]

\* What one handler relies on is not disturbed by another.
LEMMA OtherWorker ==
  ASSUME FanOutInv, NEW v \in Workers, Rests(v), UNCHANGED <<follow, born>>,
         crowded => crowded', PushedGrows
  PROVE  Reading(v)' /\ Pushing(v)'
<1>1. Listed(v)' = Listed(v) /\ Rest(v)' = Rest(v)
      BY DEF Rests, Listed, Rest, Followers
<1>2. \A u \in Users : FollowsSince(u, event[v])' <=> FollowsSince(u, event[v])
      BY DEF Rests, FollowsSince
<1>3. Reading(v) /\ Pushing(v)
      BY DEF FanOutInv
<1>4. Reading(v)'
      BY <1>1, <1>2, <1>3 DEF Reading, Rests
<1>5. Pushing(v)'
      <2>1. SUFFICES ASSUME pc[v] = "push", ~crowded PROVE Pushing(v)'
            BY DEF Pushing, Rests
      <2>2. \A u \in Users : FollowsSince(u, event[v])' => u \in Listed(v)
            BY <1>2, <1>3, <2>1 DEF Pushing
      <2>3. ASSUME NEW u \in Listed(v)
            PROVE  \/ failed'[v] \/ pushed'[u][event'[v]] # 0
                   \/ \E i \in todo'[v] : u \in Batch(out[v], i)'
            <3>1. \A i : Batch(out[v], i)' = Batch(out[v], i)
                  BY DEF Batch, Rests, Newer
            <3>2. u \in Users
                  BY DEF Listed
            <3> QED
                BY <1>3, <2>1, <3>1, <3>2 DEF Pushing, Rests, PushedGrows, FanOutInv, WorkTypes
      <2> QED
          BY <1>1, <2>2, <2>3 DEF Pushing
<1> QED
    BY <1>4, <1>5

\* Everything but the working state of w follows from a few facts of the step.
LEMMA WorkerFrame ==
  ASSUME FanOutInv, NEW w \in Workers, UNCHANGED <<follow, born, now>>,
         FeedTypes', FeedIsNewest', losses' \in Nat, WorkTypes',
         \A v \in Workers \ {w} : Rests(v),
         crowded => crowded', celebrity => celebrity',
         PushedGrows,
         handled' \subseteq handled \cup {event[w]},
         ~crowded' /\ handled' # handled =>
           \A u \in Users : FollowsSince(u, event[w]) => celebrity' \/ pushed'[u][event[w]] # 0,
         Reading(w)', Pushing(w)'
  PROVE  FanOutInv'
<1>1. \A v \in Workers : Reading(v)' /\ Pushing(v)'
      BY OtherWorker
<1>2. GraphTypes'
      BY DEF FanOutInv, GraphTypes
<1>3. FollowersReached'
      <2>1. SUFFICES ASSUME ~crowded', NEW p \in handled', NEW u \in Users, FollowsSince(u, p)
            PROVE  celebrity' \/ pushed'[u][p] # 0
            BY DEF FollowersReached, FollowsSince
      <2>2. CASE p \in handled
            <3>1. p \in Posts
                  BY <2>2 DEF FanOutInv, WorkTypes
            <3> QED
                BY <2>1, <2>2, <3>1 DEF FanOutInv, FollowersReached, PushedGrows
      <2>3. CASE p \notin handled
            <3>1. p = event[w] /\ handled' # handled
                  BY <2>3
            <3> QED
                BY <2>1, <3>1
      <2> QED
          BY <2>2, <2>3
<1> QED
    BY <1>1, <1>2, <1>3 DEF FanOutInv

\* A handler that starts over or returns has read nothing.
LEMMA LeaveStep ==
  ASSUME FanOutInv, NEW w \in Workers, NEW s \in {"idle", "count", "mark", "read"},
         s # "idle" => pc[w] # "idle", NEW n, Leave(w, s, n), UNCHANGED <<follow, born, now>>,
         handled' \subseteq handled \cup (IF pc[w] = "idle" THEN {} ELSE {event[w]})
  PROVE  /\ Reading(w)' /\ Pushing(w)' /\ WorkTypes' /\ crowded' = crowded
         /\ \A v \in Workers \ {w} : Rests(v)
<1>1. /\ pc'[w] = s /\ after'[w] = NoCursor /\ out'[w] = NotRead /\ crowded' = crowded
      /\ s # "idle" => event'[w] = event[w]
      BY DEF Leave, FanOutInv, WorkTypes
<1>2. \A v \in Workers \ {w} : Rests(v)
      BY DEF Leave, Rests, FanOutInv, WorkTypes
<1>3. NotRead \in [Users -> Nat] /\ \A u \in Users : NotRead[u] = 0
      BY DEF NotRead
<1>4. WorkTypes'
      <2>1. handled' \subseteq Posts /\ \A p \in handled' : born'[p] # 0
            BY DEF FanOutInv, WorkTypes
      <2>2. pc' \in [Workers -> {"idle", "count", "mark", "read", "push"}]
            BY DEF FanOutInv, WorkTypes, Leave
      <2>3. out' \in [Workers -> [Users -> Nat]]
            BY <1>3 DEF FanOutInv, WorkTypes, Leave
      <2>4. after' \in [Workers -> Nat \X Nat] /\ \A v \in Workers : after'[v][1] < now'
            <3>1. NoCursor \in Nat \X Nat /\ NoCursor[1] = 0
                  BY DEF NoCursor
            <3> QED
                BY <3>1 DEF FanOutInv, WorkTypes, GraphTypes, Leave
      <2>5. /\ failed' \in [Workers -> BOOLEAN]
            /\ DOMAIN event' = Workers /\ DOMAIN todo' = Workers
            BY DEF FanOutInv, WorkTypes, Leave
      <2>6. ASSUME NEW v \in Workers, pc'[v] # "idle"
            PROVE  event'[v] \in Posts /\ born'[event'[v]] # 0
            <3>1. pc[v] # "idle" /\ event'[v] = event[v]
                  BY <1>1, <1>2, <2>6 DEF Rests
            <3> QED
                BY <3>1 DEF FanOutInv, WorkTypes
      <2>7. /\ score' \in [Workers -> Nat]
            /\ \A v \in Workers : pc'[v] = "push" => score'[v] \in Scores(event'[v])
            <3>1. score' \in [Workers -> Nat]
                  BY DEF FanOutInv, WorkTypes, Leave
            <3>2. ASSUME NEW v \in Workers, pc'[v] = "push" PROVE score'[v] \in Scores(event'[v])
                  <4>1. v # w
                        BY <1>1, <3>2
                  <4>2. pc[v] = "push" /\ event'[v] = event[v] /\ score'[v] = score[v]
                        BY <1>2, <3>2, <4>1 DEF Rests
                  <4> QED
                      BY <4>2 DEF FanOutInv, WorkTypes
            <3> QED
                BY <3>1, <3>2
      <2>8. \A v \in Workers : (score[v] \in Scores(event[v]))' <=> score'[v] \in Scores(event'[v])
            BY DEF Scores
      <2> QED
          BY <2>1, <2>2, <2>3, <2>4, <2>5, <2>6, <2>7, <2>8 DEF WorkTypes
<1>5. Listed(w)' = {} /\ Rest(w)' = Followers'
      BY <1>1, <1>3 DEF Listed, Rest, IsSet, NoCursor
<1>6. Reading(w)'
      <2>1. \A u \in Users : FollowsSince(u, event[w])' => u \in Followers'
            BY DEF FollowsSince, Followers
      <2>2. ~IsSet(after[w])'
            BY <1>1 DEF IsSet, NoCursor
      <2> QED
          BY <1>1, <1>5, <2>1, <2>2 DEF Reading
<1>7. Pushing(w)'
      BY <1>1 DEF Pushing
<1> QED
    BY <1>1, <1>2, <1>4, <1>6, <1>7

\* A handler that returns an error, is called again or dies.
LEMMA ReturnStep ==
  ASSUME FanOutInv, NEW w \in Workers, pc[w] # "idle",
         NEW s \in {"idle", "count", "mark", "read"}, NEW n, Leave(w, s, n),
         UNCHANGED <<graphVars, feed, pushed, losses>>, celebrity => celebrity',
         handled' \subseteq handled \cup {event[w]},
         ~crowded /\ handled' # handled =>
           \A u \in Users : FollowsSince(u, event[w]) => celebrity' \/ pushed[u][event[w]] # 0
  PROVE  FanOutInv'
<1>1. UNCHANGED <<follow, born, now>>
      BY DEF graphVars
<1>2. /\ Reading(w)' /\ Pushing(w)' /\ WorkTypes' /\ crowded' = crowded
      /\ \A v \in Workers \ {w} : Rests(v)
      BY <1>1, LeaveStep
<1>3. FeedTypes' /\ FeedIsNewest' /\ losses' \in Nat
      BY FeedFrame DEF FanOutInv
<1>4. PushedGrows
      BY DEF PushedGrows
<1>5. ~crowded' /\ handled' # handled =>
        \A u \in Users : FollowsSince(u, event[w]) => celebrity' \/ pushed'[u][event[w]] # 0
      BY <1>2
<1> QED
    BY <1>1, <1>2, <1>3, <1>4, <1>5, WorkerFrame

LEMMA HandleStep ==
  ASSUME FanOutInv, NEW w \in Workers, NEW p \in Posts, Handle(w, p)
  PROVE  FanOutInv'
<1>1. UNCHANGED <<follow, born, now, feed, pushed, celebrity, handled, losses, crowded,
                  out, after, score, todo, failed>>
      BY DEF Handle, graphVars, redisVars, topicVars
<1>2. pc'[w] = "count" /\ event'[w] = p /\ born[p] # 0
      BY DEF Handle, FanOutInv, WorkTypes
<1>3. \A v \in Workers \ {w} : Rests(v)
      BY <1>1 DEF Handle, Rests, FanOutInv, WorkTypes
<1>4. WorkTypes'
      <2>1. pc' \in [Workers -> {"idle", "count", "mark", "read", "push"}]
            /\ DOMAIN event' = Workers
            BY DEF FanOutInv, WorkTypes, Handle
      <2>2. ASSUME NEW v \in Workers, pc'[v] # "idle"
            PROVE  event'[v] \in Posts /\ born'[event'[v]] # 0
            BY <1>1, <1>2, <1>3, <2>2 DEF FanOutInv, WorkTypes, Rests
      <2>3. ASSUME NEW v \in Workers, pc'[v] = "push" PROVE (score[v] \in Scores(event[v]))'
            <3>1. pc[v] = "push" /\ event'[v] = event[v]
                  BY <1>2, <1>3, <2>3 DEF Rests
            <3>2. score[v] \in Scores(event[v])
                  BY <3>1 DEF FanOutInv, WorkTypes
            <3> QED
                BY <1>1, <3>1, <3>2 DEF Scores
      <2> QED
          BY <1>1, <2>1, <2>2, <2>3 DEF FanOutInv, WorkTypes
<1>5. Reading(w)' /\ Pushing(w)'
      BY <1>2 DEF Reading, Pushing
<1>6. FeedTypes' /\ FeedIsNewest' /\ losses' \in Nat
      BY <1>1, FeedFrame DEF FanOutInv
<1>7. /\ handled' \subseteq handled \cup {event[w]} /\ handled' = handled
      /\ crowded => crowded'
      /\ celebrity => celebrity'
      /\ PushedGrows
      BY <1>1 DEF PushedGrows
<1> QED
    BY <1>1, <1>3, <1>4, <1>5, <1>6, <1>7, WorkerFrame

\* No follower at the time of the count is one since before the post.
LEMMA CountStep ==
  ASSUME FanOutInv, NEW w \in Workers, Count(w)
  PROVE  FanOutInv'
<1> DEFINE all == Cardinality(Followers)
           n == IF all <= Threshold THEN all ELSE Threshold + 1
<1>1. /\ pc[w] = "count" /\ UNCHANGED <<graphVars, redisVars, losses>>
      /\ IF n = 0 THEN Finish(w) ELSE Leave(w, Decide(n), tries[w]) /\ UNCHANGED handled
      BY DEF Count, topicVars
<1>2. UNCHANGED <<feed, pushed, celebrity>>
      BY <1>1 DEF redisVars
<1>3. Followers \in SUBSET Users /\ IsFiniteSet(Followers)
      <2>1. Followers \in SUBSET Users
            BY DEF Followers
      <2> QED
          BY <2>1, FS_Subset, EarlyAssumption DEF EarlyAssumption
<1>4. all \in Nat /\ Threshold \in Nat /\ (all = 0 => Followers = {})
      BY <1>3, FS_CardinalityType, FS_EmptySet, PolicyAssumption DEF PolicyAssumption
<1>5. n = 0 => Followers = {}
      BY <1>4
<1>6. Decide(n) \in {"idle", "count", "mark", "read"}
      BY DEF Decide
<1> HIDE DEF n
<1>7. CASE n = 0
      <2>1. Leave(w, "idle", 0) /\ handled' = handled \cup {event[w]}
            BY <1>1, <1>7 DEF Finish
      <2>2. \A u \in Users : ~FollowsSince(u, event[w])
            BY <1>5, <1>7 DEF FollowsSince, Followers
      <2> QED
          BY <1>1, <1>2, <2>1, <2>2, ReturnStep
<1>8. CASE n # 0
      <2>1. Leave(w, Decide(n), tries[w]) /\ UNCHANGED handled
            BY <1>1, <1>8
      <2> QED
          BY <1>1, <1>2, <1>6, <2>1, ReturnStep
<1> QED
    BY <1>7, <1>8

LEMMA MarkStep ==
  ASSUME FanOutInv, NEW w \in Workers, Mark(w)
  PROVE  FanOutInv'
<1>1. /\ pc[w] = "mark" /\ Leave(w, "idle", 0) /\ handled' = handled \cup {event[w]}
      /\ celebrity' = TRUE /\ UNCHANGED <<graphVars, feed, pushed, losses>>
      BY DEF Mark, Finish
<1> QED
    BY <1>1, ReturnStep

LEMMA FailStep ==
  ASSUME FanOutInv, NEW w \in Workers, CallFails(w) \/ Stop(w)
  PROVE  FanOutInv'
<1>1. PICK s, n :
        /\ s \in {"idle", "count"} /\ pc[w] # "idle" /\ Leave(w, s, n)
        /\ UNCHANGED <<graphVars, feed, pushed, celebrity, losses, handled>>
      <2>1. CASE CallFails(w)
            <3>1. /\ pc[w] # "idle" /\ \E s, n : s \in {"idle", "count"} /\ Leave(w, s, n)
                  /\ UNCHANGED <<graphVars, feed, pushed, celebrity, losses, handled>>
                  BY <2>1 DEF CallFails, Fail, redisVars
            <3> QED
                BY <3>1
      <2>2. CASE Stop(w)
            BY <2>2 DEF Stop, redisVars, topicVars
      <2> QED
          BY <2>1, <2>2
<1> QED
    BY <1>1, ReturnStep

\* The batches are through: everyone in the list has the post, or one failed.
LEMMA EndStep ==
  ASSUME FanOutInv, NEW w \in Workers, EndFanOut(w)
  PROVE  FanOutInv'
<1>1. /\ pc[w] = "push" /\ todo[w] = {}
      /\ UNCHANGED <<graphVars, feed, pushed, celebrity, losses>>
      BY DEF EndFanOut, redisVars
<1>2. CASE failed[w]
      <2>1. PICK s, n : s \in {"idle", "count"} /\ Leave(w, s, n) /\ UNCHANGED handled
            BY <1>2 DEF EndFanOut, Fail
      <2> QED
          BY <1>1, <2>1, ReturnStep
<1>3. CASE ~failed[w]
      <2>1. Leave(w, "idle", 0) /\ handled' = handled \cup {event[w]}
            BY <1>3 DEF EndFanOut, Finish
      <2>2. ~crowded => \A u \in Users : FollowsSince(u, event[w]) => pushed[u][event[w]] # 0
            BY <1>1, <1>3 DEF FanOutInv, Pushing
      <2> QED
          BY <1>1, <2>1, <2>2, ReturnStep
<1> QED
    BY <1>2, <1>3

\* A batch that is written, or breaks off and is remembered as failed.
LEMMA BatchStep ==
  ASSUME FanOutInv, NEW w \in Workers, NEW i, pc[w] = "push", i \in todo[w], NEW S, NEW Z,
         Add(event[w], score[w], S, Z), todo' = [todo EXCEPT ![w] = @ \ {i}],
         \/ failed' = failed /\ Batch(out[w], i) \subseteq S
         \/ failed' = [failed EXCEPT ![w] = TRUE],
         UNCHANGED <<graphVars, celebrity, handled, pc, event, out, after, score, crowded, losses>>
  PROVE  FanOutInv'
<1>1. UNCHANGED <<follow, born, now>>
      BY DEF graphVars
<1>2. event[w] \in Posts /\ score[w] \in Scores(event[w])
      BY DEF FanOutInv, WorkTypes
<1>3. /\ FeedTypes' /\ FeedIsNewest' /\ losses' \in Nat
      /\ PushedGrows
      /\ \A u \in Users : u \in S \cup Z => pushed'[u][event[w]] # 0
      BY <1>2, AddStep DEF FanOutInv, PushedGrows
<1>4. todo'[w] = todo[w] \ {i} /\ (failed[w] => failed'[w])
      BY DEF FanOutInv, WorkTypes
<1>5. \A v \in Workers \ {w} : Rests(v)
      BY DEF Rests, FanOutInv, WorkTypes
<1>6. WorkTypes'
      <2>1. failed' \in [Workers -> BOOLEAN] /\ DOMAIN todo' = Workers
            BY DEF FanOutInv, WorkTypes
      <2> QED
          BY <1>1, <2>1 DEF FanOutInv, WorkTypes, Scores
<1>7. Reading(w)'
      BY DEF Reading
<1>8. Pushing(w)'
      <2>1. SUFFICES ASSUME ~crowded PROVE Pushing(w)'
            BY DEF Pushing
      <2>2. Listed(w)' = Listed(w)
            BY DEF Listed
      <2>3. /\ \A u \in Users : FollowsSince(u, event[w]) => u \in Listed(w)
            /\ \A u \in Listed(w) : \/ failed[w] \/ pushed[u][event[w]] # 0
                                    \/ \E j \in todo[w] : u \in Batch(out[w], j)
            BY <2>1 DEF FanOutInv, Pushing
      <2>4. \A u \in Users : FollowsSince(u, event[w])' => u \in Listed(w)
            BY <1>1, <2>3 DEF FollowsSince
      <2>5. ASSUME NEW u \in Listed(w)
            PROVE  \/ failed'[w] \/ pushed'[u][event'[w]] # 0
                   \/ \E j \in todo'[w] : u \in Batch(out[w], j)'
            <3>1. \A j : Batch(out[w], j)' = Batch(out[w], j)
                  BY DEF Batch, Newer
            <3>2. u \in Users
                  BY DEF Listed
            <3>3. failed'[w] \/ (u \in Batch(out[w], i) => pushed'[u][event[w]] # 0)
                  BY <1>3, <3>2 DEF FanOutInv, WorkTypes
            <3> QED
                BY <1>2, <1>3, <1>4, <2>3, <3>1, <3>2, <3>3 DEF PushedGrows
      <2> QED
          BY <2>2, <2>4, <2>5 DEF Pushing
<1> QED
    BY <1>1, <1>3, <1>5, <1>6, <1>7, <1>8, WorkerFrame

LEMMA PushBatchStep ==
  ASSUME FanOutInv, NEW w \in Workers, NEW i \in todo[w], PushBatch(w, i)
  PROVE  FanOutInv'
<1>1. /\ pc[w] = "push" /\ Add(event[w], score[w], Batch(out[w], i), {})
      /\ todo' = [todo EXCEPT ![w] = @ \ {i}] /\ failed' = failed
      /\ UNCHANGED <<graphVars, celebrity, handled, pc, event, out, after, score, crowded, losses>>
      BY DEF PushBatch, InFlight, topicVars
<1> QED
    BY <1>1, BatchStep

LEMMA PushFailsStep ==
  ASSUME FanOutInv, NEW w \in Workers, NEW i \in todo[w], PushFails(w, i)
  PROVE  FanOutInv'
<1>1. /\ pc[w] = "push" /\ \E S, Z : Add(event[w], score[w], S, Z)
      /\ todo' = [todo EXCEPT ![w] = @ \ {i}] /\ failed' = [failed EXCEPT ![w] = TRUE]
      /\ UNCHANGED <<graphVars, celebrity, handled, pc, event, out, after, score, crowded, losses>>
      BY DEF PushFails, InFlight, topicVars
<1>2. PICK S, Z : Add(event[w], score[w], S, Z)
      BY <1>1
<1> QED
    BY <1>1, <1>2, BatchStep

-----------------------------------------------------------------------------
(* The paged list of followers.                                            *)

LEMMA DivBound ==
  ASSUME NEW a \in Nat, NEW b \in Nat \ {0}
  PROVE  a \div b \in 0..a
<1> DEFINE q == a \div b
<1>1. q \in Int /\ b * q <= a /\ a < b * q + b
      OBVIOUS
<1> HIDE DEF q
<1>2. q >= 0
      <2>1. SUFFICES ASSUME q <= -1 PROVE FALSE
            BY <1>1
      <2>2. b * q + b <= 0
            <3>1. b * (q + 1) <= 0
                  BY <1>1, <2>1
            <3>2. b * (q + 1) = b * q + b
                  BY <1>1
            <3> QED
                BY <3>1, <3>2
      <2> QED
          BY <1>1, <2>2
<1>3. q <= b * q
      <2>1. 0 <= (b - 1) * q
            BY <1>1, <1>2
      <2>2. (b - 1) * q = b * q - q
            BY <1>1
      <2> QED
          BY <1>1, <2>1, <2>2
<1>4. q \in 0..a
      BY <1>1, <1>2, <1>3
<1> QED
    BY <1>4 DEF q

\* Every follower of the list is in a batch, and its number is one of those the
\* loop runs over.
LEMMA InSomeBatch ==
  ASSUME NEW list \in [Users -> Nat], NEW u \in Users, list[u] # 0
  PROVE  \E i \in 1..Cardinality(Users) : u \in Batch(list, i)
<1> DEFINE A == {v \in Users : Newer(list, v, u)}
           k == Cardinality(A)
           i == k \div BatchSize + 1
<1>1. IsFiniteSet(Users) /\ BatchSize \in Nat \ {0}
      BY EarlyAssumption, PolicyAssumption DEF EarlyAssumption, PolicyAssumption
<1>2. A \in SUBSET Users /\ u \notin A
      BY EarlyAssumption DEF EarlyAssumption, Newer
<1>3. IsFiniteSet(A) /\ k \in Nat /\ Cardinality(Users) \in Nat
      BY <1>1, <1>2, FS_Subset, FS_CardinalityType
<1>4. k < Cardinality(Users)
      <2>1. k <= Cardinality(Users) /\ (k = Cardinality(Users) => A = Users)
            BY <1>1, <1>2, FS_Subset
      <2> QED
          BY <1>2, <1>3, <2>1
<1>5. k \div BatchSize \in 0..k
      <2> HIDE DEF k
      <2> QED
          BY <1>1, <1>3, DivBound
<1>6. i \in 1..Cardinality(Users)
      <2> HIDE DEF k
      <2> QED
          BY <1>3, <1>4, <1>5
<1>7. k \div BatchSize = i - 1
      <2> HIDE DEF k
      <2> QED
          BY <1>5
<1>8. u \in Batch(list, i)
      <2> HIDE DEF i
      <2> QED
          BY <1>7 DEF Batch
<1> QED
    BY <1>6, <1>8

\* A page is what comes first of the rest.
LEMMA PageComesFirst ==
  ASSUME GraphTypes, NEW w \in Workers, NEW u \in Page(w), NEW v \in Rest(w) \ Page(w)
  PROVE  Newer(follow, u, v)
<1> DEFINE left == Threshold - Cardinality({x \in Users : out[w][x] # 0})
           n == IF PageSize <= left THEN PageSize ELSE left
           Above(x) == {y \in Rest(w) : Newer(follow, y, x)}
<1>1. Rest(w) \in SUBSET Users /\ IsFiniteSet(Rest(w))
      <2>1. Rest(w) \in SUBSET Users
            BY DEF Rest, Followers
      <2> QED
          BY <2>1, FS_Subset, EarlyAssumption DEF EarlyAssumption
<1>2. n \in Int
      <2>1. Listed(w) \in SUBSET Users /\ IsFiniteSet(Users)
            BY EarlyAssumption DEF EarlyAssumption, Listed
      <2>2. Cardinality(Listed(w)) \in Nat
            BY <2>1, FS_Subset, FS_CardinalityType
      <2>3. Threshold \in Nat /\ PageSize \in Nat
            BY PolicyAssumption DEF PolicyAssumption
      <2> QED
          BY <2>2, <2>3 DEF Listed
<1>3. Page(w) = {x \in Rest(w) : Cardinality(Above(x)) < n}
      BY DEF Page
<1> HIDE DEF n
<1>4. u \in Rest(w) /\ Cardinality(Above(u)) < n /\ ~(Cardinality(Above(v)) < n)
      BY <1>3
<1>5. Above(u) \in SUBSET Rest(w) /\ Above(v) \in SUBSET Rest(w)
      OBVIOUS
<1>6. IsFiniteSet(Above(u)) /\ Cardinality(Above(u)) \in Nat /\ Cardinality(Above(v)) \in Nat
      BY <1>1, <1>5, FS_Subset, FS_CardinalityType
<1>7. \A x \in Rest(w) : x \in Nat /\ follow[x] \in Nat
      BY <1>1, EarlyAssumption DEF GraphTypes, EarlyAssumption
<1>8. SUFFICES ASSUME Newer(follow, v, u) PROVE FALSE
      BY <1>4, <1>7 DEF Newer
<1>9. Above(v) \in SUBSET Above(u)
      BY <1>4, <1>7, <1>8 DEF Newer
<1>10. Cardinality(Above(v)) <= Cardinality(Above(u))
      BY <1>6, <1>9, FS_Subset
<1> HIDE DEF Above
<1> QED
    BY <1>2, <1>4, <1>6, <1>10

\* The list after the query.
ListAfter(w) == [u \in Users |-> IF u \in Page(w) THEN follow[u] ELSE out[w][u]]

\* The loop goes on below the page: what is left is the rest without the page.
LEMMA KeysetMoves ==
  ASSUME GraphTypes, WorkTypes, NEW w \in Workers, NEW u \in Page(w),
         \A v \in Page(w) : u = v \/ Newer(follow, v, u),
         after'[w] = <<follow[u], u>>, follow' = follow
  PROVE  Rest(w)' = Rest(w) \ Page(w)
<1>1. Page(w) \subseteq Rest(w) /\ Rest(w) \subseteq Followers
      BY DEF Page, Rest
<1>2. \A x \in Followers : x \in Users /\ x \in Nat /\ x # 0 /\ follow[x] \in Nat
      BY EarlyAssumption DEF Followers, GraphTypes, EarlyAssumption
<1>3. Rest(w)' = {x \in Followers : Newer(follow, u, x)}
      <2>1. /\ IsSet(after[w])' /\ Followers' = Followers
            /\ after'[w][1] = follow[u] /\ after'[w][2] = u
            BY <1>1, <1>2 DEF IsSet, Followers
      <2>2. Rest(w)' = {x \in Followers : follow[x] < follow[u] \/ (follow[x] = follow[u] /\ x < u)}
            BY <2>1 DEF Rest
      <2> QED
          BY <1>1, <1>2, <2>2 DEF Newer
<1>4. ASSUME NEW x \in Followers, Newer(follow, u, x) PROVE x \in Rest(w) \ Page(w)
      <2>1. u \in Followers /\ after[w][1] \in Nat /\ after[w][2] \in Nat
            BY <1>1 DEF WorkTypes
      <2>2. IsSet(after[w]) =>
              follow[u] < after[w][1] \/ (follow[u] = after[w][1] /\ u < after[w][2])
            BY <1>1 DEF Rest
      <2>3. IsSet(after[w]) =>
              follow[x] < after[w][1] \/ (follow[x] = after[w][1] /\ x < after[w][2])
            BY <1>2, <1>4, <2>1, <2>2 DEF Newer
      <2>4. x \notin Page(w)
            BY <1>2, <1>4, <2>1 DEF Newer
      <2> QED
          BY <2>3, <2>4 DEF Rest
<1>5. ASSUME NEW x \in Rest(w) \ Page(w) PROVE x \in Followers /\ Newer(follow, u, x)
      BY <1>1, PageComesFirst
<1> QED
    BY <1>3, <1>4, <1>5

LEMMA ReadPageStep ==
  ASSUME FanOutInv, NEW w \in Workers, ReadPage(w)
  PROVE  FanOutInv'
<1> DEFINE L == Listed(w)
           P == Page(w)
           R == Rest(w)
           full == Cardinality({u \in Users : ListAfter(w)[u] # 0}) >= Threshold
<1>1. /\ pc[w] = "read" /\ out' = [out EXCEPT ![w] = ListAfter(w)]
      /\ crowded' = (crowded \/ Cardinality(Followers) > Threshold)
      /\ UNCHANGED <<graphVars, redisVars, handled, event, failed, losses>>
      BY DEF ReadPage, ListAfter, topicVars
<1>2. /\ P # R /\ ~full =>
           /\ \E u \in P : /\ \A v \in P : u = v \/ Newer(follow, v, u)
                           /\ after' = [after EXCEPT ![w] = <<follow[u], u>>]
           /\ UNCHANGED <<pc, score, todo>>
      /\ P = R \/ full =>
           /\ pc' = [pc EXCEPT ![w] = "push"] /\ UNCHANGED after
           /\ \E t \in Scores(event[w]) : score' = [score EXCEPT ![w] = t]
           /\ todo' = [todo EXCEPT ![w] =
                {i \in 1..Cardinality(Users) : Batch(ListAfter(w), i) # {}}]
      BY DEF ReadPage, ListAfter
<1>3. UNCHANGED <<follow, born, now, feed, pushed, celebrity>>
      BY <1>1 DEF graphVars, redisVars
<1>4. P \subseteq R /\ R \subseteq Followers /\ Followers \subseteq Users /\ L \subseteq Users
      BY DEF Page, Rest, Followers, Listed
<1>5. /\ GraphTypes /\ WorkTypes
      /\ \A u \in Followers : /\ u \in Nat /\ u # 0
                              /\ follow[u] \in Nat /\ follow[u] # 0 /\ follow[u] < now
      BY EarlyAssumption DEF FanOutInv, GraphTypes, Followers, EarlyAssumption
<1>6. ListAfter(w) \in [Users -> Nat] /\ out'[w] = ListAfter(w)
      BY <1>1, <1>4, <1>5 DEF ListAfter, WorkTypes
<1>7. {u \in Users : ListAfter(w)[u] # 0} = L \cup P
      BY <1>4, <1>5 DEF ListAfter, Listed
<1>8. Listed(w)' = L \cup P
      BY <1>6, <1>7 DEF Listed
<1>9. ASSUME NEW v \in Workers \ {w} PROVE Rests(v)
      <2>1. out'[v] = out[v] /\ event'[v] = event[v] /\ failed'[v] = failed[v]
            BY <1>1, <1>5 DEF WorkTypes
      <2>2. /\ pc'[v] = pc[v] /\ after'[v] = after[v]
            /\ score'[v] = score[v] /\ todo'[v] = todo[v]
            BY <1>2, <1>5 DEF WorkTypes
      <2> QED
          BY <2>1, <2>2 DEF Rests
<1>10. WorkTypes'
      <2>1. out' \in [Workers -> [Users -> Nat]]
            BY <1>1, <1>5, <1>6 DEF WorkTypes
      <2>2. /\ pc' \in [Workers -> {"idle", "count", "mark", "read", "push"}]
            /\ DOMAIN todo' = Workers
            BY <1>2, <1>5 DEF WorkTypes
      <2>3. after' \in [Workers -> Nat \X Nat] /\ \A v \in Workers : after'[v][1] < now'
            <3>1. CASE P # R /\ ~full
                  <4>1. PICK u \in P : after' = [after EXCEPT ![w] = <<follow[u], u>>]
                        BY <1>2, <3>1
                  <4>2. <<follow[u], u>> \in Nat \X Nat /\ <<follow[u], u>>[1] < now
                        BY <1>4, <1>5
                  <4> HIDE DEF P, R, full
                  <4> QED
                      BY <1>3, <1>5, <4>1, <4>2 DEF WorkTypes
            <3>2. CASE P = R \/ full
                  BY <1>2, <1>3, <1>5, <3>2 DEF WorkTypes
            <3> QED
                BY <3>1, <3>2
      <2>4. ASSUME NEW v \in Workers, pc'[v] # "idle"
            PROVE  event'[v] \in Posts /\ born'[event'[v]] # 0
            <3>1. pc[v] # "idle"
                  BY <1>1, <1>9, <2>4 DEF Rests
            <3> QED
                BY <1>1, <1>3, <1>5, <3>1 DEF WorkTypes
      <2>5. score' \in [Workers -> Nat]
            <3>1. Scores(event[w]) \subseteq Nat
                  <4>1. event[w] \in Posts
                        BY <1>1, <1>5 DEF WorkTypes
                  <4> QED
                      BY <4>1, PostsAssumption DEF PostsAssumption, Scores
            <3>2. \/ score' = score
                  \/ \E t \in Nat : score' = [score EXCEPT ![w] = t]
                  <4> HIDE DEF P, R, full
                  <4> QED
                      BY <1>2, <3>1
            <3> QED
                BY <1>5, <3>2 DEF WorkTypes
      <2>6. ASSUME NEW v \in Workers, pc'[v] = "push" PROVE (score[v] \in Scores(event[v]))'
            <3>1. event'[v] = event[v] /\ Scores(event[v])' = Scores(event[v])
                  BY <1>1 DEF Scores
            <3>2. CASE v = w
                  <4>1. P = R \/ full
                        BY <1>1, <1>2, <2>6, <3>2
                  <4>2. score'[w] \in Scores(event[w])
                        BY <1>2, <1>5, <4>1 DEF WorkTypes
                  <4> QED
                      BY <3>1, <3>2, <4>2
            <3>3. CASE v # w
                  <4>1. pc[v] = "push" /\ score'[v] = score[v]
                        BY <1>9, <2>6, <3>3 DEF Rests
                  <4>2. score[v] \in Scores(event[v])
                        BY <1>5, <4>1 DEF WorkTypes
                  <4> QED
                      BY <3>1, <4>1, <4>2
            <3> QED
                BY <3>2, <3>3
      <2> QED
          BY <1>1, <1>3, <1>5, <2>1, <2>2, <2>3, <2>4, <2>5, <2>6 DEF WorkTypes
<1>11. ASSUME ~crowded'
       PROVE  /\ L \cap R = {} /\ Cardinality(L \cup R) <= Threshold
              /\ \A u \in Users : FollowsSince(u, event[w]) => u \in L \cup R
      <2>1. ~crowded /\ ~(Cardinality(Followers) > Threshold)
            BY <1>1, <1>11
      <2>2. /\ ~IsSet(after[w]) => L = {}
            /\ L \cap R = {}
            /\ IsSet(after[w]) => Cardinality(L \cup R) <= Threshold
            /\ \A u \in Users : FollowsSince(u, event[w]) => u \in L \cup R
            BY <1>1, <2>1 DEF FanOutInv, Reading
      <2>3. ASSUME ~IsSet(after[w]) PROVE Cardinality(L \cup R) <= Threshold
            <3>1. L \cup R = Followers
                  BY <2>2, <2>3 DEF Rest
            <3>2. Cardinality(Followers) \in Nat /\ Threshold \in Nat
                  BY <1>4, FS_Subset, FS_CardinalityType, EarlyAssumption, PolicyAssumption
                  DEF EarlyAssumption, PolicyAssumption
            <3> QED
                BY <2>1, <3>1, <3>2
      <2> QED
          BY <2>2, <2>3
<1>12. Reading(w)'
      <2>1. CASE P # R /\ ~full
            <3>1. PICK u \in P : /\ \A v \in P : u = v \/ Newer(follow, v, u)
                                 /\ after' = [after EXCEPT ![w] = <<follow[u], u>>]
                  BY <1>2, <2>1
            <3>2. after'[w] = <<follow[u], u>> /\ IsSet(after[w])'
                  <4>1. after'[w] = <<follow[u], u>> /\ u # 0
                        BY <1>4, <1>5, <3>1 DEF WorkTypes
                  <4> QED
                      BY <4>1 DEF IsSet
            <3>3. Rest(w)' = R \ P
                  BY <1>3, <1>5, <3>1, <3>2, KeysetMoves
            <3>4. ASSUME ~crowded'
                  PROVE  /\ Listed(w)' \cap Rest(w)' = {}
                         /\ Listed(w)' \cup Rest(w)' = L \cup R
                         /\ Cardinality(L \cup R) <= Threshold
                  BY <1>4, <1>8, <1>11, <3>3, <3>4
            <3>5. ASSUME ~crowded', NEW x \in Users, FollowsSince(x, event[w])'
                  PROVE  x \in L \cup R
                  <4>1. FollowsSince(x, event[w])
                        BY <1>1, <1>3, <3>5 DEF FollowsSince
                  <4> QED
                      BY <1>11, <3>5, <4>1
            <3> HIDE DEF L, R, P
            <3> QED
                BY <3>2, <3>4, <3>5 DEF Reading
      <2>2. CASE P = R \/ full
            <3>1. pc'[w] = "push"
                  BY <1>2, <1>5, <2>2 DEF WorkTypes
            <3> QED
                BY <3>1 DEF Reading
      <2> QED
          BY <2>1, <2>2
<1>13. Pushing(w)'
      <2>1. CASE P # R /\ ~full
            <3>1. pc'[w] = "read"
                  BY <1>1, <1>2, <2>1
            <3> QED
                BY <3>1 DEF Pushing
      <2>2. CASE P = R \/ full
            <3>1. SUFFICES ASSUME ~crowded' PROVE Pushing(w)'
                  BY DEF Pushing
            <3>2. L \cup P = L \cup R
                  <4>1. CASE P = R
                        BY <4>1
                  <4>2. CASE full
                        <5>1. Cardinality(L \cup P) >= Threshold
                              BY <1>7, <4>2
                        <5>2. L \cup P \in SUBSET (L \cup R) /\ L \cup R \in SUBSET Users
                              BY <1>4
                        <5>3. IsFiniteSet(L \cup R)
                              BY <5>2, FS_Subset, EarlyAssumption DEF EarlyAssumption
                        <5>4. /\ IsFiniteSet(L \cup P)
                              /\ Cardinality(L \cup P) <= Cardinality(L \cup R)
                              /\ Cardinality(L \cup P) = Cardinality(L \cup R) =>
                                   L \cup P = L \cup R
                              BY <5>2, <5>3, FS_Subset
                        <5>5. /\ Cardinality(L \cup P) \in Nat /\ Cardinality(L \cup R) \in Nat
                              /\ Threshold \in Nat
                              BY <5>3, <5>4, FS_CardinalityType, PolicyAssumption
                              DEF PolicyAssumption
                        <5> HIDE DEF L, P, R, full
                        <5> QED
                            BY <1>11, <3>1, <5>1, <5>4, <5>5
                  <4> QED
                      BY <2>2, <4>1, <4>2
            <3>3. ASSUME NEW x \in Users, FollowsSince(x, event[w])' PROVE x \in Listed(w)'
                  <4>1. FollowsSince(x, event[w])
                        BY <1>1, <1>3, <3>3 DEF FollowsSince
                  <4> QED
                      BY <1>8, <1>11, <3>1, <3>2, <4>1
            <3>4. todo'[w] = {i \in 1..Cardinality(Users) : Batch(ListAfter(w), i) # {}}
                  BY <1>2, <1>5, <2>2 DEF WorkTypes
            <3>5. ASSUME NEW x \in Listed(w)' PROVE \E i \in todo'[w] : x \in Batch(out[w], i)'
                  <4>1. x \in Users /\ ListAfter(w)[x] # 0
                        BY <1>6, <3>5 DEF Listed
                  <4>2. PICK i \in 1..Cardinality(Users) : x \in Batch(ListAfter(w), i)
                        BY <1>6, <4>1, InSomeBatch
                  <4>3. i \in todo'[w]
                        BY <3>4, <4>2
                  <4>4. Batch(out[w], i)' = Batch(ListAfter(w), i)
                        BY <1>6 DEF Batch, Newer
                  <4> QED
                      BY <4>2, <4>3, <4>4
            <3> QED
                BY <3>3, <3>5 DEF Pushing
      <2> QED
          BY <2>1, <2>2
<1>14. FeedTypes' /\ FeedIsNewest' /\ losses' \in Nat
      BY <1>1, <1>3, FeedFrame DEF FanOutInv
<1>15. /\ handled' = handled /\ (crowded => crowded') /\ (celebrity => celebrity')
       /\ handled' \subseteq handled \cup {event[w]}
       /\ PushedGrows
      BY <1>1, <1>3 DEF PushedGrows
<1> QED
    BY <1>3, <1>9, <1>10, <1>12, <1>13, <1>14, <1>15, WorkerFrame

-----------------------------------------------------------------------------
(* The specification.                                                      *)

LEMMA FanOutInit == Init => FanOutInv
<1> SUFFICES ASSUME Init PROVE FanOutInv
    OBVIOUS
<1>1. /\ IsFiniteSet(Users) /\ Cardinality(Users) \in Nat
      /\ Early \in [Users -> 0..Cardinality(Users)]
      BY EarlyAssumption, FS_CardinalityType DEF EarlyAssumption
<1>2. GraphTypes
      BY <1>1 DEF Init, GraphTypes
<1>3. FeedTypes
      <2>1. NoScores \in [Posts -> Nat] /\ \A p \in Posts : NoScores[p] = 0
            BY DEF NoScores
      <2>2. Support(NoScores) = {}
            BY <2>1 DEF Support
      <2>3. \A u \in Users : feed[u] = NoScores /\ pushed[u] = NoScores
            BY DEF Init
      <2>4. feed \in [Users -> [Posts -> Nat]] /\ pushed \in [Users -> [Posts -> Nat]]
            BY <2>1 DEF Init
      <2> QED
          BY <2>1, <2>2, <2>3, <2>4, FS_EmptySet DEF FeedTypes
<1>4. WorkTypes
      BY <1>2 DEF Init, WorkTypes, NotRead, NoCursor, GraphTypes
<1>5. \A w \in Workers : Reading(w) /\ Pushing(w)
      BY DEF Init, Reading, Pushing
<1>6. FollowersReached /\ FeedIsNewest /\ losses \in Nat
      BY DEF Init, FollowersReached, FeedIsNewest, NoScores
<1> QED
    BY <1>2, <1>3, <1>4, <1>5, <1>6 DEF FanOutInv

LEMMA LoseFeedStep ==
  ASSUME FanOutInv, NEW u \in Users, LoseFeed(u)
  PROVE  FanOutInv'
<1>1. FeedTypes' /\ FeedIsNewest' /\ pushed' = pushed /\ losses' \in Nat
      <2>1. FeedTypes /\ losses \in Nat
            BY DEF FanOutInv
      <2>2. losses' \in Nat
            BY <2>1 DEF LoseFeed
      <2> QED
          BY <2>1, <2>2, LoseStep
<1>2. UNCHANGED <<now, follow, born, celebrity, handled, workVars>>
      BY DEF LoseFeed, graphVars, topicVars
<1>3. GraphTypes' /\ WorkTypes'
      BY <1>2 DEF FanOutInv, GraphTypes, WorkTypes, workVars, Scores
<1>4. \A w \in Workers : Reading(w)' /\ Pushing(w)'
      <2>1. \A w \in Workers : Rests(w)
            BY <1>2 DEF Rests, workVars
      <2> QED
          BY <1>1, <1>2, <2>1, OtherWorker DEF workVars, PushedGrows
<1>5. FollowersReached'
      BY <1>1, <1>2 DEF FanOutInv, FollowersReached, FollowsSince, workVars
<1> QED
    BY <1>1, <1>3, <1>4, <1>5 DEF FanOutInv

LEMMA FanOutNext == FanOutInv /\ [Next]_vars => FanOutInv'
<1> SUFFICES ASSUME FanOutInv, [Next]_vars PROVE FanOutInv'
    OBVIOUS
<1>1. ASSUME NEW u \in Users, AddFollow(u) \/ RemoveFollow(u) \/ LoseFeed(u) PROVE FanOutInv'
      BY <1>1, AddFollowStep, RemoveFollowStep, LoseFeedStep
<1>2. ASSUME NEW p \in Posts, CreatePost(p) PROVE FanOutInv'
      BY <1>2, CreatePostStep
<1>3. ASSUME NEW p \in Posts, NEW w \in Workers, Handle(w, p) PROVE FanOutInv'
      BY <1>3, HandleStep
<1>4. ASSUME NEW w \in Workers, WorkerStep(w) PROVE FanOutInv'
      BY <1>4, CountStep, MarkStep, ReadPageStep, EndStep, PushBatchStep DEF WorkerStep
<1>5. ASSUME NEW w \in Workers, CallFails(w) \/ Stop(w) PROVE FanOutInv'
      BY <1>5, FailStep
<1>6. ASSUME NEW w \in Workers, NEW i \in todo[w], PushFails(w, i) PROVE FanOutInv'
      BY <1>6, PushFailsStep
<1>7. CASE UNCHANGED vars
      <2>1. UNCHANGED <<graphVars, redisVars, handled, workVars, losses>>
            BY <1>7 DEF vars, topicVars
      <2>2. GraphTypes' /\ UNCHANGED <<now, follow, born>>
            BY <2>1 DEF FanOutInv, GraphTypes, graphVars
      <2>3. now <= now'
            BY <2>2 DEF FanOutInv, GraphTypes
      <2> QED
          BY <2>1, <2>2, <2>3, GraphStep
<1> QED
    BY <1>1, <1>2, <1>3, <1>4, <1>5, <1>6, <1>7 DEF Next

LEMMA FanOutAlways == Spec => []FanOutInv
<1> QED
    BY FanOutInit, FanOutNext, PTL DEF Spec

\* A handled event has reached everyone who followed since before the post,
\* or readers pull it, while no list of followers was cut: HandlePostCreated and
\* AllFollowers under any interleaving of follows, unfollows, failures,
\* dead-lettered events and redeliveries, for every page size, batch size,
\* threshold and budget of attempts, whatever follows share a created_at.
THEOREM FollowersReachedHolds == Spec => []FollowersReached
<1>1. FanOutInv => FollowersReached
      BY DEF FanOutInv
<1> QED
    BY <1>1, FanOutAlways, PTL

\* A feed holds each post with a CreatedAt that was pushed to it, or was given
\* MaxFeedLen newer ones: AddToFeeds in any order, repeated or broken off, beside
\* posts without one whose score changes, for every length of the feed.
THEOREM FeedIsNewestHolds == Spec => []FeedIsNewest
<1>1. FanOutInv => FeedIsNewest
      BY DEF FanOutInv
<1> QED
    BY <1>1, FanOutAlways, PTL

-----------------------------------------------------------------------------
(* Types, and the bound on what a handler reads.                           *)

Counters == changes \in 0..MaxChanges /\ faults \in 0..MaxFaults /\ losses \in 0..faults

\* What TypeOK says beyond FanOutInv.
Shapes ==
  /\ celebrity \in BOOLEAN /\ crowded \in BOOLEAN
  /\ \A w \in Workers : pc[w] = "idle" => event[w] = 0
  /\ parked \subseteq Posts
  /\ tries \in [Workers -> 0..(MaxAttempts - 1)]
  /\ todo \in [Workers -> SUBSET (1..Cardinality(Users))]
  /\ \A w \in Workers : Cardinality(Listed(w)) <= Threshold

TypeInv == FanOutInv /\ Counters /\ Shapes

\* LIMIT: the rank of a row in the page is below n and no two rows share it.
LEMMA LimitHolds ==
  ASSUME GraphTypes, NEW R \in SUBSET Followers, NEW n \in Nat
  PROVE  LET P == {u \in R : Cardinality({v \in R : Newer(follow, v, u)}) < n}
         IN  IsFiniteSet(P) /\ Cardinality(P) \in Nat /\ Cardinality(P) <= n
<1> DEFINE Above(u) == {v \in R : Newer(follow, v, u)}
           P == {u \in R : Cardinality(Above(u)) < n}
           f == [u \in P |-> Cardinality(Above(u))]
<1>1. R \in SUBSET Users /\ IsFiniteSet(R)
      <2>1. R \in SUBSET Users
            BY DEF Followers
      <2> QED
          BY <2>1, FS_Subset, EarlyAssumption DEF EarlyAssumption
<1>2. \A u \in R : u \in Nat /\ follow[u] \in Nat
      BY <1>1, EarlyAssumption DEF GraphTypes, EarlyAssumption
<1>3. \A u \in R : Above(u) \in SUBSET R
      OBVIOUS
<1>4. \A u \in R : IsFiniteSet(Above(u)) /\ Cardinality(Above(u)) \in Nat
      <2> HIDE DEF Above
      <2> QED
          BY <1>1, <1>3, FS_Subset, FS_CardinalityType
<1>5. IsFiniteSet(P)
      <2>1. P \in SUBSET R
            OBVIOUS
      <2> QED
          BY <1>1, <2>1, FS_Subset
<1>6. f \in [P -> 0..(n - 1)]
      <2>1. ASSUME NEW u \in P PROVE Cardinality(Above(u)) \in 0..(n - 1)
            <3>1. u \in R /\ Cardinality(Above(u)) < n
                  OBVIOUS
            <3>2. Cardinality(Above(u)) \in Nat
                  BY <1>4, <3>1
            <3> QED
                BY <3>1, <3>2
      <2> QED
          BY <2>1
<1>7. ASSUME NEW u \in R, NEW v \in R, Newer(follow, u, v)
      PROVE  Cardinality(Above(u)) < Cardinality(Above(v))
      <2>1. Above(u) \in SUBSET Above(v)
            BY <1>2, <1>7 DEF Newer
      <2>2. u \in Above(v) /\ u \notin Above(u)
            BY <1>2, <1>7 DEF Newer
      <2>3. Above(u) # Above(v)
            BY <2>2
      <2> HIDE DEF Above
      <2>4. /\ Cardinality(Above(u)) <= Cardinality(Above(v))
            /\ Cardinality(Above(u)) = Cardinality(Above(v)) => Above(u) = Above(v)
            BY <1>4, <2>1, FS_Subset
      <2> QED
          BY <1>4, <2>3, <2>4
<1>8. ASSUME NEW u \in P, NEW v \in P, f[u] = f[v] PROVE u = v
      <2>1. u \in R /\ v \in R /\ Cardinality(Above(u)) = Cardinality(Above(v))
            BY <1>8
      <2>2. Cardinality(Above(u)) \in Nat
            BY <1>4, <2>1
      <2>3. ~Newer(follow, u, v) /\ ~Newer(follow, v, u)
            <3> HIDE DEF Above
            <3> QED
                BY <1>7, <2>1, <2>2
      <2> QED
          BY <1>2, <2>1, <2>3 DEF Newer
<1>9. f \in Injection(P, 0..(n - 1))
      <2>1. DOMAIN f = P
            OBVIOUS
      <2> HIDE DEF f, P
      <2> QED
          BY <1>6, <1>8, <2>1 DEF Injection, IsInjective
<1>10. IsFiniteSet(0..(n - 1)) /\ Cardinality(0..(n - 1)) = n
      <2>1. 0 \in Int /\ n - 1 \in Int
            OBVIOUS
      <2>2. IsFiniteSet(0..(n - 1))
            BY <2>1, FS_Interval
      <2>3. Cardinality(0..(n - 1)) = IF 0 > n - 1 THEN 0 ELSE (n - 1) - 0 + 1
            BY <2>1, FS_Interval
      <2> QED
          BY <2>2, <2>3
<1>11. Cardinality(P) \in Nat /\ Cardinality(P) <= n
      <2>1. Cardinality(P) <= Cardinality(0..(n - 1))
            <3> HIDE DEF P, f
            <3> QED
                BY <1>9, <1>10, FS_Injection
      <2>2. Cardinality(P) \in Nat
            <3> HIDE DEF P
            <3> QED
                BY <1>5, FS_CardinalityType
      <2> QED
          BY <1>10, <2>1, <2>2
<1> QED
    BY <1>5, <1>11

\* A query is asked for no more than what the list has room for.
LEMMA ListStaysShort ==
  ASSUME TypeInv, NEW w \in Workers
  PROVE  Cardinality(Listed(w) \cup Page(w)) <= Threshold
<1> DEFINE L == Listed(w)
           left == Threshold - Cardinality(L)
           n == IF PageSize <= left THEN PageSize ELSE left
           P == Page(w)
<1>1. L \in SUBSET Users /\ IsFiniteSet(Users)
      BY EarlyAssumption DEF EarlyAssumption, Listed
<1>2. IsFiniteSet(L) /\ Cardinality(L) \in Nat
      BY <1>1, FS_Subset, FS_CardinalityType
<1>3. Cardinality(L) <= Threshold
      BY DEF TypeInv, Shapes
<1>4. n \in Nat /\ n <= left /\ Threshold \in Nat
      <2>1. Threshold \in Nat /\ PageSize \in Nat
            BY PolicyAssumption DEF PolicyAssumption
      <2> HIDE DEF L
      <2> QED
          BY <1>2, <1>3, <2>1
<1>5. P = {u \in Rest(w) : Cardinality({v \in Rest(w) : Newer(follow, v, u)}) < n}
      BY DEF Page, Listed
<1>6. Rest(w) \in SUBSET Followers
      BY DEF Rest
<1>7. IsFiniteSet(P) /\ Cardinality(P) \in Nat /\ Cardinality(P) <= n
      <2> HIDE DEF n, P
      <2> QED
          BY <1>4, <1>5, <1>6, LimitHolds DEF TypeInv, FanOutInv
<1> HIDE DEF L, P
<1>8. /\ IsFiniteSet(L \cup P) /\ IsFiniteSet(L \cap P)
      /\ Cardinality(L \cup P) = Cardinality(L) + Cardinality(P) - Cardinality(L \cap P)
      <2>1. IsFiniteSet(L \cap P)
            BY <1>2, FS_Intersection
      <2> QED
          BY <1>2, <1>7, <2>1, FS_Union
<1>9. Cardinality(L \cap P) \in Nat /\ Cardinality(L \cup P) \in Nat
      BY <1>8, FS_CardinalityType
<1>10. Cardinality(L \cup P) <= Threshold
      BY <1>2, <1>4, <1>7, <1>8, <1>9
<1> QED
    BY <1>10 DEF L, P

LEMMA CountersStep == Counters /\ [Next]_vars => Counters'
<1> SUFFICES ASSUME Counters, [Next]_vars PROVE Counters'
    OBVIOUS
<1>1. MaxChanges \in Nat /\ MaxFaults \in Nat
      BY BoundsAssumption DEF BoundsAssumption
<1>2. CASE UNCHANGED <<changes, faults, losses>>
      BY <1>2 DEF Counters
<1>3. CASE Fails /\ UNCHANGED <<changes, losses>>
      BY <1>1, <1>3 DEF Counters, Fails
<1>4. ASSUME NEW u \in Users, AddFollow(u) \/ RemoveFollow(u) \/ LoseFeed(u) PROVE Counters'
      BY <1>1, <1>4 DEF AddFollow, RemoveFollow, LoseFeed, Counters, Fails, graphVars
<1>5. ASSUME NEW p \in Posts, CreatePost(p) \/ \E w \in Workers : Handle(w, p)
      PROVE  Counters'
      BY <1>2, <1>3, <1>5 DEF CreatePost, Handle, graphVars
<1>6. ASSUME NEW w \in Workers, WorkerStep(w) PROVE Counters'
      BY <1>2, <1>6 DEF WorkerStep, Count, Mark, ReadPage, EndFanOut, PushBatch, graphVars
<1>7. ASSUME NEW w \in Workers,
             CallFails(w) \/ Stop(w) \/ \E i \in todo[w] : PushFails(w, i)
      PROVE  Counters'
      BY <1>3, <1>7 DEF CallFails, Stop, PushFails, graphVars
<1>8. CASE UNCHANGED vars
      BY <1>2, <1>8 DEF vars, graphVars
<1> QED
    BY <1>4, <1>5, <1>6, <1>7, <1>8 DEF Next

\* Nobody's list changes.
LEMMA ShapesFrame ==
  ASSUME TypeInv, UNCHANGED <<crowded, parked, pc, event, tries, out, todo>>, celebrity' \in BOOLEAN
  PROVE  Shapes'
BY DEF TypeInv, Shapes, Listed

LEMMA ShapesLeave ==
  ASSUME TypeInv, NEW w \in Workers, NEW s, NEW n \in 0..(MaxAttempts - 1), Leave(w, s, n),
         celebrity' \in BOOLEAN, parked' \subseteq Posts
  PROVE  Shapes'
<1>1. /\ crowded' \in BOOLEAN /\ todo' \in [Workers -> SUBSET (1..Cardinality(Users))]
      /\ tries' \in [Workers -> 0..(MaxAttempts - 1)]
      BY DEF Leave, TypeInv, Shapes
<1>2. ASSUME NEW v \in Workers, pc'[v] = "idle" PROVE event'[v] = 0
      BY <1>2 DEF Leave, TypeInv, FanOutInv, WorkTypes, Shapes
<1>3. ASSUME NEW v \in Workers PROVE Cardinality(Listed(v)') <= Threshold
      <2>1. CASE v = w
            <3>1. out'[v] = NotRead
                  BY <2>1 DEF Leave, TypeInv, FanOutInv, WorkTypes
            <3>2. Listed(v)' = {}
                  BY <3>1 DEF Listed, NotRead
            <3>3. Cardinality({}) = 0 /\ Threshold \in Nat
                  BY FS_EmptySet, PolicyAssumption DEF PolicyAssumption
            <3> QED
                BY <3>2, <3>3
      <2>2. CASE v # w
            <3>1. out'[v] = out[v]
                  BY <2>2 DEF Leave, TypeInv, FanOutInv, WorkTypes
            <3>2. Listed(v)' = Listed(v)
                  BY <3>1 DEF Listed
            <3> QED
                BY <3>2 DEF TypeInv, Shapes
      <2> QED
          BY <2>1, <2>2
<1> QED
    BY <1>1, <1>2, <1>3 DEF Shapes

LEMMA ShapesRead ==
  ASSUME TypeInv, NEW w \in Workers, ReadPage(w)
  PROVE  Shapes'
<1>1. /\ pc[w] = "read" /\ out' = [out EXCEPT ![w] = ListAfter(w)]
      /\ crowded' \in BOOLEAN /\ UNCHANGED <<celebrity, event, tries, parked>>
      BY DEF ReadPage, ListAfter, redisVars, topicVars, TypeInv, Shapes
<1>2. \/ UNCHANGED <<pc, todo>>
      \/ /\ pc' = [pc EXCEPT ![w] = "push"]
         /\ todo' = [todo EXCEPT ![w] =
                       {i \in 1..Cardinality(Users) : Batch(ListAfter(w), i) # {}}]
      BY DEF ReadPage, ListAfter
<1>3. todo' \in [Workers -> SUBSET (1..Cardinality(Users))]
      BY <1>2 DEF TypeInv, Shapes
<1>4. ASSUME NEW v \in Workers, pc'[v] = "idle" PROVE event'[v] = 0
      <2>1. pc[v] = "idle"
            BY <1>2, <1>4 DEF TypeInv, FanOutInv, WorkTypes
      <2> QED
          BY <1>1, <2>1 DEF TypeInv, Shapes
<1>5. ASSUME NEW v \in Workers PROVE Cardinality(Listed(v)') <= Threshold
      <2>1. CASE v = w
            <3>1. out'[w] = ListAfter(w)
                  BY <1>1 DEF TypeInv, FanOutInv, WorkTypes
            <3>2. Page(w) \subseteq Followers
                  BY DEF Page, Rest
            <3>3. Listed(w)' = Listed(w) \cup Page(w)
                  BY <3>1, <3>2 DEF Listed, ListAfter, Followers
            <3> QED
                BY <2>1, <3>3, ListStaysShort
      <2>2. CASE v # w
            <3>1. out'[v] = out[v]
                  BY <1>1, <2>2 DEF TypeInv, FanOutInv, WorkTypes
            <3>2. Listed(v)' = Listed(v)
                  BY <3>1 DEF Listed
            <3> QED
                BY <3>2 DEF TypeInv, Shapes
      <2> QED
          BY <2>1, <2>2
<1> QED
    BY <1>1, <1>3, <1>4, <1>5 DEF TypeInv, Shapes

LEMMA ShapesPush ==
  ASSUME TypeInv, NEW w \in Workers, NEW i, todo' = [todo EXCEPT ![w] = @ \ {i}],
         UNCHANGED <<celebrity, crowded, parked, pc, event, tries, out>>
  PROVE  Shapes'
<1>1. todo' \in [Workers -> SUBSET (1..Cardinality(Users))]
      BY DEF TypeInv, Shapes
<1> QED
    BY <1>1 DEF TypeInv, Shapes, Listed

LEMMA ShapesHandle ==
  ASSUME TypeInv, NEW w \in Workers, NEW p \in Posts, Handle(w, p)
  PROVE  Shapes'
<1>1. UNCHANGED <<celebrity, crowded, parked, tries, out, todo>>
      BY DEF Handle, redisVars, topicVars
<1>2. ASSUME NEW v \in Workers, pc'[v] = "idle" PROVE event'[v] = 0
      BY <1>2 DEF Handle, TypeInv, FanOutInv, WorkTypes, Shapes
<1> QED
    BY <1>1, <1>2 DEF TypeInv, Shapes, Listed

LEMMA ShapesStep == TypeInv /\ [Next]_vars => Shapes'
<1> SUFFICES ASSUME TypeInv, [Next]_vars PROVE Shapes'
    OBVIOUS
<1>1. celebrity \in BOOLEAN
      BY DEF TypeInv, Shapes
<1>2. ASSUME NEW u \in Users, AddFollow(u) \/ RemoveFollow(u) \/ LoseFeed(u) PROVE Shapes'
      <2>1. UNCHANGED <<crowded, parked, pc, event, tries, out, todo, celebrity>>
            BY <1>2 DEF AddFollow, RemoveFollow, LoseFeed, workVars, redisVars, topicVars
      <2> QED
          BY <1>1, <2>1, ShapesFrame
<1>3. ASSUME NEW p \in Posts, CreatePost(p) PROVE Shapes'
      <2>1. UNCHANGED <<crowded, parked, pc, event, tries, out, todo, celebrity>>
            BY <1>3 DEF CreatePost, workVars, redisVars, topicVars
      <2> QED
          BY <1>1, <2>1, ShapesFrame
<1>4. ASSUME NEW w \in Workers, Count(w) \/ Mark(w) \/ EndFanOut(w) \/ CallFails(w) \/ Stop(w)
      PROVE  Shapes'
      <2>1. MaxAttempts \in Nat \ {0} /\ tries[w] \in 0..(MaxAttempts - 1) /\ parked \subseteq Posts
            BY PolicyAssumption DEF PolicyAssumption, TypeInv, Shapes
      <2>2. celebrity' \in BOOLEAN
            BY <1>1, <1>4 DEF Count, Mark, EndFanOut, CallFails, Stop, redisVars
      <2>3. pc[w] # "idle" /\ event[w] \in Posts
            BY <1>4 DEF Count, Mark, EndFanOut, CallFails, Stop, TypeInv, FanOutInv, WorkTypes
      <2>4. \/ UNCHANGED parked /\ \E s : Leave(w, s, 0) \/ Leave(w, s, tries[w])
            \/ Fail(w)
            BY <1>4 DEF Count, Mark, EndFanOut, CallFails, Stop, Finish, topicVars
      <2>5. /\ parked' \subseteq Posts
            /\ \E s : \E n \in 0..(MaxAttempts - 1) : Leave(w, s, n)
            <3>1. CASE UNCHANGED parked /\ \E s : Leave(w, s, 0) \/ Leave(w, s, tries[w])
                  BY <2>1, <3>1
            <3>2. CASE Fail(w)
                  BY <2>1, <2>3, <3>2 DEF Fail
            <3> QED
                BY <2>4, <3>1, <3>2
      <2> QED
          BY <2>2, <2>5, ShapesLeave
<1>5. ASSUME NEW w \in Workers, NEW i \in todo[w], PushBatch(w, i) \/ PushFails(w, i)
      PROVE  Shapes'
      <2>1. /\ todo' = [todo EXCEPT ![w] = @ \ {i}]
            /\ UNCHANGED <<celebrity, crowded, parked, pc, event, tries, out>>
            BY <1>5 DEF PushBatch, PushFails, topicVars
      <2> QED
          BY <2>1, ShapesPush
<1>6. CASE UNCHANGED vars
      BY <1>1, <1>6, ShapesFrame DEF vars, workVars, redisVars, topicVars
<1> QED
    BY <1>2, <1>3, <1>4, <1>5, <1>6, ShapesRead, ShapesHandle DEF Next, WorkerStep

LEMMA TypeInit == Init => TypeInv
<1> SUFFICES ASSUME Init PROVE TypeInv
    OBVIOUS
<1>1. FanOutInv
      BY FanOutInit
<1>3. Counters
      BY BoundsAssumption DEF Init, Counters, BoundsAssumption
<1>4. ASSUME NEW w \in Workers PROVE Cardinality(Listed(w)) <= Threshold
      <2>1. Listed(w) = {}
            BY DEF Init, Listed, NotRead
      <2>2. Cardinality({}) = 0 /\ Threshold \in Nat
            BY FS_EmptySet, PolicyAssumption DEF PolicyAssumption
      <2> QED
          BY <2>1, <2>2
<1>5. Shapes
      <2>1. 0 \in 0..(MaxAttempts - 1)
            BY PolicyAssumption DEF PolicyAssumption
      <2>2. tries \in [Workers -> 0..(MaxAttempts - 1)]
            BY <2>1 DEF Init
      <2> QED
          BY <1>4, <2>2 DEF Init, Shapes
<1> QED
    BY <1>1, <1>3, <1>5 DEF TypeInv

\* Types, and the bound of a fan-out: AllFollowers never returns more than
\* the threshold, whatever follows and unfollows happen between its pages.
THEOREM TypeCorrect == Spec => []TypeOK
<1>1. TypeInv /\ [Next]_vars => TypeInv'
      BY FanOutNext, CountersStep, ShapesStep DEF TypeInv
<1>2. TypeInv => TypeOK
      <2> SUFFICES ASSUME TypeInv PROVE TypeOK
          OBVIOUS
      <2>1. /\ now \in Nat /\ follow \in [Users -> Nat] /\ born \in [Posts -> Nat]
            /\ feed \in [Users -> [Posts -> Nat]] /\ pushed \in [Users -> [Posts -> Nat]]
            BY DEF TypeInv, FanOutInv, GraphTypes, FeedTypes
      <2>2. /\ handled \subseteq Posts
            /\ pc \in [Workers -> {"idle", "count", "mark", "read", "push"}]
            /\ out \in [Workers -> [Users -> Nat]]
            /\ after \in [Workers -> Nat \X Nat] /\ score \in [Workers -> Nat]
            /\ failed \in [Workers -> BOOLEAN]
            BY DEF TypeInv, FanOutInv, WorkTypes
      <2>3. \A w \in Workers : event[w] \in Posts \/ (pc[w] = "idle" /\ event[w] = 0)
            BY DEF TypeInv, FanOutInv, WorkTypes, Shapes
      <2> QED
          BY <2>1, <2>2, <2>3 DEF TypeInv, TypeOK, Shapes, Counters, Listed
<1> QED
    BY <1>1, <1>2, TypeInit, PTL DEF Spec
=============================================================================
