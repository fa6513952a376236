------------------------------ MODULE HomeFeed ------------------------------
(***************************************************************************)
(* One reader pages through the home feed: GetHomeFeed of                  *)
(* services/post/service/feed.go with FeedItems of shared/backend/redis.go *)
(* (pushed part), the keyset query on posts (pulled part) and Merge,       *)
(* Before and Cursor of shared/feedplan/feedplan.go.  One step per call,   *)
(* so posts are created, pushed, trimmed and deleted, and authors become   *)
(* celebrities, between the calls of one request and between pages.        *)
(*                                                                         *)
(* A list of items in feed order is modelled by the set of its items, the  *)
(* order being Newer.  An item is <<time, post_id>>: feedplan.Item, and    *)
(* feedplan.Cursor as well.  Posts are numbered in post_id order from 1.   *)
(*                                                                         *)
(* A post that the backfill carried over may have no created_at (At is 0). *)
(* Its row says 0; feed-worker scores it with its clock, anew each time    *)
(* the event is delivered.                                                 *)
(***************************************************************************)
EXTENDS Integers, FiniteSets

CONSTANTS
  Posts, At, Author, \* post ids, their created_at second and their user_id
  Follows,           \* the accounts the reader follows
  Limit,             \* posts per page
  MaxFeedLen,        \* Policy.MaxFeedLen
  Nows,              \* what time.Now() of feed-worker may return
  Late,              \* the posts that may be created or pushed while the reader pages
  Stars,             \* the authors that may pass the celebrity threshold
  MaxFailures        \* bound: requests that fail

ASSUME PostsAssumption ==
  Posts \subseteq Nat \ {0} /\ At \in [Posts -> Nat] /\ Nows \subseteq Nat \ {0}
ASSUME LimitAssumption ==
  Limit \in Nat \ {0} /\ MaxFeedLen \in Nat \ {0} /\ MaxFailures \in Nat

NoCursor == <<0, 0>>

VARIABLES
  row,        \* row[p]: "none", "live" or "deleted"
  feed,       \* members of the reader's sorted set
  celebrity,  \* members of feed:celebrities
  pc,         \* step of the reader's request
  cur,        \* the cursor the client holds
  ties,       \* answer of ZCOUNT
  pushed, celebs, pulled,  \* what the request has read
  page,       \* the posts of the last response
  shown,      \* shown[p]: how often p was returned
  owed,       \* history: posts visible ever since paging started
  stamped,    \* history: posts without created_at that were pushed
  failures

storeVars == <<row, feed, celebrity, stamped>>
readVars == <<ties, pushed, celebs, pulled>>
vars == <<storeVars, pc, cur, readVars, page, shown, owed, failures>>

Newer(x, y) == x[1] > y[1] \/ (x[1] = y[1] /\ x[2] > y[2])
Top(n, S) == {x \in S : Cardinality({y \in S : Newer(y, x)}) < n}

\* The item of a post's row.
RowItem(p) == <<At[p], p>>
PostsOf(S) == {x[2] : x \in S}

\* What GetHomeFeed could return.
Visible(rows, zset, stars) ==
  {p \in Posts : rows[p] = "live" /\ (p \in PostsOf(zset) \/ Author[p] \in stars \cap Follows)}

Started == pc # "new"

Init ==
  /\ row = [p \in Posts |-> "none"] /\ feed = {} /\ celebrity = {}
  /\ pc = "new" /\ cur = NoCursor
  /\ ties = 0 /\ pushed = {} /\ celebs = {} /\ pulled = {}
  /\ page = {} /\ shown = [p \in Posts |-> 0] /\ owed = {} /\ stamped = {} /\ failures = 0

-----------------------------------------------------------------------------
(* What happens to the feed meanwhile.                                     *)

Track == owed' = owed \cap Visible(row', feed', celebrity')

CreatePost(p) ==
  /\ row[p] = "none" /\ (Started => p \in Late)
  /\ row' = [row EXCEPT ![p] = "live"]
  /\ UNCHANGED <<feed, celebrity, stamped, pc, cur, readVars, page, shown, failures>>
  /\ Track

\* ErrPostNotFound unless it is live.
DeletePost(p) ==
  /\ row[p] = "live"
  /\ row' = [row EXCEPT ![p] = "deleted"]
  /\ UNCHANGED <<feed, celebrity, stamped, pc, cur, readVars, page, shown, failures>>
  /\ Track

\* HandlePostCreated: an event without created_at gets the worker's time.
Scores(p) == IF At[p] = 0 THEN Nows ELSE {At[p]}

\* feed-worker adds the post, deleted in the meantime or not, or scores it again:
\* ZADD and trim.
AddToFeed(p) ==
  /\ row[p] # "none" /\ Author[p] \in Follows /\ (Started => p \in Late)
  /\ \E t \in Scores(p) :
       feed' = Top(MaxFeedLen, {x \in feed : x[2] # p} \cup {<<t, p>>})
  /\ stamped' = IF At[p] = 0 THEN stamped \cup {p} ELSE stamped
  /\ UNCHANGED <<row, celebrity, pc, cur, readVars, page, shown, failures>>
  /\ Track

\* feed-worker finds the author above the threshold.
MarkCelebrity(p) ==
  /\ row[p] # "none" /\ Author[p] \in Stars \ celebrity
  /\ celebrity' = celebrity \cup {Author[p]}
  /\ UNCHANGED <<row, feed, stamped, pc, cur, readVars, page, shown, failures>>
  /\ Track

-----------------------------------------------------------------------------
(* GetHomeFeed.                                                            *)

\* Mutant: "no cursor" is read off the time.
IsSetByTime(c) == c[1] # 0

\* Cursor.IsSet
IsSet(c) == c[2] # 0

\* feedplan.Before
Before(S, c) == IF IsSet(c) THEN {x \in S : Newer(c, x)} ELSE S

\* The client asks for the first page, or for the one after its cursor.
Request ==
  /\ pc \in {"new", "idle"}
  /\ pc' = "count"
  /\ owed' = IF pc = "new" THEN Visible(row, feed, celebrity) ELSE owed
  /\ UNCHANGED <<storeVars, cur, readVars, page, shown, failures>>

\* FeedItems: how many members have the score of the cursor.
ZCount ==
  /\ pc = "count"
  /\ ties' = IF IsSet(cur) THEN Cardinality({x \in feed : x[1] = cur[1]}) ELSE 0
  /\ pc' = "range"
  /\ UNCHANGED <<storeVars, cur, pushed, celebs, pulled, page, shown, owed, failures>>

\* Mutant: no room for the ties that are skipped.
WindowNoTies(n) == Top(n, {x \in feed : IsSet(cur) => x[1] <= cur[1]})

\* ZRANGE -inf <score> BYSCORE REV LIMIT 0 n + ties
Window(n) == Top(n + ties, {x \in feed : IsSet(cur) => x[1] <= cur[1]})

\* The tie is filtered and the rest cut.
ZRange ==
  /\ pc = "range"
  /\ pushed' = Top(Limit + 1, Before(Window(Limit + 1), cur))
  /\ pc' = "celebs"
  /\ UNCHANGED <<storeVars, cur, ties, celebs, pulled, page, shown, owed, failures>>

\* SMEMBERS and FollowedAmong.
FollowedCelebrities ==
  /\ pc = "celebs"
  /\ celebs' = celebrity \cap Follows
  /\ pc' = "pull"
  /\ UNCHANGED <<storeVars, cur, ties, pushed, pulled, page, shown, owed, failures>>

\* The keyset query; it is not made when no celebrity is followed.
PullPosts ==
  /\ pc = "pull"
  /\ LET found == {p \in Posts : row[p] = "live" /\ Author[p] \in celebs}
     IN  pulled' = Top(Limit + 1, Before({RowItem(p) : p \in found}, cur))
  /\ pc' = "load"
  /\ UNCHANGED <<storeVars, cur, ties, pushed, celebs, page, shown, owed, failures>>

\* Merge: of a post that was read twice the first item stays.
Merge(first, second) == first \cup {x \in second : x[2] \notin PostsOf(first)}

Cut(S) == Top(Limit, S)

\* Merge and cut; the page's pushed posts are loaded, and the next cursor is the
\* last item of a page that has a successor.
Respond ==
  LET merged == Before(Merge(pushed, pulled), cur)
  IN  /\ pc = "load"
      /\ page' = {p \in PostsOf(Cut(merged)) : p \in PostsOf(pulled) \/ row[p] = "live"}
      /\ shown' = [p \in Posts |-> IF p \in page' THEN shown[p] + 1 ELSE shown[p]]
      /\ \/ /\ Cut(merged) = merged
            /\ pc' = "end" /\ UNCHANGED cur
         \/ /\ Cut(merged) # merged
            /\ \E c \in Cut(merged) :
                 (\A x \in Cut(merged) : x = c \/ Newer(x, c)) /\ cur' = c
            /\ pc' = "idle"
      /\ ties' = 0 /\ pushed' = {} /\ celebs' = {} /\ pulled' = {}
      /\ UNCHANGED <<storeVars, owed, failures>>

\* A call failed: the client asks for the same page again.
Fail ==
  /\ pc \in {"count", "range", "celebs", "pull", "load"}
  /\ failures < MaxFailures /\ failures' = failures + 1
  /\ pc' = "idle"
  /\ ties' = 0 /\ pushed' = {} /\ celebs' = {} /\ pulled' = {}
  /\ UNCHANGED <<storeVars, cur, page, shown, owed>>

-----------------------------------------------------------------------------
Next ==
  \/ \E p \in Posts : CreatePost(p) \/ DeletePost(p) \/ AddToFeed(p) \/ MarkCelebrity(p)
  \/ Request \/ ZCount \/ ZRange \/ FollowedCelebrities \/ PullPosts \/ Respond \/ Fail

Spec == Init /\ [][Next]_vars

-----------------------------------------------------------------------------
(* What makes paging right.                                                *)

FeedItem == Nat \X Posts

\* Types; a page never holds more than Limit posts.
TypeOK ==
  /\ row \in [Posts -> {"none", "live", "deleted"}]
  /\ feed \subseteq FeedItem /\ Cardinality(feed) <= MaxFeedLen
  /\ celebrity \subseteq {Author[p] : p \in Posts}
  /\ pc \in {"new", "idle", "count", "range", "celebs", "pull", "load", "end"}
  /\ cur \in FeedItem \cup {NoCursor}
  /\ ties \in 0..MaxFeedLen
  /\ pushed \subseteq FeedItem /\ celebs \subseteq celebrity /\ pulled \subseteq FeedItem
  /\ page \subseteq Posts /\ Cardinality(page) <= Limit
  /\ shown \in [Posts -> Nat] /\ owed \subseteq Posts /\ stamped \subseteq Posts
  /\ failures \in 0..MaxFailures

\* Paging never repeats a post, whatever is pushed, trimmed, deleted or pulled as
\* well as pushed between two calls: the next page starts strictly below the
\* cursor, also at a row whose created_at is 0 (feedplan.go:175-177).  Left out
\* are the posts without created_at that were pushed: their score is the
\* worker's time, their row's is 0, and an author who becomes a celebrity has
\* both returned (feed_worker.go:73-76, backfill.go:222).
NeverRepeats == \A p \in Posts \ stamped : shown[p] <= 1

\* "The merge cannot miss or repeat one" (feed.go:33-34): a post that was there
\* from the start of the paging on has been shown once the cursor is past it,
\* and at the latest on the last page (redis.go:107-109).  The same posts are
\* left out: one that is scored again moves above the cursor.
NothingSkipped ==
  \A p \in owed \ stamped :
    shown[p] = 0 => pc # "end" /\ (IsSet(cur) => Newer(cur, RowItem(p)))
=============================================================================
