---------------------------- MODULE PagingProofs ----------------------------
(***************************************************************************)
(* Paging is right for every set of posts or items, every assignment of    *)
(* seconds, page size, feed length and number of failures.                 *)
(*                                                                         *)
(* The home feed never repeats a post: what was shown is not older than    *)
(* the cursor (Passed), the items of the next page are strictly older than *)
(* it, and the next cursor is the oldest item of the page that was cut.    *)
(* It skips no post either, if late posts are apart (LateApart): the       *)
(* window of ZRANGE leaves room for the second of the cursor               *)
(* (TiesCounted), so that each call of a request reads an owed post, or a  *)
(* page of newer ones, or leaves it to the calls that follow (ReadSoFar).  *)
(* Posts pushed without created_at are excepted from both: their score is  *)
(* the worker's clock, their row's time is 0 (stamped).                    *)
(*                                                                         *)
(* The keyset lists also miss nothing.  A page is an initial segment of    *)
(* what lies beyond the cursor (LowestFacts), so what it leaves out lies   *)
(* beyond the next cursor; and only a query that found fewer rows than it  *)
(* asked for ends the list (Exhausted).                                    *)
(***************************************************************************)
EXTENDS Paging, FiniteSetTheorems, TLAPS

\* The time of an item is that of the row, or was read off the worker's clock.
Scored == {x \in FeedItem : x[1] = At[x[2]] \/ x[1] \in Nows}

Types ==
  /\ feed \subseteq Scored /\ pushed \subseteq Scored /\ pulled \subseteq Scored
  /\ cur \in Scored \cup {NoCursor}
  /\ shown \in [Posts -> Nat]

\* The items of a post are that of its row, unless it was pushed without created_at.
RowItems ==
  /\ \A p \in stamped : At[p] = 0
  /\ \A x \in feed \cup pushed : x[2] \notin stamped => x = RowItem(x[2])
  /\ \A x \in pulled : x = RowItem(x[2])

Passed ==
  pc # "end" =>
    \A p \in Posts \ stamped : shown[p] # 0 => IsSet(cur) /\ ~Newer(cur, RowItem(p))

PagingInv == Types /\ RowItems /\ NeverRepeats /\ Passed

LEMMA ItemFacts ==
  /\ \A x \in FeedItem : x = <<x[1], x[2]>> /\ x[1] \in Nat /\ x[2] \in Posts
  /\ \A p \in Posts : RowItem(p) \in Scored /\ RowItem(p)[1] = At[p] /\ RowItem(p)[2] = p
  /\ Scored \subseteq FeedItem
  /\ Posts \subseteq Nat \ {0} /\ At \in [Posts -> Nat]
  BY PostsAssumption DEF PostsAssumption, FeedItem, Scored, RowItem

\* (created_at, post_id) is a strict linear order on the items.
LEMMA NewerIsLinear ==
  ASSUME NEW x \in FeedItem, NEW y \in FeedItem, NEW z \in FeedItem
  PROVE  /\ ~Newer(x, x) /\ ~(Newer(x, y) /\ Newer(y, x))
         /\ x = y \/ Newer(x, y) \/ Newer(y, x)
         /\ Newer(x, y) /\ Newer(y, z) => Newer(x, z)
         /\ Newer(x, y) /\ ~Newer(x, z) => ~Newer(y, z)
<1>1. /\ x = <<x[1], x[2]>> /\ y = <<y[1], y[2]>>
      /\ x[1] \in Nat /\ y[1] \in Nat /\ z[1] \in Nat
      /\ x[2] \in Nat /\ y[2] \in Nat /\ z[2] \in Nat
      BY ItemFacts
<1>2. x[1] = y[1] /\ x[2] = y[2] => x = y
      BY <1>1
<1> QED
    BY <1>1, <1>2 DEF Newer

\* What a request has read stays strictly below its cursor, and Cut only drops.
LEMMA BeforeIsBelow ==
  ASSUME NEW S, NEW c
  PROVE  /\ Before(S, c) \subseteq S
         /\ IsSet(c) => \A x \in Before(S, c) : Newer(c, x)
  BY DEF Before

LEMMA CutDrops == ASSUME NEW S PROVE Cut(S) \subseteq S
  BY DEF Cut, Top

LEMMA InitPaging == Init => PagingInv
  BY DEF Init, PagingInv, Types, RowItems, NeverRepeats, Passed

\* Respond: the page is new, and its last item becomes the cursor.
LEMMA RespondPaging == PagingInv /\ Respond => PagingInv'
<1> SUFFICES ASSUME PagingInv, Respond PROVE PagingInv'
    OBVIOUS
<1> DEFINE merged == Before(Merge(pushed, pulled), cur)
<1>1. /\ merged \subseteq pushed \cup pulled /\ merged \subseteq Scored
      /\ Cut(merged) \subseteq merged
      <2>1. merged \subseteq Merge(pushed, pulled) /\ Cut(merged) \subseteq merged
            BY BeforeIsBelow, CutDrops
      <2>2. Merge(pushed, pulled) \subseteq pushed \cup pulled
            BY DEF Merge
      <2> QED BY <2>1, <2>2 DEF PagingInv, Types
<1>2. page' \subseteq PostsOf(Cut(merged)) /\ pc # "end"
      BY DEF Respond
<1>3. \A x \in merged : IsSet(cur) => Newer(cur, x)
      BY BeforeIsBelow
<1>i. stamped' = stamped /\ feed' = feed /\ pushed' = {} /\ pulled' = {}
      BY DEF Respond, storeVars
<1>c. \/ pc' = "end" /\ cur' = cur
      \/ cur' \in Cut(merged) /\ \A x \in Cut(merged) : x = cur' \/ Newer(x, cur')
      BY DEF Respond
<1>5. shown' = [p \in Posts |-> IF p \in page' THEN shown[p] + 1 ELSE shown[p]]
      BY DEF Respond
<1> HIDE DEF merged
<1>p. ASSUME NEW p \in page', p \notin stamped PROVE RowItem(p) \in Cut(merged)
      <2>1. PICK x \in Cut(merged) : p = x[2]
            BY <1>2 DEF PostsOf
      <2>2. x = RowItem(x[2])
            BY <1>1, <1>p, <2>1 DEF PagingInv, RowItems
      <2> QED BY <2>1, <2>2
<1>4. \A p \in Posts \ stamped : p \in page' => shown[p] = 0
      <2> SUFFICES ASSUME NEW p \in Posts \ stamped, p \in page', shown[p] # 0 PROVE FALSE
          OBVIOUS
      <2>1. RowItem(p) \in merged
            BY <1>1, <1>p
      <2>2. IsSet(cur) /\ ~Newer(cur, RowItem(p))
            BY <1>2 DEF PagingInv, Passed
      <2> QED BY <1>3, <2>1, <2>2
<1>6. Types'
      <2>1. shown' \in [Posts -> Nat]
            BY <1>5 DEF PagingInv, Types
      <2>2. cur' \in Scored \cup {NoCursor}
            BY <1>1, <1>c DEF PagingInv, Types
      <2> QED BY <1>i, <2>1, <2>2 DEF PagingInv, Types, Scored
<1>r. RowItems'
      BY <1>i DEF PagingInv, RowItems, RowItem
<1>7. NeverRepeats'
      BY <1>4, <1>5, <1>i DEF PagingInv, Types, NeverRepeats
<1>8. Passed'
      <2> SUFFICES ASSUME pc' # "end", NEW p \in Posts \ stamped, shown'[p] # 0
                   PROVE  IsSet(cur') /\ ~Newer(cur', RowItem(p))
          BY <1>i DEF Passed, IsSet, Newer, RowItem
      <2>1. /\ cur' \in Cut(merged) /\ cur' \in merged /\ cur' \in FeedItem
            /\ RowItem(p) \in FeedItem
            BY <1>1, <1>c, ItemFacts
      <2>3. IsSet(cur')
            BY <2>1, ItemFacts DEF IsSet
      <2>4. CASE p \in page'
            <3>1. RowItem(p) = cur' \/ Newer(RowItem(p), cur')
                  BY <1>c, <1>p, <2>1, <2>4
            <3>2. ~Newer(cur', RowItem(p))
                  BY <2>1, <3>1, NewerIsLinear
            <3> QED BY <2>3, <3>2
      <2>5. CASE p \notin page'
            <3>1. shown[p] # 0
                  BY <1>5, <2>5
            <3>2. IsSet(cur) /\ ~Newer(cur, RowItem(p))
                  BY <1>2, <3>1 DEF PagingInv, Passed
            <3>3. cur \in FeedItem
                  BY <3>2, ItemFacts DEF IsSet, NoCursor, PagingInv, Types
            <3>4. Newer(cur, cur')
                  BY <1>3, <2>1, <3>2
            <3>5. ~Newer(cur', RowItem(p))
                  BY <2>1, <3>2, <3>3, <3>4, NewerIsLinear
            <3> QED BY <2>3, <3>5
      <2> QED BY <2>4, <2>5
<1> QED BY <1>6, <1>r, <1>7, <1>8 DEF PagingInv

\* Every other step: what is in the feed and what was read of it stays true.
LEMMA QuietPaging ==
  ASSUME PagingInv, UNCHANGED <<cur, shown>>, pc = "end" => pc' = "end",
         stamped \subseteq stamped',
         feed' \subseteq Scored, pushed' \subseteq Scored, pulled' \subseteq Scored, RowItems'
  PROVE  PagingInv'
<1>1. Types'
      BY DEF PagingInv, Types, Scored
<1>2. NeverRepeats' /\ Passed'
      BY DEF PagingInv, NeverRepeats, Passed, IsSet, Newer, RowItem
<1> QED BY <1>1, <1>2 DEF PagingInv

LEMMA NextPaging == PagingInv /\ [Next]_vars => PagingInv'
<1> SUFFICES ASSUME PagingInv, [Next]_vars PROVE PagingInv'
    OBVIOUS
<1>i. /\ feed \subseteq Scored /\ pushed \subseteq Scored /\ pulled \subseteq Scored
      /\ RowItems
      BY DEF PagingInv, Types
<1>1. ASSUME UNCHANGED <<cur, shown, feed, stamped, pushed, pulled>>, pc = "end" => pc' = "end"
      PROVE  PagingInv'
      <2>1. RowItems'
            BY <1>1, <1>i DEF RowItems, RowItem
      <2> QED BY <1>1, <1>i, <2>1, QuietPaging
<1>2. ASSUME NEW p \in Posts, CreatePost(p) \/ DeletePost(p) \/ MarkCelebrity(p)
      PROVE  PagingInv'
      BY <1>1, <1>2 DEF CreatePost, DeletePost, MarkCelebrity, readVars
<1>3. ASSUME NEW p \in Posts, AddToFeed(p) PROVE PagingInv'
      <2>1. /\ UNCHANGED <<cur, shown, pc, pushed, pulled>>
            /\ stamped' = IF At[p] = 0 THEN stamped \cup {p} ELSE stamped
            BY <1>3 DEF AddToFeed, readVars
      <2>2. PICK t \in Scores(p) :
              feed' = Top(MaxFeedLen, {x \in feed : x[2] # p} \cup {<<t, p>>})
            BY <1>3 DEF AddToFeed
      <2>3. feed' \subseteq feed \cup {<<t, p>>}
            BY <2>2 DEF Top
      <2>4. t \in Nat /\ (t = At[p] \/ t \in Nows) /\ (At[p] # 0 => t = At[p])
            BY PostsAssumption DEF PostsAssumption, Scores
      <2>5. <<t, p>> \in Scored
            BY <2>4 DEF Scored, FeedItem
      <2>6. \A x \in feed' : x[2] \notin stamped' => x = RowItem(x[2])
            <3> SUFFICES ASSUME NEW x \in feed', x[2] \notin stamped' PROVE x = RowItem(x[2])
                OBVIOUS
            <3>1. CASE x = <<t, p>>
                  <4>1. At[p] # 0 /\ x[2] = p
                        BY <2>1, <3>1
                  <4> QED BY <2>4, <3>1, <4>1 DEF RowItem
            <3>2. CASE x \in feed
                  BY <1>i, <2>1, <3>2 DEF RowItems
            <3> QED BY <2>3, <3>1, <3>2
      <2>7. RowItems'
            BY <1>i, <2>1, <2>6 DEF RowItems, RowItem
      <2> QED BY <1>i, <2>1, <2>3, <2>5, <2>7, QuietPaging
<1>4. CASE Request
      BY <1>1, <1>4 DEF Request, storeVars, readVars
<1>5. CASE ZCount \/ FollowedCelebrities
      BY <1>1, <1>5 DEF ZCount, FollowedCelebrities, storeVars
<1>7. CASE ZRange
      <2>1. Window(Limit + 1) \subseteq feed
            BY DEF Window, Top
      <2>2. Before(Window(Limit + 1), cur) \subseteq feed
            BY <2>1, BeforeIsBelow
      <2>3. pushed' \subseteq feed
            BY <1>7, <2>2 DEF ZRange, Top
      <2>4. UNCHANGED <<cur, shown, feed, stamped, pulled>> /\ pc # "end"
            BY <1>7 DEF ZRange, storeVars
      <2>5. RowItems'
            BY <1>i, <2>3, <2>4 DEF RowItems, RowItem
      <2> QED BY <1>i, <2>3, <2>4, <2>5, QuietPaging
<1>8. CASE PullPosts
      <2> DEFINE found == {p \in Posts : row[p] = "live" /\ Author[p] \in celebs}
      <2>1. Before({RowItem(p) : p \in found}, cur) \subseteq {RowItem(p) : p \in found}
            BY BeforeIsBelow
      <2>2. pulled' \subseteq {RowItem(p) : p \in found}
            BY <1>8, <2>1 DEF PullPosts, Top
      <2>3. \A x \in pulled' : x \in Scored /\ x = RowItem(x[2])
            BY <2>2, ItemFacts
      <2>4. UNCHANGED <<cur, shown, feed, stamped, pushed>> /\ pc # "end"
            BY <1>8 DEF PullPosts, storeVars
      <2>5. RowItems'
            BY <1>i, <2>3, <2>4 DEF RowItems, RowItem
      <2> QED BY <1>i, <2>3, <2>4, <2>5, QuietPaging
<1>9. CASE Respond
      BY <1>9, RespondPaging
<1>10. CASE Fail
      <2>1. UNCHANGED <<cur, shown, feed, stamped>> /\ pushed' = {} /\ pulled' = {} /\ pc # "end"
            BY <1>10 DEF Fail, storeVars
      <2>2. RowItems'
            BY <1>i, <2>1 DEF RowItems, RowItem
      <2> QED BY <1>i, <2>1, <2>2, QuietPaging
<1>11. CASE UNCHANGED vars
      BY <1>1, <1>11 DEF vars, storeVars, readVars
<1> QED BY <1>2, <1>3, <1>4, <1>5, <1>7, <1>8, <1>9, <1>10, <1>11 DEF Next

\* Paging never returns a post twice: GetHomeFeed with Merge, Before and CursorOf,
\* whatever happens to the feed between the pages and whatever second a row has,
\* 0 included; only posts that were pushed without created_at are left out.
THEOREM NeverRepeatsHolds == Spec => []NeverRepeats
<1>1. PagingInv => NeverRepeats
      BY DEF PagingInv
<1> QED BY <1>1, InitPaging, NextPaging, PTL DEF Spec

-----------------------------------------------------------------------------
(* Initial segments of a finite set under a strict linear order R.         *)

Orders(R, S) ==
  /\ \A x \in S : <<x, x>> \notin R
  /\ \A x, y \in S : x = y \/ <<x, y>> \in R \/ <<y, x>> \in R
  /\ \A x, y, z \in S : <<x, y>> \in R /\ <<y, z>> \in R => <<x, z>> \in R

Under(R, S, x) == {y \in S : <<y, x>> \in R}
Lowest(R, n, S) == {x \in S : Cardinality(Under(R, S, x)) < n}

LEMMA UnderFacts ==
  ASSUME NEW R, NEW S, IsFiniteSet(S), Orders(R, S)
  PROVE  /\ \A x \in S : /\ IsFiniteSet(Under(R, S, x)) /\ Cardinality(Under(R, S, x)) \in Nat
                         /\ Cardinality(Under(R, S, x)) \in 0..(Cardinality(S) - 1)
         /\ \A x, y \in S : <<x, y>> \in R =>
              Cardinality(Under(R, S, x)) < Cardinality(Under(R, S, y))
<1>1. Cardinality(S) \in Nat
      BY FS_CardinalityType
<1>2. ASSUME NEW x \in S
      PROVE  /\ IsFiniteSet(Under(R, S, x)) /\ Cardinality(Under(R, S, x)) \in Nat
             /\ Cardinality(Under(R, S, x)) \in 0..(Cardinality(S) - 1)
      <2>1. Under(R, S, x) \in SUBSET (S \ {x})
            BY DEF Under, Orders
      <2>2. IsFiniteSet(S \ {x}) /\ Cardinality(S \ {x}) = Cardinality(S) - 1
            BY FS_RemoveElement
      <2>3. /\ IsFiniteSet(Under(R, S, x))
            /\ Cardinality(Under(R, S, x)) <= Cardinality(S) - 1
            BY <2>1, <2>2, FS_Subset
      <2>4. Cardinality(Under(R, S, x)) \in Nat
            BY <2>3, FS_CardinalityType
      <2> QED
          BY <1>1, <2>3, <2>4
<1>3. ASSUME NEW x \in S, NEW y \in S, <<x, y>> \in R
      PROVE  Cardinality(Under(R, S, x)) < Cardinality(Under(R, S, y))
      <2>1. Under(R, S, x) \in SUBSET Under(R, S, y)
            BY <1>3 DEF Under, Orders
      <2>2. x \in Under(R, S, y) /\ x \notin Under(R, S, x)
            BY <1>3 DEF Under, Orders
      <2>3. /\ Cardinality(Under(R, S, x)) <= Cardinality(Under(R, S, y))
            /\ Cardinality(Under(R, S, y)) = Cardinality(Under(R, S, x)) =>
                 Under(R, S, y) = Under(R, S, x)
            BY <1>2, <2>1, FS_Subset
      <2>4. Cardinality(Under(R, S, x)) # Cardinality(Under(R, S, y))
            BY <2>2, <2>3
      <2> QED
          BY <1>2, <2>3, <2>4
<1> QED
    BY <1>2, <1>3

\* The ranks of the elements are all the numbers below the size of the set.
LEMMA RanksHaveNoGap ==
  ASSUME NEW R, NEW S, IsFiniteSet(S), Orders(R, S), NEW k \in 0..(Cardinality(S) - 1)
  PROVE  \E x \in S : Cardinality(Under(R, S, x)) = k
<1> DEFINE n == Cardinality(S)
           f == [x \in S |-> Cardinality(Under(R, S, x))]
<1>1. n \in Nat
      BY FS_CardinalityType
<1>2. f \in [S -> 0..(n - 1)]
      BY UnderFacts
<1>3. ASSUME NEW x \in S, NEW y \in S, f[x] = f[y] PROVE x = y
      <2>1. f[x] = Cardinality(Under(R, S, x)) /\ f[y] = Cardinality(Under(R, S, y))
            OBVIOUS
      <2>2. Cardinality(Under(R, S, x)) \in Nat /\ Cardinality(Under(R, S, y)) \in Nat
            BY UnderFacts
      <2> HIDE DEF f, n
      <2>3. /\ <<x, y>> \in R => Cardinality(Under(R, S, x)) < Cardinality(Under(R, S, y))
            /\ <<y, x>> \in R => Cardinality(Under(R, S, y)) < Cardinality(Under(R, S, x))
            BY UnderFacts
      <2>4. Cardinality(Under(R, S, x)) = Cardinality(Under(R, S, y))
            BY <1>3, <2>1
      <2>5. <<x, y>> \notin R /\ <<y, x>> \notin R
            BY <2>2, <2>3, <2>4
      <2> QED
          BY <2>5 DEF Orders
<1>4. f \in Injection(S, 0..(n - 1))
      BY <1>2, <1>3 DEF Injection, IsInjective
<1>5. IsFiniteSet(0..(n - 1)) /\ Cardinality(0..(n - 1)) = n
      <2>1. 0 \in Int /\ n - 1 \in Int
            BY <1>1
      <2> QED
          BY <1>1, <2>1, FS_Interval
<1>6. f \in Surjection(S, 0..(n - 1))
      BY <1>4, <1>5, FS_Injection
<1> QED
    BY <1>6 DEF Surjection

\* The first n elements are an initial segment.
LEMMA LowestFacts ==
  ASSUME NEW R, NEW S, IsFiniteSet(S), Orders(R, S), NEW n \in Nat
  PROVE  /\ Lowest(R, n, S) \subseteq S
         /\ \A x \in Lowest(R, n, S), y \in S : <<y, x>> \in R => y \in Lowest(R, n, S)
<1>1. ASSUME NEW x \in Lowest(R, n, S), NEW y \in S, <<y, x>> \in R PROVE y \in Lowest(R, n, S)
      <2>1. x \in S /\ Cardinality(Under(R, S, x)) < n
            BY DEF Lowest
      <2>2. Cardinality(Under(R, S, y)) < Cardinality(Under(R, S, x))
            BY <1>1, <2>1, UnderFacts
      <2>3. Cardinality(Under(R, S, x)) \in Nat /\ Cardinality(Under(R, S, y)) \in Nat
            BY <2>1, UnderFacts
      <2>4. Cardinality(Under(R, S, y)) < n
            BY <2>1, <2>2, <2>3
      <2> QED
          BY <2>4 DEF Lowest
<1> QED
    BY <1>1 DEF Lowest

\* A query for n + 1 rows of which the first n are taken: if there is no extra
\* row there is nothing more.
LEMMA Exhausted ==
  ASSUME NEW R, NEW S, IsFiniteSet(S), Orders(R, S), NEW n \in Nat,
         Lowest(R, n, Lowest(R, n + 1, S)) = Lowest(R, n + 1, S)
  PROVE  Lowest(R, n + 1, S) = S
<1> DEFINE got == Lowest(R, n + 1, S)
<1> SUFFICES ASSUME NEW s \in S, s \notin got PROVE FALSE
    BY DEF Lowest
<1>1. Cardinality(Under(R, S, s)) \in 0..(Cardinality(S) - 1) /\ Cardinality(S) \in Nat
      BY UnderFacts, FS_CardinalityType
<1>2. ~(Cardinality(Under(R, S, s)) < n + 1)
      BY DEF Lowest
<1>3. n \in 0..(Cardinality(S) - 1)
      BY <1>1, <1>2
<1>4. PICK x \in S : Cardinality(Under(R, S, x)) = n
      BY <1>3, RanksHaveNoGap
<1>5. x \in got
      BY <1>4 DEF Lowest
<1>6. Under(R, got, x) = Under(R, S, x)
      <2>1. \A y \in S : <<y, x>> \in R => y \in got
            BY <1>5, LowestFacts
      <2>2. got \subseteq S
            BY DEF Lowest
      <2> HIDE DEF got
      <2> QED
          BY <2>1, <2>2 DEF Under
<1>7. x \notin Lowest(R, n, got)
      BY <1>4, <1>6 DEF Lowest
<1> QED
    BY <1>5, <1>7

\* Lowest(R, n, S) lies in every initial segment of n or more elements, and
\* then has n elements itself.
LEMMA SegmentHasLowest ==
  ASSUME NEW R, NEW S, IsFiniteSet(S), Orders(R, S), NEW n \in Nat,
         NEW U \in SUBSET S, \A u \in U, y \in S : <<y, u>> \in R => y \in U,
         n <= Cardinality(U)
  PROVE  Lowest(R, n, S) \subseteq U /\ n <= Cardinality(Lowest(R, n, S))
<1> DEFINE L == Lowest(R, n, S)
<1>1. IsFiniteSet(U) /\ Cardinality(U) \in Nat /\ Cardinality(S) \in Nat
      /\ Cardinality(U) <= Cardinality(S)
      BY FS_Subset, FS_CardinalityType
<1>2. ASSUME NEW y \in L, y \notin U PROVE FALSE
      <2>1. y \in S /\ Cardinality(Under(R, S, y)) < n
            BY DEF Lowest
      <2>2. U \in SUBSET Under(R, S, y)
            BY <1>2, <2>1 DEF Under, Orders
      <2>3. IsFiniteSet(Under(R, S, y)) /\ Cardinality(Under(R, S, y)) \in Nat
            BY <2>1, UnderFacts
      <2>4. Cardinality(U) <= Cardinality(Under(R, S, y))
            BY <2>2, <2>3, FS_Subset
      <2> QED
          BY <1>1, <2>1, <2>3, <2>4
<1>3. n <= Cardinality(L)
      <2> DEFINE f == [x \in L |-> Cardinality(Under(R, S, x))]
      <2>1. L \in SUBSET S /\ IsFiniteSet(L)
            BY FS_Subset DEF Lowest
      <2>2. f \in [L -> 0..(n - 1)]
            <3>1. ASSUME NEW x \in L PROVE Cardinality(Under(R, S, x)) \in 0..(n - 1)
                  <4>1. Cardinality(Under(R, S, x)) < n
                        BY DEF Lowest
                  <4>2. Cardinality(Under(R, S, x)) \in Nat
                        BY <2>1, UnderFacts
                  <4> QED
                      BY <4>1, <4>2
            <3> QED
                BY <3>1
      <2>3. ASSUME NEW k \in 0..(n - 1) PROVE \E x \in L : f[x] = k
            <3>1. k \in 0..(Cardinality(S) - 1)
                  BY <1>1
            <3>2. PICK x \in S : Cardinality(Under(R, S, x)) = k
                  BY <3>1, RanksHaveNoGap
            <3>3. x \in L
                  BY <3>2 DEF Lowest
            <3> QED
                BY <3>2, <3>3
      <2>4. f \in Surjection(L, 0..(n - 1))
            BY <2>2, <2>3 DEF Surjection
      <2>5. Cardinality(0..(n - 1)) = n
            <3>1. 0 \in Int /\ n - 1 \in Int
                  OBVIOUS
            <3> QED
                BY <3>1, FS_Interval
      <2> QED
          BY <2>1, <2>4, <2>5, FS_Surjection
<1> QED
    BY <1>2, <1>3

-----------------------------------------------------------------------------
(* The keyset lists.                                                       *)

ListTypes ==
  /\ clock \in Nat /\ key \in [Items -> Nat] /\ writing \in [Items -> Nat]
  /\ lpc \in {"first", "idle", "query", "end", "gone"}
  /\ after \in Nat \X Nat /\ listed \in [Items -> Nat] /\ expected \subseteq Members
  /\ IsFiniteSet(Members)

\* A write that is open has a later time than everything that was committed
\* when it started; a comment is written once.
Timed ==
  /\ after[1] < clock
  /\ \A i \in Items :
       /\ key[i] < clock /\ writing[i] <= clock
       /\ writing[i] # 0 => key[i] < writing[i]
       /\ list = "comments" /\ key[i] # 0 => writing[i] = 0

\* The cursor is the position of an item; a comment keeps it.
CursorIsItem ==
  /\ after # NoPosition => after[1] # 0
  /\ list = "comments" /\ after # NoPosition => \E m \in Members : after = Pos(m)

\* What was returned is not beyond the cursor, and will not come to lie there.
Returned ==
  \A i \in Items : listed[i] # 0 =>
    /\ list = "comments" => key[i] # 0
    /\ lpc # "end" =>
         /\ after # NoPosition
         /\ key[i] # 0 => ~Precedes(after, Pos(i))
         /\ list # "comments" /\ writing[i] # 0 => after[1] < writing[i]

\* What a comment's reader has not got yet lies beyond the cursor.
Ahead ==
  \A i \in Members \ late :
    list = "comments" /\ listed[i] = 0 /\ lpc # "end" /\ after # NoPosition =>
      Precedes(after, Pos(i))

\* A reply is later than the comment it answers.
Threaded ==
  list = "comments" => \A i \in Items : Parent[i] # 0 =>
    /\ key[i] # 0 => Parent[i] \in Members /\ key[Parent[i]] < key[i]
    /\ writing[i] # 0 => Parent[i] \in Members /\ key[Parent[i]] < writing[i]

ListInv ==
  /\ ListTypes /\ Timed /\ CursorIsItem /\ Returned /\ Ahead /\ Threaded
  /\ ListedOnce /\ RepliesFollow

\* (time, id) is a strict linear order, in either direction.
LEMMA PrecedesIsLinear ==
  ASSUME NEW a \in Nat \X Nat, NEW b \in Nat \X Nat, NEW c \in Nat \X Nat
  PROVE  /\ ~Precedes(a, a)
         /\ a = b \/ Precedes(a, b) \/ Precedes(b, a)
         /\ Precedes(a, b) /\ Precedes(b, c) => Precedes(a, c)
<1>1. a = <<a[1], a[2]>> /\ b = <<b[1], b[2]>>
      OBVIOUS
<1>2. a[1] \in Nat /\ a[2] \in Nat /\ b[1] \in Nat /\ b[2] \in Nat /\ c[1] \in Nat /\ c[2] \in Nat
      OBVIOUS
<1> QED
    BY <1>1, <1>2 DEF Precedes, Lower

LEMMA PosFacts ==
  ASSUME ListTypes, NEW i \in Items
  PROVE  /\ Pos(i) \in Nat \X Nat /\ Pos(i)[1] = key[i] /\ Pos(i)[2] = i
         /\ key[i] \in Nat /\ i \in Nat /\ i # 0
  BY ItemsAssumption DEF ItemsAssumption, ListTypes, Pos

\* The two cuts of a query, over what lies beyond the cursor.
LEMMA PageFacts ==
  ASSUME ListTypes, NEW S, S = Behind(after),
         NEW got, got = First(PageSize + 1, S), NEW items, items = First(PageSize, got)
  PROVE  /\ items \subseteq S /\ S \subseteq Members
         /\ \A i \in items, j \in S : Precedes(Pos(j), Pos(i)) => j \in items
         /\ got = items => items = S
<1> DEFINE R == {r \in Items \X Items : Precedes(Pos(r[1]), Pos(r[2]))}
<1>1. S \subseteq Members /\ S \subseteq Items /\ IsFiniteSet(S)
      <2>1. S \subseteq Members /\ S \subseteq Items
            BY DEF Behind, Members
      <2> QED
          BY <2>1, FS_Subset DEF ListTypes
<1>2. \A i, j \in Items : <<i, j>> \in R <=> Precedes(Pos(i), Pos(j))
      OBVIOUS
<1> HIDE DEF R
<1>3. Orders(R, S)
      <2>1. \A i, j \in Items : Pos(i) = Pos(j) => i = j
            BY PosFacts
      <2> QED
          BY <1>1, <1>2, <2>1, PosFacts, PrecedesIsLinear DEF Orders
<1>4. ASSUME NEW T \in SUBSET S, NEW n PROVE First(n, T) = Lowest(R, n, T)
      <2>1. ASSUME NEW i \in T
            PROVE  {j \in T : Precedes(Pos(j), Pos(i))} = Under(R, T, i)
            BY <1>1, <1>2 DEF Under
      <2> QED
          BY <2>1 DEF First, Lowest
<1>5. got = Lowest(R, PageSize + 1, S)
      BY <1>4
<1>6. got \subseteq S
      BY <1>5 DEF Lowest
<1>7. items = Lowest(R, PageSize, got)
      BY <1>4, <1>6
<1>8. IsFiniteSet(got) /\ Orders(R, got)
      BY <1>1, <1>3, <1>6, FS_Subset DEF Orders
<1>9. PageSize \in Nat /\ PageSize + 1 \in Nat
      BY ItemsAssumption DEF ItemsAssumption
<1>10. items \subseteq got
       BY <1>7 DEF Lowest
<1>11. ASSUME NEW i \in items, NEW j \in S, Precedes(Pos(j), Pos(i)) PROVE j \in items
       <2>1. <<j, i>> \in R /\ i \in got
             BY <1>1, <1>2, <1>6, <1>10, <1>11
       <2>2. j \in got
             BY <1>1, <1>3, <1>5, <1>9, <2>1, LowestFacts
       <2> QED
           BY <1>7, <1>8, <1>9, <2>1, <2>2, LowestFacts
<1>12. got = items => items = S
       BY <1>1, <1>3, <1>5, <1>7, <1>9, Exhausted
<1> QED
    BY <1>1, <1>6, <1>10, <1>11, <1>12

LEMMA ListStart == ListInit => ListInv
<1> SUFFICES ASSUME ListInit PROVE ListInv
    OBVIOUS
<1>1. Members = {} /\ IsFiniteSet(Members)
      BY FS_EmptySet DEF ListInit, Members
<1>2. ListTypes
      BY <1>1 DEF ListInit, ListTypes, NoPosition
<1>3. Timed /\ CursorIsItem
      BY DEF ListInit, Timed, CursorIsItem, NoPosition
<1>4. Returned /\ Ahead /\ Threaded
      BY <1>1 DEF ListInit, Returned, Ahead, Threaded
<1>5. ListedOnce /\ RepliesFollow
      BY DEF ListInit, ListedOnce, RepliesFollow
<1> QED
    BY <1>2, <1>3, <1>4, <1>5 DEF ListInv

\* A page: what it returns is new, and what it leaves out lies beyond the next
\* cursor.
LEMMA PageStep == ListInv /\ QueryPage => ListInv'
<1> SUFFICES ASSUME ListInv, QueryPage PROVE ListInv'
    OBVIOUS
<1> DEFINE S == Behind(after)
           got == First(PageSize + 1, S)
           items == First(PageSize, got)
<1>i. ListTypes /\ Timed /\ CursorIsItem /\ Returned /\ Ahead /\ Threaded /\ ListedOnce /\ RepliesFollow
      BY DEF ListInv
<1>1. /\ items \subseteq S /\ S \subseteq Members
      /\ \A i \in items, j \in S : Precedes(Pos(j), Pos(i)) => j \in items
      /\ got = items => items = S
      BY <1>i, PageFacts
<1>2. /\ lpc = "query" /\ UNCHANGED <<list, live, clock, key, writing, late>>
      /\ listed' = [i \in Items |-> IF i \in items THEN listed[i] + 1 ELSE listed[i]]
      /\ expected' = IF list = "comments" THEN expected \cup (Members \ late)
                     ELSE IF after = NoPosition THEN Members ELSE expected
      BY DEF QueryPage, contentVars
<1>3. \/ got = items /\ lpc' = "end" /\ after' = after
      \/ /\ lpc' = "idle"
         /\ \E l \in items : /\ \A j \in items : j = l \/ Precedes(Pos(j), Pos(l))
                             /\ after' = Pos(l)
      BY DEF QueryPage
<1>4. \A i \in S : i \in Members /\ (after # NoPosition => Precedes(after, Pos(i)))
      BY DEF Behind
<1>5. \A i \in Members : (after # NoPosition => Precedes(after, Pos(i))) => i \in S
      BY DEF Behind
<1>6. Members \subseteq Items /\ \A i \in Members : key[i] # 0
      BY DEF Members
<1> HIDE DEF S, got, items
<1>7. \A i \in items : listed[i] = 0 /\ i \in Items /\ key[i] # 0
      BY <1>i, <1>1, <1>2, <1>4, <1>6 DEF Returned
<1>8. \A i \in Items : listed[i] \in Nat /\ Pos(i) \in Nat \X Nat /\ after \in Nat \X Nat
      BY <1>i, PosFacts DEF ListTypes
<1>9. /\ \A i : Pos(i)' = Pos(i)
      /\ \A a, b : Precedes(a, b)' <=> Precedes(a, b)
      /\ Members' = Members
      BY <1>2 DEF Pos, Precedes, Lower, Members
\* Who was expected, or comes to be, and is not on the page lies beyond it.
<1>10. ASSUME NEW i \in expected', listed'[i] = 0
       PROVE  i \in S /\ i \notin items
       <2>1. i \in Members /\ i \in Items
             BY <1>i, <1>2, <1>6, <1>10 DEF ListTypes
       <2>2. listed[i] = 0 /\ i \notin items
             BY <1>2, <1>8, <1>10, <2>1
       <2>3. after # NoPosition => Precedes(after, Pos(i))
             BY <1>i, <1>2, <1>10, <2>1, <2>2 DEF ListedOnce, Ahead
       <2> QED
           BY <1>5, <2>1, <2>2, <2>3
<1>11. ASSUME NEW l \in items, \A j \in items : j = l \/ Precedes(Pos(j), Pos(l)),
              NEW i \in S, i \notin items
       PROVE  Precedes(Pos(l), Pos(i))
       <2>1. ~Precedes(Pos(i), Pos(l)) /\ i # l /\ i \in Items /\ l \in Items
             BY <1>1, <1>6, <1>7, <1>11
       <2>2. Pos(i) # Pos(l)
             BY <1>i, <2>1, PosFacts
       <2> QED
           BY <1>8, <2>1, <2>2, PrecedesIsLinear
<1>12. ListTypes'
       <2>1. listed' \in [Items -> Nat]
             BY <1>2, <1>8
       <2>2. after' \in Nat \X Nat /\ lpc' \in {"first", "idle", "query", "end", "gone"}
             BY <1>i, <1>3, <1>7, <1>8 DEF ListTypes
       <2>3. expected' \subseteq Members
             BY <1>i, <1>2 DEF ListTypes
       <2> QED
           BY <1>i, <1>2, <1>9, <2>1, <2>2, <2>3 DEF ListTypes
<1>13. Timed'
       <2>1. after'[1] < clock
             <3>1. \A l \in items : Pos(l)[1] < clock
                   BY <1>i, <1>7, PosFacts DEF Timed
             <3>2. after[1] < clock
                   BY <1>i DEF Timed
             <3> QED
                 BY <1>3, <3>1, <3>2
       <2> QED
           BY <1>i, <1>2, <2>1 DEF Timed
<1>14. CursorIsItem'
       <2>1. CASE after' = after
             BY <1>i, <1>2, <1>9, <2>1 DEF CursorIsItem, NoPosition
       <2>2. ASSUME NEW l \in items, after' = Pos(l) PROVE CursorIsItem'
             <3>1. l \in Members /\ after'[1] # 0
                   BY <1>i, <1>1, <1>7, <2>2, PosFacts
             <3> QED
                 BY <1>9, <2>2, <3>1 DEF CursorIsItem, NoPosition
       <2> QED
           BY <1>3, <2>1, <2>2
<1>15. Returned'
       <2>1. ASSUME NEW i \in Items, listed'[i] # 0
             PROVE  listed[i] # 0 \/ i \in items
             BY <1>2, <2>1
       <2>2. ASSUME NEW i \in Items, listed'[i] # 0, list = "comments" PROVE key[i] # 0
             BY <1>i, <1>7, <2>1, <2>2 DEF Returned
       <2>3. ASSUME NEW i \in Items, listed'[i] # 0, lpc' # "end"
             PROVE  /\ after' # NoPosition
                    /\ key[i] # 0 => ~Precedes(after', Pos(i))
                    /\ list # "comments" /\ writing[i] # 0 => after'[1] < writing[i]
             <3>1. PICK l \in items : /\ \A j \in items : j = l \/ Precedes(Pos(j), Pos(l))
                                      /\ after' = Pos(l)
                   BY <1>3, <2>3
             <3>2. l \in S /\ l \in Items /\ key[l] # 0 /\ Pos(l)[1] = key[l] /\ key[l] \in Nat
                   BY <1>i, <1>1, <1>7, PosFacts
             <3>3. after' # NoPosition
                   BY <3>1, <3>2 DEF NoPosition
             <3>4. CASE i \in items
                   <4>1. ~Precedes(Pos(l), Pos(i))
                         BY <1>8, <3>1, <3>2, <3>4, PrecedesIsLinear
                   <4>2. list # "comments" => key[l] <= key[i]
                         <5>1. i = l \/ Precedes(Pos(i), Pos(l))
                               BY <3>1, <3>4
                         <5>2. Pos(i)[1] = key[i] /\ key[i] \in Nat
                               BY <1>i, PosFacts
                         <5> QED
                             BY <3>2, <5>1, <5>2 DEF Precedes, Lower
                   <4>3. writing[i] # 0 => key[i] < writing[i]
                         BY <1>i DEF Timed
                   <4>4. key[i] \in Nat /\ writing[i] \in Nat
                         BY <1>i DEF ListTypes
                   <4> QED
                       BY <3>1, <3>2, <3>3, <4>1, <4>2, <4>3, <4>4
             <3>5. CASE i \notin items
                   <4>1. /\ after # NoPosition /\ (key[i] # 0 => ~Precedes(after, Pos(i)))
                         /\ list # "comments" /\ writing[i] # 0 => after[1] < writing[i]
                         BY <1>i, <1>2, <2>1, <2>3, <3>5 DEF Returned
                   <4>2. Precedes(after, Pos(l))
                         BY <1>4, <3>2, <4>1
                   <4>3. Precedes(Pos(l), Pos(i)) => Precedes(after, Pos(i))
                         BY <1>8, <3>2, <4>2, PrecedesIsLinear
                   <4>4. list # "comments" => key[l] <= after[1]
                         <5>1. after[1] \in Nat
                               BY <1>8
                         <5> QED
                             BY <3>2, <4>2, <5>1 DEF Precedes, Lower
                   <4>5. after[1] \in Nat /\ writing[i] \in Nat
                         BY <1>i, <1>8 DEF ListTypes
                   <4> QED
                       BY <3>1, <3>2, <3>3, <4>1, <4>3, <4>4, <4>5
             <3> QED
                 BY <3>4, <3>5
       <2> QED
           BY <1>2, <1>9, <2>2, <2>3 DEF Returned
<1>16. Ahead'
       <2> SUFFICES ASSUME NEW i \in Members \ late, list = "comments", listed'[i] = 0,
                           lpc' # "end", after' # NoPosition
                    PROVE  Precedes(after', Pos(i))
           BY <1>2, <1>9 DEF Ahead, NoPosition
       <2>1. i \in expected'
             BY <1>2
       <2> QED
           BY <1>3, <1>10, <1>11, <2>1
<1>17. ListedOnce'
       <2>1. \A i \in Items : listed'[i] <= 1
             BY <1>i, <1>2, <1>7, <1>8 DEF ListedOnce
       <2>2. ASSUME NEW i \in expected', listed'[i] = 0
             PROVE  lpc' # "end" /\ (after' # NoPosition => Precedes(after', Pos(i)))
             BY <1>1, <1>3, <1>10, <1>11, <2>2
       <2> QED
           BY <1>9, <2>1, <2>2 DEF ListedOnce, NoPosition
<1>18. RepliesFollow'
       <2> SUFFICES ASSUME list = "comments", NEW i \in Items, listed'[i] > 0, Parent[i] # 0
                    PROVE  /\ Lower(Pos(Parent[i]), Pos(i))
                           /\ listed'[Parent[i]] > 0 \/ Parent[i] \in late
           BY <1>2, <1>9 DEF RepliesFollow, Lower
       <2>0. Parent[i] \in Items
             BY ItemsAssumption DEF ItemsAssumption
       <2>1. CASE listed[i] > 0
             <3>1. /\ Lower(Pos(Parent[i]), Pos(i))
                   /\ listed[Parent[i]] > 0 \/ Parent[i] \in late
                   BY <1>i, <2>1 DEF RepliesFollow
             <3> QED
                 BY <1>2, <1>8, <2>0, <3>1
       <2>2. CASE i \in items
             <3>1. Parent[i] \in Members /\ key[Parent[i]] < key[i]
                   BY <1>i, <1>7, <2>2 DEF Threaded
             <3>2. Lower(Pos(Parent[i]), Pos(i))
                   BY <1>i, <2>0, <3>1, PosFacts DEF Lower
             <3>3. CASE Parent[i] \in late \/ listed[Parent[i]] > 0
                   BY <1>2, <1>8, <2>0, <3>2, <3>3
             <3>4. CASE Parent[i] \notin late /\ ~(listed[Parent[i]] > 0)
                   <4>1. listed[Parent[i]] = 0
                         BY <1>8, <2>0, <3>4
                   <4>2. after # NoPosition => Precedes(after, Pos(Parent[i]))
                         BY <1>i, <1>2, <3>1, <3>4, <4>1 DEF Ahead
                   <4>3. Parent[i] \in items
                         BY <1>1, <1>5, <2>2, <3>1, <3>2, <4>2 DEF Precedes
                   <4> QED
                       BY <1>2, <1>8, <2>0, <3>2, <4>1, <4>3
             <3> QED
                 BY <3>3, <3>4
       <2> QED
           BY <1>2, <1>8, <2>1, <2>2
<1>19. Threaded'
       BY <1>i, <1>2, <1>9 DEF Threaded
<1> QED
    BY <1>12, <1>13, <1>14, <1>15, <1>16, <1>17, <1>18, <1>19 DEF ListInv

\* A write starts, is rolled back, or the post is deleted or looked up.
LEMMA QuietStep ==
  ASSUME ListInv,
         \/ \E i \in Items : StartWrite(i) \/ Rollback(i)
         \/ HidePost \/ CheckPost \/ UNCHANGED listVars
  PROVE  ListInv'
<1>i. ListTypes /\ Timed /\ CursorIsItem /\ Returned /\ Ahead /\ Threaded /\ ListedOnce /\ RepliesFollow
      BY DEF ListInv
<1>1. UNCHANGED <<list, clock, key, late, after, listed, expected>>
      BY DEF StartWrite, Rollback, HidePost, CheckPost, clientVars, contentVars, listVars
<1>2. lpc' \in {"first", "idle", "query", "end", "gone"} /\ (lpc' = "end" <=> lpc = "end")
      BY <1>i DEF StartWrite, Rollback, HidePost, CheckPost, clientVars, listVars, ListTypes
<1>3. /\ \A j : Pos(j)' = Pos(j)
      /\ \A a, b : Precedes(a, b)' <=> Precedes(a, b)
      /\ Members' = Members
      BY <1>1 DEF Pos, Precedes, Lower, Members
<1>4. /\ writing' \in [Items -> Nat]
      /\ \A j \in Items :
           \/ writing'[j] = writing[j] \/ writing'[j] = 0
           \/ /\ writing'[j] = clock
              /\ list = "comments" => key[j] = 0 /\ (Parent[j] = 0 \/ Parent[j] \in Members)
      BY <1>i DEF StartWrite, Rollback, HidePost, CheckPost, contentVars, listVars, ListTypes
<1>5. ListTypes'
      BY <1>i, <1>1, <1>2, <1>3, <1>4 DEF ListTypes
<1>6. Timed'
      <2> SUFFICES ASSUME NEW j \in Items
                   PROVE  /\ writing'[j] <= clock /\ (writing'[j] # 0 => key[j] < writing'[j])
                          /\ list = "comments" /\ key[j] # 0 => writing'[j] = 0
          BY <1>i, <1>1 DEF Timed
      <2>1. key[j] < clock /\ clock \in Nat /\ key[j] \in Nat /\ writing[j] <= clock
            BY <1>i DEF Timed, ListTypes
      <2> QED
          BY <1>i, <1>4, <2>1 DEF Timed
<1>7. CursorIsItem'
      BY <1>i, <1>1, <1>3 DEF CursorIsItem, NoPosition
<1>8. Returned'
      <2> SUFFICES ASSUME NEW j \in Items, listed[j] # 0, lpc # "end", list # "comments",
                          writing'[j] # 0
                   PROVE  after[1] < writing'[j]
          BY <1>i, <1>1, <1>2, <1>3 DEF Returned, NoPosition
      <2> QED
          BY <1>i, <1>4 DEF Returned, Timed
<1>9. Ahead'
      BY <1>i, <1>1, <1>2, <1>3 DEF Ahead, NoPosition
<1>10. Threaded'
       <2> SUFFICES ASSUME list = "comments", NEW j \in Items, Parent[j] # 0, writing'[j] # 0
                    PROVE  Parent[j] \in Members /\ key[Parent[j]] < writing'[j]
           BY <1>i, <1>1, <1>3 DEF Threaded
       <2>1. Parent[j] \in Items
             BY ItemsAssumption DEF ItemsAssumption
       <2> QED
           BY <1>i, <1>4, <2>1 DEF Threaded, Timed
<1>11. ListedOnce' /\ RepliesFollow'
       BY <1>i, <1>1, <1>2, <1>3 DEF ListedOnce, RepliesFollow, NoPosition, Lower
<1> QED
    BY <1>5, <1>6, <1>7, <1>8, <1>9, <1>10, <1>11 DEF ListInv

\* A write becomes visible: above all that was returned or, for a comment that
\* is not late, beyond every other one.
LEMMA CommitStep ==
  ASSUME ListInv, NEW i \in Items, Commit(i)
  PROVE  ListInv'
<1>i. ListTypes /\ Timed /\ CursorIsItem /\ Returned /\ Ahead /\ Threaded /\ ListedOnce /\ RepliesFollow
      BY DEF ListInv
<1>1. /\ writing[i] # 0 /\ UNCHANGED <<list, lpc, after, listed>> /\ clock' = clock + 1
      /\ key' = [key EXCEPT ![i] = writing[i]] /\ writing' = [writing EXCEPT ![i] = 0]
      /\ expected' = expected \ {i}
      BY DEF Commit
<1>2. late' = IF \E j \in Members : Lower(<<writing[i], i>>, Pos(j)) THEN late \cup {i} ELSE late
      BY DEF Commit
<1>3. /\ key'[i] = writing[i] /\ writing'[i] = 0
      /\ \A j \in Items : j # i => key'[j] = key[j] /\ writing'[j] = writing[j]
      /\ key' \in [Items -> Nat] /\ writing' \in [Items -> Nat]
      BY <1>i, <1>1 DEF ListTypes
<1>4. /\ Members' = Members \cup {i} /\ IsFiniteSet(Members')
      <2>1. Members' = Members \cup {i}
            BY <1>1, <1>3 DEF Members
      <2> QED
          BY <1>i, <2>1, FS_AddElement DEF ListTypes
<1>5. /\ clock \in Nat /\ after[1] \in Nat /\ after \in Nat \X Nat /\ key[i] \in Nat /\ writing[i] \in Nat
      BY <1>i DEF ListTypes
<1>6. ASSUME NEW j \in Items, j # i
      PROVE  /\ Pos(j)' = Pos(j)
             /\ Precedes(after, Pos(j))' <=> Precedes(after, Pos(j))
      BY <1>1, <1>3, <1>6 DEF Pos, Precedes, Lower
<1>7. ListTypes'
      <2>1. expected' \subseteq Members'
            BY <1>i, <1>1, <1>4 DEF ListTypes
      <2> QED
          BY <1>i, <1>1, <1>3, <1>4, <1>5, <2>1 DEF ListTypes
<1>8. Timed'
      <2>1. after[1] < clock /\ writing[i] <= clock
            BY <1>i DEF Timed
      <2>2. after'[1] < clock' /\ key'[i] < clock' /\ writing'[i] <= clock'
            BY <1>1, <1>3, <1>5, <2>1
      <2>3. ASSUME NEW j \in Items, j # i
            PROVE  /\ key[j] < clock + 1 /\ writing[j] <= clock + 1
                   /\ writing[j] # 0 => key[j] < writing[j]
                   /\ list = "comments" /\ key[j] # 0 => writing[j] = 0
            <3>1. key[j] \in Nat /\ writing[j] \in Nat
                  BY <1>i DEF ListTypes
            <3> QED
                BY <1>i, <1>5, <3>1 DEF Timed
      <2> QED
          BY <1>1, <1>3, <2>2, <2>3 DEF Timed
<1>9. list = "comments" => key[i] = 0 /\ i \notin Members /\ listed[i] = 0
      BY <1>i, <1>1 DEF Timed, Members, Returned
<1>10. CursorIsItem'
       <2> SUFFICES ASSUME list = "comments", after # NoPosition
                    PROVE  \E m \in Members' : after' = Pos(m)'
           BY <1>i, <1>1 DEF CursorIsItem, NoPosition
       <2>1. PICK m \in Members : after = Pos(m)
             BY <1>i DEF CursorIsItem
       <2>2. m # i /\ m \in Items
             BY <1>9 DEF Members
       <2> QED
           BY <1>1, <1>4, <1>6, <2>1, <2>2
<1>11. Returned'
       <2>1. ASSUME NEW j \in Items, j # i, listed[j] # 0
             PROVE  /\ list = "comments" => key[j] # 0
                    /\ lpc # "end" =>
                         /\ after # NoPosition
                         /\ key[j] # 0 => ~Precedes(after, Pos(j))
                         /\ list # "comments" /\ writing[j] # 0 => after[1] < writing[j]
             BY <1>i, <2>1 DEF Returned
       <2>2. ASSUME listed[i] # 0
             PROVE  /\ list # "comments"
                    /\ lpc # "end" => after # NoPosition /\ ~Precedes(after, Pos(i))'
             <3>1. lpc # "end" => after # NoPosition /\ after[1] < writing[i]
                   BY <1>i, <1>1, <1>9, <2>2 DEF Returned
             <3>2. Pos(i)'[1] = writing[i]
                   BY <1>3 DEF Pos
             <3>3. after[1] < writing[i] /\ list # "comments" => ~Precedes(after, Pos(i))'
                   BY <1>1, <1>5, <3>2 DEF Precedes, Lower
             <3> QED
                 BY <1>9, <2>2, <3>1, <3>3
       <2> QED
           BY <1>1, <1>3, <1>6, <2>1, <2>2 DEF Returned, NoPosition
<1>12. Ahead'
       <2> SUFFICES ASSUME NEW j \in Members' \ late', list = "comments", listed[j] = 0, lpc # "end",
                           after # NoPosition
                    PROVE  Precedes(after, Pos(j))'
           BY <1>1 DEF Ahead, NoPosition
       <2>1. CASE j # i
             <3>1. j \in Members \ late /\ j \in Items
                   BY <1>2, <1>4, <2>1 DEF Members
             <3> QED
                 BY <1>i, <1>6, <2>1, <3>1 DEF Ahead
       <2>2. CASE j = i
             <3>1. PICK m \in Members : after = Pos(m)
                   BY <1>i DEF CursorIsItem
             <3>2. ~Lower(<<writing[i], i>>, Pos(m)) /\ m # i /\ m \in Items
                   BY <1>2, <1>9, <2>2 DEF Members
             <3>3. Pos(m) = <<key[m], m>> /\ Pos(i)' = <<writing[i], i>>
                   BY <1>3 DEF Pos
             <3>4. key[m] \in Nat /\ m \in Nat /\ i \in Nat
                   BY <1>i, <3>2, PosFacts
             <3>5. Lower(<<key[m], m>>, <<writing[i], i>>)
                   BY <1>5, <3>2, <3>3, <3>4 DEF Lower
             <3>6. after' = <<key[m], m>> /\ list' = "comments"
                   BY <1>1, <3>1, <3>3
             <3> QED
                 BY <2>2, <3>3, <3>5, <3>6 DEF Precedes, Lower
       <2> QED
           BY <2>1, <2>2
<1>13. Threaded'
       <2> SUFFICES ASSUME list = "comments", NEW j \in Items, Parent[j] # 0
                    PROVE  /\ key'[j] # 0 => Parent[j] \in Members' /\ key'[Parent[j]] < key'[j]
                           /\ writing'[j] # 0 => Parent[j] \in Members' /\ key'[Parent[j]] < writing'[j]
           BY <1>1 DEF Threaded
       <2>1. Parent[j] \in Items
             BY ItemsAssumption DEF ItemsAssumption
       <2>2. Parent[j] \in Members => Parent[j] # i /\ key'[Parent[j]] = key[Parent[j]]
             BY <1>3, <1>9, <2>1
       <2>3. /\ key[j] # 0 => Parent[j] \in Members /\ key[Parent[j]] < key[j]
             /\ writing[j] # 0 => Parent[j] \in Members /\ key[Parent[j]] < writing[j]
             BY <1>i DEF Threaded
       <2>4. CASE j = i
             BY <1>1, <1>3, <1>4, <2>2, <2>3, <2>4
       <2>5. CASE j # i
             BY <1>3, <1>4, <2>2, <2>3, <2>5
       <2> QED
           BY <2>4, <2>5
<1>14. ListedOnce'
       <2>1. ASSUME NEW j \in Items, j \in expected, j # i, listed[j] = 0
             PROVE  lpc # "end" /\ (after # NoPosition => Precedes(after, Pos(j))')
             BY <1>i, <1>6, <2>1 DEF ListedOnce
       <2> QED
           BY <1>i, <1>1, <2>1 DEF ListedOnce, NoPosition
<1>15. RepliesFollow'
       <2> SUFFICES ASSUME list = "comments", NEW j \in Items, listed[j] > 0, Parent[j] # 0
                    PROVE  /\ Lower(Pos(Parent[j]), Pos(j))'
                           /\ listed[Parent[j]] > 0 \/ Parent[j] \in late'
           BY <1>1 DEF RepliesFollow
       <2>1. /\ Lower(Pos(Parent[j]), Pos(j))
             /\ listed[Parent[j]] > 0 \/ Parent[j] \in late
             BY <1>i DEF RepliesFollow
       <2>2. j # i /\ key[j] # 0
             BY <1>i, <1>9 DEF Returned
       <2>3. Parent[j] \in Members /\ Parent[j] # i /\ Parent[j] \in Items
             BY <1>i, <1>9, <2>2 DEF Threaded, Members
       <2>4. Pos(Parent[j])' = Pos(Parent[j]) /\ Pos(j)' = Pos(j)
             BY <1>6, <2>2, <2>3
       <2> QED
           BY <1>2, <2>1, <2>4 DEF Lower
<1> QED
    BY <1>7, <1>8, <1>10, <1>11, <1>12, <1>13, <1>14, <1>15 DEF ListInv

\* Who is no longer followed leaves the list.
LEMMA RemoveStep ==
  ASSUME ListInv, NEW i \in Items, RemoveFollow(i)
  PROVE  ListInv'
<1>i. ListTypes /\ Timed /\ CursorIsItem /\ Returned /\ Ahead /\ Threaded /\ ListedOnce /\ RepliesFollow
      BY DEF ListInv
<1>1. /\ list = "follows" /\ UNCHANGED <<list, clock, writing, late, lpc, after, listed>>
      /\ key' = [key EXCEPT ![i] = 0] /\ expected' = expected \ {i}
      BY DEF RemoveFollow
<1>2. /\ key'[i] = 0 /\ \A j \in Items : j # i => key'[j] = key[j]
      /\ key' \in [Items -> Nat]
      BY <1>i, <1>1 DEF ListTypes
<1>3. Members' = Members \ {i} /\ IsFiniteSet(Members')
      <2>1. Members' = Members \ {i} /\ Members' \in SUBSET Members
            BY <1>2 DEF Members
      <2> QED
          BY <1>i, <2>1, FS_Subset DEF ListTypes
<1>4. ASSUME NEW j \in Items, j # i
      PROVE  Precedes(after, Pos(j))' <=> Precedes(after, Pos(j))
      BY <1>1, <1>2, <1>4 DEF Pos, Precedes, Lower
<1>5. ListTypes'
      BY <1>i, <1>1, <1>2, <1>3 DEF ListTypes
<1>6. Timed'
      <2> SUFFICES ASSUME NEW j \in Items
                   PROVE  key'[j] < clock /\ (writing[j] # 0 => key'[j] < writing[j])
          BY <1>i, <1>1 DEF Timed
      <2>1. key[j] \in Nat /\ writing[j] \in Nat /\ clock \in Nat
            BY <1>i DEF ListTypes
      <2> QED
          BY <1>i, <1>2, <2>1 DEF Timed
<1>7. CursorIsItem' /\ Ahead' /\ Threaded' /\ RepliesFollow'
      BY <1>i, <1>1 DEF CursorIsItem, Ahead, Threaded, RepliesFollow, NoPosition
<1>8. Returned'
      BY <1>i, <1>1, <1>2, <1>4 DEF Returned, NoPosition
<1>9. ListedOnce'
      BY <1>i, <1>1, <1>4 DEF ListedOnce, NoPosition
<1> QED
    BY <1>5, <1>6, <1>7, <1>8, <1>9 DEF ListInv

LEMMA ListStep == ListInv /\ [ListNext]_listVars => ListInv'
  BY QuietStep, CommitStep, RemoveStep, PageStep DEF ListNext

\* The keyset lists return nothing twice and, once the cursor is past it or the
\* list is over, everything the client has a right to see: ListComments,
\* Followers, Following and ListConversations, whatever is written meanwhile.
THEOREM ListedOnceHolds == ListSpec => []ListedOnce
<1>1. ListInv => ListedOnce
      BY DEF ListInv
<1> QED
    BY <1>1, ListStart, ListStep, PTL DEF ListSpec

\* A reply is returned with or after the comment it answers, unless that one
\* became visible late.
THEOREM RepliesFollowHolds == ListSpec => []RepliesFollow
<1>1. ListInv => RepliesFollow
      BY DEF ListInv
<1> QED
    BY <1>1, ListStart, ListStep, PTL DEF ListSpec
-----------------------------------------------------------------------------
(* The home feed skips nothing.                                            *)

\* A post that is pushed while the reader pages has a created_at, which no other
\* post has and the worker's clock did not give to one, and its author is not one
\* whose posts are also pulled.  (Otherwise a push between ZCOUNT and ZRANGE
\* takes a place in the window: redis.go:108-125.)
LateApart ==
  \A p \in Late : /\ Author[p] \notin Stars /\ At[p] # 0 /\ At[p] \notin Nows
                  /\ \A q \in Posts : At[q] = At[p] => q = p

Created == {p \in Posts : row[p] # "none"}

\* n members of S come before x.
Many(n, S, x) == n <= Cardinality({y \in S : Newer(y, x)})

\* The next page is to begin above x.
Below(x) == IsSet(cur) => Newer(cur, x)

StoreTypes ==
  /\ pc \in {"new", "idle", "count", "range", "celebs", "pull", "load", "end"}
  /\ pc = "new" => cur = NoCursor /\ owed = {} /\ pushed = {}
  /\ row \in [Posts -> {"none", "live", "deleted"}]
  /\ IsFiniteSet(Created) /\ IsFiniteSet(feed) /\ IsFiniteSet(pushed) /\ IsFiniteSet(pulled)
  /\ celebrity \subseteq Stars /\ celebs \subseteq Stars
  /\ \A x \in pulled : Author[x[2]] \in Stars
  /\ \A x \in pushed \cup pulled : Below(x)

\* A post that is owed can be found in the feed or with its author.
OwedIsVisible == owed \subseteq Visible(row, feed, celebrity)

\* What left the feed has been trimmed, and stays out.
Trimmed(x) == x \in feed \/ Many(MaxFeedLen, feed, x)

ReadIsTrimmed ==
  /\ \A x \in pushed : Trimmed(x)
  /\ cur \in Scored /\ cur[2] \in Late => Trimmed(cur)

\* The window has room for everything of the cursor's second.
TiesCounted ==
  /\ ties \in Nat
  /\ pc = "range" /\ IsSet(cur) => Cardinality({x \in feed : x[1] = cur[1]}) <= ties

\* What the calls of a request have read holds every post that is owed, or
\* enough newer ones to fill the page, or its author will be asked.
ReadSoFar ==
  \A p \in owed \ stamped : Below(RowItem(p)) =>
    /\ pc = "celebs" => \/ RowItem(p) \in pushed \/ Many(Limit + 1, pushed, RowItem(p))
                        \/ Author[p] \in celebrity \cap Follows
    /\ pc = "pull" => \/ RowItem(p) \in pushed \/ Many(Limit + 1, pushed, RowItem(p))
                      \/ Author[p] \in celebs
    /\ pc = "load" => \/ RowItem(p) \in Merge(pushed, pulled)
                      \/ Many(Limit + 1, Merge(pushed, pulled), RowItem(p))

SkipInv ==
  /\ PagingInv /\ StoreTypes /\ OwedIsVisible /\ ReadIsTrimmed /\ TiesCounted /\ ReadSoFar
  /\ NothingSkipped

\* The limit of a query, whether x is among its items or not: what has n newer
\* items has n newer ones among the first n.
LEMMA TopFacts ==
  ASSUME NEW S \in SUBSET FeedItem, IsFiniteSet(S), NEW n \in Nat, NEW x \in FeedItem
  PROVE  /\ Top(n, S) \subseteq S
         /\ Many(n, S, x) => Many(n, Top(n, S), x)
         /\ x \in S => x \in Top(n, S) \/ Many(n, S, x)
         /\ \A y \in Top(n, S) : Newer(x, y) => ~Many(n, S, x)
         /\ n < Cardinality(S) => Top(n, S) # S
<1> DEFINE R == {r \in FeedItem \X FeedItem : Newer(r[1], r[2])}
<1>1. \A y, z \in FeedItem : <<y, z>> \in R <=> Newer(y, z)
      OBVIOUS
<1> HIDE DEF R
<1>2. Orders(R, S)
      BY <1>1, NewerIsLinear DEF Orders
<1>3. ASSUME NEW y \in FeedItem PROVE {z \in S : Newer(z, y)} = Under(R, S, y)
      BY <1>1 DEF Under
<1>4. Top(n, S) = Lowest(R, n, S)
      BY <1>3 DEF Top, Lowest
<1>5. Top(n, S) \subseteq S
      BY DEF Top
<1> DEFINE U == {y \in S : Newer(y, x)}
<1>6. U \in SUBSET S /\ IsFiniteSet(U) /\ Cardinality(U) \in Nat
      BY FS_Subset, FS_CardinalityType
<1>7. ASSUME Many(n, S, x) PROVE Many(n, Top(n, S), x)
      <2>1. \A u \in U, y \in S : <<y, u>> \in R => y \in U
            BY <1>1, NewerIsLinear
      <2>2. n <= Cardinality(U)
            BY <1>7 DEF Many
      <2>3. Top(n, S) \subseteq U /\ n <= Cardinality(Top(n, S))
            <3> HIDE DEF U
            <3> QED
                BY <1>2, <1>4, <1>6, <2>1, <2>2, SegmentHasLowest
      <2>4. {y \in Top(n, S) : Newer(y, x)} = Top(n, S)
            BY <2>3
      <2> QED
          BY <2>3, <2>4 DEF Many
<1>8. ASSUME x \in S, x \notin Top(n, S) PROVE Many(n, S, x)
      BY <1>6, <1>8 DEF Top, Many
<1>9. ASSUME NEW y \in Top(n, S), Newer(x, y), Many(n, S, x) PROVE FALSE
      <2>1. y \in FeedItem /\ Cardinality({z \in S : Newer(z, y)}) < n
            BY <1>5 DEF Top
      <2>2. U \in SUBSET {z \in S : Newer(z, y)}
            BY <1>9, <2>1, NewerIsLinear
      <2>3. {z \in S : Newer(z, y)} \in SUBSET S
            OBVIOUS
      <2>4. IsFiniteSet({z \in S : Newer(z, y)}) /\ Cardinality({z \in S : Newer(z, y)}) \in Nat
            BY <2>3, FS_Subset, FS_CardinalityType
      <2>5. Cardinality(U) <= Cardinality({z \in S : Newer(z, y)})
            BY <2>2, <2>4, FS_Subset
      <2> QED
          BY <1>6, <1>9, <2>1, <2>4, <2>5 DEF Many
<1>10. ASSUME n < Cardinality(S) PROVE Top(n, S) # S
      <2>1. n \in 0..(Cardinality(S) - 1)
            BY <1>10, FS_CardinalityType
      <2>2. PICK y \in S : Cardinality(Under(R, S, y)) = n
            BY <1>2, <2>1, RanksHaveNoGap
      <2>3. y \notin Lowest(R, n, S)
            BY <2>2 DEF Lowest
      <2> QED
          BY <1>4, <2>3
<1> QED
    BY <1>5, <1>7, <1>8, <1>9, <1>10

\* Finitely many items are newer than x, and more in a larger set.
LEMMA ManyGrows ==
  ASSUME NEW S, NEW T, IsFiniteSet(T), S \subseteq T, NEW n \in Nat, NEW x, Many(n, S, x)
  PROVE  Many(n, T, x)
<1> DEFINE A == {y \in S : Newer(y, x)}
           B == {y \in T : Newer(y, x)}
<1>1. A \in SUBSET B /\ B \in SUBSET T
      OBVIOUS
<1>2. IsFiniteSet(B) /\ Cardinality(B) \in Nat
      BY <1>1, FS_Subset, FS_CardinalityType
<1>3. IsFiniteSet(A) /\ Cardinality(A) <= Cardinality(B) /\ Cardinality(A) \in Nat
      BY <1>1, <1>2, FS_Subset, FS_CardinalityType
<1> QED
    BY <1>2, <1>3 DEF Many

\* Merge keeps an item of each post that was pulled; where it is another one, it
\* is newer than the row's: a post that was stamped has the row's time 0.
LEMMA MergeFacts ==
  ASSUME PagingInv, NEW L, L \subseteq Scored, \A x \in L : x = RowItem(x[2]), IsFiniteSet(L),
         IsFiniteSet(pushed), NEW n \in Nat, NEW p \in Posts \ stamped
  PROVE  /\ Merge(pushed, L) \subseteq pushed \cup L /\ IsFiniteSet(Merge(pushed, L))
         /\ pushed \subseteq Merge(pushed, L)
         /\ RowItem(p) \in L => RowItem(p) \in Merge(pushed, L)
         /\ Many(n, L, RowItem(p)) => Many(n, Merge(pushed, L), RowItem(p))
<1> DEFINE M == Merge(pushed, L)
<1>1. M \subseteq pushed \cup L /\ pushed \subseteq M
      BY DEF Merge
<1>2. IsFiniteSet(pushed \cup L) /\ IsFiniteSet(M)
      BY <1>1, FS_Union, FS_Subset
<1>i. /\ pushed \subseteq Scored /\ (\A q \in stamped : At[q] = 0)
      /\ \A x \in pushed : x[2] \notin stamped => x = RowItem(x[2])
      BY DEF PagingInv, Types, RowItems
<1>3. RowItem(p) \in L => RowItem(p) \in M
      <2>1. ASSUME RowItem(p) \in L, RowItem(p)[2] \in PostsOf(pushed) PROVE RowItem(p) \in pushed
            <3>1. PICK x \in pushed : x[2] = p
                  BY <2>1, ItemFacts DEF PostsOf
            <3> QED
                BY <1>i, <3>1
      <2> QED
          BY <2>1 DEF Merge
<1>4. ASSUME NEW x \in L PROVE \E y \in M : y[2] = x[2] /\ (y = x \/ Newer(y, x))
      <2>1. CASE x[2] \notin PostsOf(pushed)
            BY <2>1 DEF Merge
      <2>2. CASE x[2] \in PostsOf(pushed)
            <3>1. PICK y \in pushed : y[2] = x[2]
                  BY <2>2 DEF PostsOf
            <3>2. y \in M /\ y \in FeedItem /\ x \in FeedItem /\ x[2] \in Posts
                  BY <1>1, <1>i, ItemFacts
            <3>3. x = RowItem(x[2]) /\ RowItem(x[2])[1] = At[x[2]]
                  BY <3>2, ItemFacts
            <3>4. CASE x[2] \notin stamped
                  BY <1>i, <3>1, <3>2, <3>3, <3>4
            <3>5. CASE x[2] \in stamped
                  <4>1. x[1] = 0 /\ y[1] \in Nat
                        BY <1>i, <3>2, <3>3, <3>5, ItemFacts
                  <4>2. y = <<y[1], y[2]>> /\ x = <<x[1], x[2]>>
                        BY <3>2, ItemFacts
                  <4> QED
                      BY <3>1, <3>2, <4>1, <4>2 DEF Newer
            <3> QED
                BY <3>4, <3>5
      <2> QED
          BY <2>1, <2>2
<1>5. ASSUME Many(n, L, RowItem(p)) PROVE Many(n, M, RowItem(p))
      <2> DEFINE r == RowItem(p)
                 A == {x \in L : Newer(x, r)}
                 B == {y \in M : Newer(y, r)}
                 f == [x \in A |-> CHOOSE y \in M : y[2] = x[2] /\ (y = x \/ Newer(y, x))]
      <2>1. A \in SUBSET L /\ B \in SUBSET M
            OBVIOUS
      <2>2. /\ IsFiniteSet(A) /\ IsFiniteSet(B)
            /\ Cardinality(A) \in Nat /\ Cardinality(B) \in Nat
            BY <1>2, <2>1, FS_Subset, FS_CardinalityType
      <2>3. r \in FeedItem
            BY ItemFacts
      <2>4. ASSUME NEW x \in A PROVE f[x] \in B /\ f[x][2] = x[2]
            <3>1. f[x] \in M /\ f[x][2] = x[2] /\ (f[x] = x \/ Newer(f[x], x))
                  BY <1>4, <2>1
            <3>2. Newer(x, r) /\ x \in FeedItem /\ f[x] \in FeedItem
                  BY <1>1, <1>i, <2>1, <3>1, ItemFacts
            <3> HIDE DEF f, r
            <3>3. Newer(f[x], r)
                  BY <2>3, <3>1, <3>2, NewerIsLinear
            <3> QED
                BY <3>1, <3>3
      <2>5. ASSUME NEW x \in A, NEW z \in A, f[x] = f[z] PROVE x = z
            <3>1. x[2] = z[2]
                  BY <2>4, <2>5
            <3> QED
                BY <3>1
      <2>6. f \in Injection(A, B)
            <3>1. f \in [A -> B] /\ DOMAIN f = A
                  BY <2>4
            <3> HIDE DEF f
            <3> QED
                BY <2>5, <3>1 DEF Injection, IsInjective
      <2>7. Cardinality(A) <= Cardinality(B)
            BY <2>2, <2>6, FS_Injection
      <2> QED
          BY <1>5, <2>2, <2>7 DEF Many
<1> QED
    BY <1>1, <1>2, <1>3, <1>5

LEMMA SkipInit == Init => SkipInv
<1> SUFFICES ASSUME Init PROVE SkipInv
    OBVIOUS
<1>1. PagingInv
      BY InitPaging
<1>2. Created = {} /\ feed = {} /\ pushed = {} /\ pulled = {}
      BY DEF Init, Created
<1>3. StoreTypes
      <2>1. IsFiniteSet({})
            BY FS_EmptySet
      <2> QED
          BY <1>2, <2>1 DEF Init, StoreTypes
<1>4. NoCursor \notin Scored
      BY ItemFacts DEF NoCursor
<1>5. OwedIsVisible /\ TiesCounted /\ ReadSoFar /\ NothingSkipped
      BY DEF Init, OwedIsVisible, TiesCounted, ReadSoFar, NothingSkipped, IsSet, NoCursor
<1>6. ReadIsTrimmed
      BY <1>4 DEF Init, ReadIsTrimmed
<1> QED
    BY <1>1, <1>3, <1>5, <1>6 DEF SkipInv

\* What happens to the feed between two calls of the reader.
LEMMA StoreStep ==
  ASSUME SkipInv, PagingInv', UNCHANGED <<pc, cur, readVars, shown>>, Track,
         row' \in [Posts -> {"none", "live", "deleted"}], IsFiniteSet(Created'),
         IsFiniteSet(feed'), stamped \subseteq stamped',
         celebrity \subseteq celebrity', celebrity' \subseteq Stars,
         Started => \A x \in Scored : Trimmed(x) => Trimmed(x)',
         pc = "range" /\ IsSet(cur) => Cardinality({x \in feed' : x[1] = cur[1]}) <= ties
  PROVE  SkipInv'
<1>1. owed' \subseteq owed /\ OwedIsVisible'
      BY DEF Track, OwedIsVisible, Visible
<1>2. \A x : Below(x)' <=> Below(x)
      BY DEF Below, IsSet, Newer
<1>3. StoreTypes'
      <2>1. \A x \in pushed' \cup pulled' : Below(x)'
            BY <1>2 DEF SkipInv, StoreTypes, readVars
      <2> QED
          BY <1>1, <2>1 DEF SkipInv, StoreTypes, readVars
<1>4. ReadIsTrimmed'
      <2>1. pushed \subseteq Scored /\ pushed' = pushed /\ cur' = cur
            BY DEF SkipInv, PagingInv, Types, readVars
      <2>2. CASE Started
            <3>1. \A x \in pushed : Trimmed(x)'
                  BY <2>1, <2>2 DEF SkipInv, ReadIsTrimmed
            <3>2. cur \in Scored /\ cur[2] \in Late => Trimmed(cur)'
                  BY <2>1, <2>2 DEF SkipInv, ReadIsTrimmed, Trimmed
            <3> QED
                BY <2>1, <3>1, <3>2 DEF ReadIsTrimmed, Scored
      <2>3. CASE ~Started
            <3>1. pushed' = {} /\ cur' = NoCursor
                  BY <2>1, <2>3 DEF SkipInv, StoreTypes, Started
            <3>2. NoCursor \notin Scored
                  BY ItemFacts DEF NoCursor
            <3> QED
                BY <3>1, <3>2 DEF ReadIsTrimmed, Scored
      <2> QED
          BY <2>2, <2>3
<1>5. TiesCounted'
      BY DEF SkipInv, TiesCounted, readVars, IsSet
<1>6. ReadSoFar'
      <2>1. celebrity \cap Follows \subseteq celebrity' \cap Follows
            OBVIOUS
      <2> QED
          BY <1>1, <1>2, <2>1 DEF SkipInv, ReadSoFar, readVars, Many, Newer, Merge, PostsOf, RowItem
<1>7. NothingSkipped'
      BY <1>1 DEF SkipInv, NothingSkipped, IsSet, Newer, RowItem
<1> QED
    BY <1>1, <1>3, <1>4, <1>5, <1>6, <1>7 DEF SkipInv

\* ZADD and trim: nothing that was trimmed comes back while the reader pages, and
\* nothing else goes.
LEMMA FeedStep ==
  ASSUME LateApart, SkipInv, PagingInv', NEW p \in Posts, AddToFeed(p)
  PROVE  SkipInv'
<1>0. PICK t \in Scores(p) : feed' = Top(MaxFeedLen, {x \in feed : x[2] # p} \cup {<<t, p>>})
      BY DEF AddToFeed
<1> DEFINE S == {x \in feed : x[2] # p} \cup {<<t, p>>}
<1>1. feed \in SUBSET Scored /\ feed \in SUBSET FeedItem /\ IsFiniteSet(feed)
      BY ItemFacts DEF SkipInv, StoreTypes, PagingInv, Types
<1>2. S \in SUBSET FeedItem /\ IsFiniteSet(S)
      <2>1. {x \in feed : x[2] # p} \in SUBSET feed
            OBVIOUS
      <2>2. IsFiniteSet(S)
            BY <1>1, <2>1, FS_Subset, FS_AddElement
      <2>3. <<t, p>> \in FeedItem
            BY PostsAssumption DEF PostsAssumption, Scores, FeedItem
      <2> QED
          BY <1>1, <2>2, <2>3
<1>3. feed' = Top(MaxFeedLen, S) /\ MaxFeedLen \in Nat
      BY <1>0, LimitAssumption DEF LimitAssumption
<1>s. S \subseteq feed \cup {<<t, p>>}
      OBVIOUS
<1>l. Started => p \in Late /\ t = At[p] /\ S = feed \cup {RowItem(p)}
      <2> SUFFICES ASSUME Started PROVE p \in Late /\ t = At[p] /\ S = feed \cup {RowItem(p)}
          OBVIOUS
      <2>1. p \in Late /\ At[p] # 0 /\ t = At[p]
            BY DEF AddToFeed, LateApart, Scores
      <2>2. p \notin stamped
            BY <2>1 DEF SkipInv, PagingInv, RowItems
      <2>3. ASSUME NEW x \in feed, x[2] = p PROVE x = RowItem(p)
            BY <2>2, <2>3 DEF SkipInv, PagingInv, RowItems
      <2> QED
          BY <2>1, <2>3 DEF RowItem
<1> HIDE DEF S
<1>4. feed' \subseteq S /\ IsFiniteSet(feed')
      <2>1. feed' \subseteq S
            BY <1>3 DEF Top
      <2> QED
          BY <1>2, <2>1, FS_Subset
<1>5. ASSUME Started, NEW x \in Scored, Trimmed(x) PROVE Trimmed(x)'
      <2>1. x \in S \/ Many(MaxFeedLen, S, x)
            <3>1. CASE Many(MaxFeedLen, feed, x)
                  BY <1>2, <1>3, <1>5, <1>l, <3>1, ManyGrows
            <3> QED
                BY <1>5, <1>l, <3>1 DEF Trimmed
      <2>x. x \in FeedItem
            BY ItemFacts
      <2>2. x \in feed' \/ Many(MaxFeedLen, S, x)
            BY <1>2, <1>3, <2>1, <2>x, TopFacts
      <2>3. x \in feed' \/ Many(MaxFeedLen, feed', x)
            BY <1>2, <1>3, <2>2, <2>x, TopFacts
      <2> QED
          BY <2>3 DEF Trimmed, Many
<1>6. /\ Created' = Created /\ UNCHANGED <<row, celebrity, pc, cur, readVars, shown>> /\ Track
      /\ stamped \subseteq stamped'
      BY DEF AddToFeed, Created
<1>7. ASSUME pc = "range", IsSet(cur)
      PROVE  Cardinality({x \in feed' : x[1] = cur[1]}) <= ties
      <2>1. Started /\ cur \in Scored /\ cur[2] \in Posts
            BY <1>7, ItemFacts DEF Started, SkipInv, PagingInv, Types, IsSet, NoCursor
      <2>l. p \in Late /\ S = feed \cup {RowItem(p)} /\ RowItem(p) \in FeedItem
            BY <1>l, <2>1, ItemFacts
      <2>2. ASSUME RowItem(p) \in feed', RowItem(p)[1] = cur[1], RowItem(p) \notin feed PROVE FALSE
            <3>1. cur[1] = At[p] /\ (cur[1] = At[cur[2]] \/ cur[1] \in Nows)
                  BY <2>1, <2>2, ItemFacts DEF Scored
            <3>2. cur[2] = p
                  BY <2>1, <2>l, <3>1 DEF LateApart
            <3>3. cur = RowItem(p)
                  BY <2>1, <3>1, <3>2, ItemFacts DEF RowItem
            <3>4. Many(MaxFeedLen, feed, RowItem(p))
                  BY <2>1, <2>2, <2>l, <3>2, <3>3 DEF SkipInv, ReadIsTrimmed, Trimmed
            <3>5. Many(MaxFeedLen, S, RowItem(p))
                  BY <1>2, <1>3, <2>l, <3>4, ManyGrows
            <3>6. Cardinality({x \in S : Newer(x, RowItem(p))}) < MaxFeedLen
                  BY <1>3, <2>2 DEF Top
            <3>7. {x \in S : Newer(x, RowItem(p))} \in SUBSET S
                  OBVIOUS
            <3>8. Cardinality({x \in S : Newer(x, RowItem(p))}) \in Nat
                  BY <1>2, <3>7, FS_Subset, FS_CardinalityType
            <3> QED
                BY <1>3, <3>5, <3>6, <3>8 DEF Many
      <2>3. {x \in feed' : x[1] = cur[1]} \in SUBSET {x \in feed : x[1] = cur[1]}
            BY <1>4, <2>2, <2>l
      <2>4. {x \in feed : x[1] = cur[1]} \in SUBSET feed
            OBVIOUS
      <2>5. /\ IsFiniteSet({x \in feed : x[1] = cur[1]})
            /\ Cardinality({x \in feed : x[1] = cur[1]}) \in Nat
            BY <1>1, <2>4, FS_Subset, FS_CardinalityType
      <2>6. /\ Cardinality({x \in feed' : x[1] = cur[1]})
                 <= Cardinality({x \in feed : x[1] = cur[1]})
            /\ Cardinality({x \in feed' : x[1] = cur[1]}) \in Nat
            BY <2>3, <2>5, FS_Subset, FS_CardinalityType
      <2>7. Cardinality({x \in feed : x[1] = cur[1]}) <= ties /\ ties \in Nat
            BY <1>7 DEF SkipInv, TiesCounted
      <2> QED
          BY <2>5, <2>6, <2>7
<1>8. /\ row' \in [Posts -> {"none", "live", "deleted"}] /\ IsFiniteSet(Created')
      /\ celebrity \subseteq celebrity' /\ celebrity' \subseteq Stars
      BY <1>6 DEF SkipInv, StoreTypes
<1> QED
    BY <1>4, <1>5, <1>6, <1>7, <1>8, StoreStep

\* Rows that come and go, and authors that become celebrities.
LEMMA RowStep ==
  ASSUME SkipInv, PagingInv', NEW p \in Posts,
         CreatePost(p) \/ DeletePost(p) \/ MarkCelebrity(p)
  PROVE  SkipInv'
<1>1. UNCHANGED <<feed, stamped, pc, cur, readVars, shown>> /\ Track
      BY DEF CreatePost, DeletePost, MarkCelebrity
<1>2. Created \subseteq Created' /\ Created' \in SUBSET (Created \cup {p})
      BY DEF CreatePost, DeletePost, MarkCelebrity, Created, SkipInv, StoreTypes
<1>3. IsFiniteSet(Created') /\ IsFiniteSet(feed')
      BY <1>1, <1>2, FS_AddElement, FS_Subset DEF SkipInv, StoreTypes
<1>r. row' \in [Posts -> {"none", "live", "deleted"}]
      BY DEF CreatePost, DeletePost, MarkCelebrity, SkipInv, StoreTypes
<1>4. celebrity \subseteq celebrity' /\ celebrity' \subseteq Stars
      BY <1>1, <1>2 DEF CreatePost, DeletePost, MarkCelebrity, SkipInv, StoreTypes
<1>5. \A x \in Scored : Trimmed(x) => Trimmed(x)'
      BY <1>1 DEF Trimmed, Many, Newer
<1>6. pc = "range" /\ IsSet(cur) => Cardinality({x \in feed' : x[1] = cur[1]}) <= ties
      BY <1>1 DEF SkipInv, TiesCounted
<1> QED
    BY <1>r, <1>1, <1>3, <1>4, <1>5, <1>6, StoreStep

\* A step of the reader: the rows, the feed and the celebrities stay.
LEMMA ReaderFrame ==
  ASSUME SkipInv, UNCHANGED storeVars
  PROVE  /\ Created' = Created /\ \A x : Trimmed(x)' <=> Trimmed(x)
         /\ owed' = owed => OwedIsVisible'
         /\ cur' = cur => \A x : Below(x)' <=> Below(x)
<1>1. Created' = Created /\ (owed' = owed => OwedIsVisible')
      BY DEF SkipInv, storeVars, Created, OwedIsVisible, Visible, PostsOf
<1>2. \A x : Trimmed(x)' <=> Trimmed(x)
      BY DEF storeVars, Trimmed, Many, Newer
<1>3. cur' = cur => \A x : Below(x)' <=> Below(x)
      BY DEF Below, IsSet, Newer
<1> QED
    BY <1>1, <1>2, <1>3

LEMMA RequestStep == SkipInv /\ PagingInv' /\ Request => SkipInv'
<1> SUFFICES ASSUME SkipInv, PagingInv', Request PROVE SkipInv'
    OBVIOUS
<1>1. /\ UNCHANGED storeVars /\ UNCHANGED readVars /\ UNCHANGED <<cur, shown>>
      /\ pc' = "count" /\ pc \in {"new", "idle"}
      /\ owed' = IF pc = "new" THEN Visible(row, feed, celebrity) ELSE owed
      BY DEF Request
<1>2. /\ Created' = Created /\ (\A x : Trimmed(x)' <=> Trimmed(x))
      /\ (owed' = owed => OwedIsVisible') /\ \A x : Below(x)' <=> Below(x)
      BY <1>1, ReaderFrame
<1>3. StoreTypes'
      BY <1>1, <1>2 DEF SkipInv, StoreTypes, storeVars, readVars
<1>4. OwedIsVisible'
      BY <1>1, <1>2 DEF OwedIsVisible, Visible, storeVars, PostsOf
<1>5. ReadIsTrimmed'
      BY <1>1, <1>2 DEF SkipInv, ReadIsTrimmed, readVars, Scored
<1>6. TiesCounted' /\ ReadSoFar'
      BY <1>1 DEF SkipInv, TiesCounted, ReadSoFar, readVars
<1>7. NothingSkipped'
      <2>1. CASE pc = "new"
            BY <1>1, <2>1 DEF SkipInv, StoreTypes, NothingSkipped, IsSet, NoCursor
      <2>2. CASE pc # "new"
            BY <1>1, <2>2 DEF SkipInv, NothingSkipped, IsSet, Newer, RowItem, storeVars
      <2> QED
          BY <2>1, <2>2
<1> QED
    BY <1>3, <1>4, <1>5, <1>6, <1>7 DEF SkipInv

\* A step within a request: it may change what was read and where it stands.
LEMMA CallFrame ==
  ASSUME SkipInv, PagingInv', UNCHANGED storeVars, UNCHANGED <<cur, shown, owed>>,
         pc \in {"count", "range", "celebs", "pull", "load"},
         pc' \in {"idle", "range", "celebs", "pull", "load"},
         IsFiniteSet(pushed'), IsFiniteSet(pulled'),
         celebs' \subseteq Stars, \A x \in pulled' : Author[x[2]] \in Stars,
         \A x \in pushed' \cup pulled' : Below(x),
         \A x \in pushed' : Trimmed(x),
         TiesCounted', ReadSoFar'
  PROVE  SkipInv'
<1>1. /\ Created' = Created /\ (\A x : Trimmed(x)' <=> Trimmed(x))
      /\ OwedIsVisible' /\ \A x : Below(x)' <=> Below(x)
      BY ReaderFrame
<1>2. StoreTypes'
      BY <1>1 DEF SkipInv, StoreTypes, storeVars
<1>3. ReadIsTrimmed'
      BY <1>1 DEF SkipInv, ReadIsTrimmed, Scored
<1>4. NothingSkipped'
      BY DEF SkipInv, NothingSkipped, IsSet, Newer, RowItem, storeVars
<1> QED
    BY <1>1, <1>2, <1>3, <1>4 DEF SkipInv

\* ZCOUNT counts the cursor's second; a failed call leaves nothing behind.
LEMMA CountStep == SkipInv /\ PagingInv' /\ (ZCount \/ Fail) => SkipInv'
<1> SUFFICES ASSUME SkipInv, PagingInv', ZCount \/ Fail PROVE SkipInv'
    OBVIOUS
<1>1. IsFiniteSet(feed) /\ StoreTypes /\ ReadIsTrimmed
      BY DEF SkipInv, StoreTypes
<1>2. CASE ZCount
      <2>1. {x \in feed : x[1] = cur[1]} \in SUBSET feed
            OBVIOUS
      <2>2. Cardinality({x \in feed : x[1] = cur[1]}) \in Nat
            BY <1>1, <2>1, FS_Subset, FS_CardinalityType
      <2>3. /\ ties' = IF IsSet(cur) THEN Cardinality({x \in feed : x[1] = cur[1]}) ELSE 0
            /\ pc' = "range" /\ pc = "count" /\ UNCHANGED storeVars
            /\ UNCHANGED <<cur, pushed, celebs, pulled, shown, owed>>
            BY <1>2 DEF ZCount
      <2>4. TiesCounted'
            <3>1. ties' \in Nat /\ feed' = feed
                  BY <2>2, <2>3 DEF storeVars
            <3>2. IsSet(cur') => Cardinality({x \in feed' : x[1] = cur'[1]}) <= ties'
                  BY <2>2, <2>3, <3>1
            <3> QED
                BY <3>1, <3>2 DEF TiesCounted
      <2>5. ReadSoFar'
            BY <2>3 DEF ReadSoFar
      <2> QED
          BY <1>1, <2>3, <2>4, <2>5, CallFrame DEF StoreTypes, ReadIsTrimmed
<1>3. CASE Fail
      <2>1. /\ pc \in {"count", "range", "celebs", "pull", "load"} /\ pc' = "idle"
            /\ ties' = 0 /\ pushed' = {} /\ celebs' = {} /\ pulled' = {}
            /\ UNCHANGED storeVars /\ UNCHANGED <<cur, shown, owed>>
            BY <1>3 DEF Fail
      <2>2. TiesCounted' /\ ReadSoFar'
            BY <2>1 DEF TiesCounted, ReadSoFar
      <2>3. IsFiniteSet({})
            BY FS_EmptySet
      <2> QED
          BY <2>1, <2>2, <2>3, CallFrame
<1> QED
    BY <1>2, <1>3

\* ZRANGE: the window has room for the whole second of the cursor, so that what
\* is left of it after the filter still fills the page, or is all there is.
LEMMA WindowFacts ==
  ASSUME SkipInv, pc = "range", NEW B, B = Before(Window(Limit + 1), cur),
         NEW x \in feed, Below(x), x \notin B
  PROVE  Many(Limit + 1, B, x)
<1> DEFINE W == {y \in feed : IsSet(cur) => y[1] <= cur[1]}
           T == Top(Limit + 1 + ties, W)
           N == {y \in T : Newer(y, x)}
           E == {y \in feed : y[1] = cur[1]}
<1>1. /\ feed \in SUBSET FeedItem /\ IsFiniteSet(feed)
      /\ ties \in Nat /\ Limit \in Nat /\ cur \in FeedItem \cup {NoCursor}
      BY LimitAssumption, ItemFacts DEF LimitAssumption, SkipInv, StoreTypes, TiesCounted, PagingInv, Types
<1>2. /\ W \in SUBSET FeedItem /\ W \in SUBSET feed /\ x \in FeedItem
      /\ Limit + 1 + ties \in Nat /\ Limit + 1 \in Nat
      BY <1>1
<1>3. IsFiniteSet(W)
      BY <1>1, <1>2, FS_Subset
<1>4. T = Window(Limit + 1)
      BY DEF Window
<1>5. IsSet(cur) => cur \in FeedItem
      BY <1>1 DEF IsSet, NoCursor
<1>6. x \in W
      <2>1. ASSUME IsSet(cur) PROVE x[1] <= cur[1]
            <3>1. Newer(cur, x) /\ x[1] \in Nat /\ cur[1] \in Nat
                  BY <1>2, <1>5, <2>1, ItemFacts DEF Below
            <3> QED
                BY <3>1 DEF Newer
      <2> QED
          BY <2>1
<1>7. x \notin T
      BY <1>4 DEF Before, Below
<1> HIDE DEF W
<1>8. T \subseteq W /\ Many(Limit + 1 + ties, T, x)
      BY <1>2, <1>3, <1>6, <1>7, TopFacts
<1> HIDE DEF T
<1>9. N \in SUBSET T /\ T \in SUBSET feed /\ Limit + 1 + ties <= Cardinality(N)
      BY <1>2, <1>8 DEF Many
<1>10. IsFiniteSet(T) /\ IsFiniteSet(N) /\ Cardinality(N) \in Nat
       BY <1>1, <1>9, FS_Subset, FS_CardinalityType
<1>11. B \subseteq T
       BY <1>4 DEF Before
<1>12. CASE ~IsSet(cur)
       <2>1. B = T
             BY <1>4, <1>12 DEF Before
       <2>2. Limit + 1 <= Cardinality(N)
             <3> HIDE DEF N
             <3> QED
                 BY <1>1, <1>9, <1>10
       <2> QED
           BY <2>1, <2>2 DEF Many
<1>13. CASE IsSet(cur)
       <2>1. ASSUME NEW y \in N \ B PROVE y \in E
             <3>1. y \in W /\ y \in feed /\ y \in FeedItem /\ cur \in FeedItem
                   BY <1>1, <1>5, <1>8, <1>9, <1>13
             <3>2. ~Newer(cur, y)
                   BY <1>4, <1>9, <1>13 DEF Before
             <3>3. y[1] <= cur[1]
                   BY <1>13, <3>1 DEF W
             <3>4. y[1] = cur[1]
                   <4>1. y[1] \in Nat /\ cur[1] \in Nat
                         BY <3>1, ItemFacts
                   <4> QED
                       BY <3>2, <3>3, <4>1 DEF Newer
             <3> QED
                 BY <3>1, <3>4
       <2>2. E \in SUBSET feed /\ Cardinality(E) <= ties
             BY <1>13 DEF SkipInv, TiesCounted
       <2>3. IsFiniteSet(E) /\ Cardinality(E) \in Nat
             BY <1>1, <2>2, FS_Subset, FS_CardinalityType
       <2> HIDE DEF E
       <2>4. N \ B \in SUBSET E
             BY <2>1
       <2>5. IsFiniteSet(N \ B) /\ Cardinality(N \ B) <= Cardinality(E)
             BY <2>3, <2>4, FS_Subset
       <2>6. Cardinality(N \ B) = Cardinality(N) - Cardinality(N \cap B)
             BY <1>10, FS_Difference
       <2>7. Cardinality(N \ B) \in Nat /\ Cardinality(N \cap B) \in Nat
             BY <1>10, <2>5, FS_Intersection, FS_CardinalityType
       <2>8. N \cap B = {y \in B : Newer(y, x)}
             BY <1>11
       <2>9. Limit + 1 <= Cardinality(N \cap B)
             <3> HIDE DEF N
             <3> QED
                 BY <1>1, <1>9, <1>10, <2>2, <2>3, <2>5, <2>6, <2>7
       <2> QED
           BY <2>8, <2>9 DEF Many
<1> QED
    BY <1>12, <1>13

\* An owed post that is in the feed is there as its row says.
LEMMA OwedItem ==
  ASSUME SkipInv, NEW p \in owed \ stamped
  PROVE  /\ p \in Posts /\ row[p] = "live" /\ RowItem(p) \in FeedItem
         /\ RowItem(p) \in feed \/ Author[p] \in celebrity \cap Follows
<1>1. p \in Posts /\ row[p] = "live" /\ (p \in PostsOf(feed) \/ Author[p] \in celebrity \cap Follows)
      BY DEF SkipInv, OwedIsVisible, Visible
<1>2. ASSUME p \in PostsOf(feed) PROVE RowItem(p) \in feed
      <2>1. PICK x \in feed : x[2] = p
            BY <1>2 DEF PostsOf
      <2> QED
          BY <2>1 DEF SkipInv, PagingInv, RowItems
<1> QED
    BY <1>1, <1>2, ItemFacts

LEMMA RangeStep == SkipInv /\ PagingInv' /\ ZRange => SkipInv'
<1> SUFFICES ASSUME SkipInv, PagingInv', ZRange PROVE SkipInv'
    OBVIOUS
<1> DEFINE B == Before(Window(Limit + 1), cur)
<1>1. /\ pc = "range" /\ pc' = "celebs" /\ pushed' = Top(Limit + 1, B)
      /\ UNCHANGED storeVars /\ UNCHANGED <<cur, ties, celebs, pulled, shown, owed>>
      BY DEF ZRange
<1>2. feed \in SUBSET FeedItem /\ IsFiniteSet(feed) /\ Limit + 1 \in Nat
      BY LimitAssumption, ItemFacts DEF LimitAssumption, SkipInv, StoreTypes, PagingInv, Types
<1>3. B \in SUBSET feed /\ \A x \in B : Below(x)
      BY DEF Before, Window, Top, Below
<1>4. B \in SUBSET FeedItem /\ IsFiniteSet(B)
      BY <1>2, <1>3, FS_Subset
<1>5. \A x \in feed : Below(x) /\ x \notin B => Many(Limit + 1, B, x)
      BY <1>1, WindowFacts
<1> HIDE DEF B
<1>6. pushed' \in SUBSET B
      BY <1>1 DEF Top
<1>7. ASSUME NEW p \in owed \ stamped, Below(RowItem(p))
      PROVE  \/ RowItem(p) \in pushed' \/ Many(Limit + 1, pushed', RowItem(p))
             \/ Author[p] \in celebrity \cap Follows
      <2>1. RowItem(p) \in FeedItem
            /\ (RowItem(p) \in feed \/ Author[p] \in celebrity \cap Follows)
            BY OwedItem
      <2>2. CASE RowItem(p) \in feed
            <3>1. RowItem(p) \in B \/ Many(Limit + 1, B, RowItem(p))
                  BY <1>5, <1>7, <2>2
            <3>2. RowItem(p) \in pushed' \/ Many(Limit + 1, B, RowItem(p))
                  BY <1>1, <1>2, <1>4, <2>1, <3>1, TopFacts
            <3> QED
                BY <1>1, <1>2, <1>4, <2>1, <3>2, TopFacts
      <2> QED
          BY <2>1, <2>2
<1>8. ReadSoFar'
      <2>1. \A x : Below(x)' <=> Below(x)
            BY <1>1, ReaderFrame
      <2>2. celebrity' = celebrity /\ stamped' = stamped
            BY <1>1 DEF storeVars
      <2>3. ASSUME NEW p \in owed' \ stamped', Below(RowItem(p))'
            PROVE  \/ RowItem(p) \in pushed' \/ Many(Limit + 1, pushed', RowItem(p))
                   \/ Author[p] \in celebrity' \cap Follows
            BY <1>1, <1>7, <2>1, <2>2, <2>3 DEF RowItem
      <2> QED
          BY <1>1, <2>3 DEF ReadSoFar, Many, Newer, RowItem
<1>9. TiesCounted'
      BY <1>1 DEF SkipInv, TiesCounted
<1>10. \A x \in pushed' : Trimmed(x) /\ Below(x)
       BY <1>3, <1>6 DEF Trimmed
<1>11. StoreTypes
       BY DEF SkipInv
<1>12. IsFiniteSet(pushed')
       BY <1>4, <1>6, FS_Subset
<1> QED
    BY <1>1, <1>8, <1>9, <1>10, <1>11, <1>12, CallFrame DEF StoreTypes

\* SMEMBERS comes after ZRANGE: whose posts are no longer pushed is known by then.
LEMMA CelebsStep == SkipInv /\ PagingInv' /\ FollowedCelebrities => SkipInv'
<1> SUFFICES ASSUME SkipInv, PagingInv', FollowedCelebrities PROVE SkipInv'
    OBVIOUS
<1>1. /\ pc = "celebs" /\ pc' = "pull" /\ celebs' = celebrity \cap Follows
      /\ UNCHANGED storeVars /\ UNCHANGED <<cur, ties, pushed, pulled, shown, owed>>
      BY DEF FollowedCelebrities
<1>2. (\A x : Below(x)' <=> Below(x)) /\ stamped' = stamped
      BY <1>1, ReaderFrame DEF storeVars
<1>3. ASSUME NEW p \in owed' \ stamped', Below(RowItem(p))'
      PROVE  \/ RowItem(p) \in pushed' \/ Many(Limit + 1, pushed', RowItem(p))
             \/ Author[p] \in celebs'
      BY <1>1, <1>2, <1>3 DEF SkipInv, ReadSoFar, RowItem
<1>4. ReadSoFar'
      BY <1>1, <1>3 DEF ReadSoFar, Many, Newer, RowItem
<1>5. TiesCounted'
      BY <1>1 DEF SkipInv, TiesCounted
<1>6. StoreTypes /\ ReadIsTrimmed
      BY DEF SkipInv
<1> QED
    BY <1>1, <1>4, <1>5, <1>6, CallFrame DEF StoreTypes, ReadIsTrimmed

\* The keyset query returns every owed post of a celebrity, or a page of newer ones.
LEMMA PullStep == SkipInv /\ PagingInv' /\ PullPosts => SkipInv'
<1> SUFFICES ASSUME SkipInv, PagingInv', PullPosts PROVE SkipInv'
    OBVIOUS
<1> DEFINE found == {p \in Posts : row[p] = "live" /\ Author[p] \in celebs}
           Q == {RowItem(p) : p \in found}
           B == Before(Q, cur)
<1>1. /\ pc = "pull" /\ pc' = "load" /\ pulled' = Top(Limit + 1, B)
      /\ UNCHANGED storeVars /\ UNCHANGED <<cur, ties, pushed, celebs, shown, owed>>
      BY DEF PullPosts
<1>2. /\ IsFiniteSet(Created) /\ IsFiniteSet(pushed) /\ celebs \subseteq Stars
      /\ Limit + 1 \in Nat /\ PagingInv
      BY LimitAssumption DEF LimitAssumption, SkipInv, StoreTypes
<1>3. found \in SUBSET Created
      BY DEF Created
<1>4. IsFiniteSet(Q) /\ \A x \in Q : x \in Scored /\ x = RowItem(x[2]) /\ x[2] \in found
      <2>1. IsFiniteSet(found)
            BY <1>2, <1>3, FS_Subset
      <2> HIDE DEF found
      <2>2. IsFiniteSet(Q)
            <3> DEFINE f == [p \in found |-> RowItem(p)]
            <3>1. f \in Surjection(found, Q)
                  BY DEF Surjection
            <3> QED
                BY <2>1, <3>1, FS_Surjection
      <2> QED
          BY <2>2, <1>3, ItemFacts DEF Created
<1>5. /\ B \in SUBSET Q /\ (\A x \in B : Below(x)) /\ \A x \in Q : Below(x) => x \in B
      BY DEF Before, Below
<1>6. B \in SUBSET FeedItem /\ IsFiniteSet(B) /\ \A x \in B : Author[x[2]] \in Stars
      BY <1>2, <1>4, <1>5, FS_Subset, ItemFacts
<1>7. ASSUME NEW p \in owed \ stamped, Below(RowItem(p)), Author[p] \in celebs
      PROVE  RowItem(p) \in B
      BY <1>5, <1>7, OwedItem
<1> HIDE DEF B, Q, found
<1>8. pulled' \in SUBSET B
      BY <1>1 DEF Top
<1>9. /\ IsFiniteSet(pulled') /\ pulled' \subseteq Scored
      /\ \A x \in pulled' : x = RowItem(x[2])
      BY <1>4, <1>5, <1>6, <1>8, FS_Subset
<1>10. ASSUME NEW p \in owed \ stamped, Below(RowItem(p))
       PROVE  \/ RowItem(p) \in Merge(pushed, pulled')
              \/ Many(Limit + 1, Merge(pushed, pulled'), RowItem(p))
       <2>1. p \in Posts \ stamped /\ RowItem(p) \in FeedItem
             BY OwedItem
       <2>m. /\ IsFiniteSet(Merge(pushed, pulled')) /\ pushed \subseteq Merge(pushed, pulled')
             /\ RowItem(p) \in pulled' => RowItem(p) \in Merge(pushed, pulled')
             /\ Many(Limit + 1, pulled', RowItem(p)) =>
                  Many(Limit + 1, Merge(pushed, pulled'), RowItem(p))
             BY <1>2, <1>9, <2>1, MergeFacts
       <2>2. \/ RowItem(p) \in pushed \/ Many(Limit + 1, pushed, RowItem(p))
             \/ Author[p] \in celebs
             BY <1>1, <1>10 DEF SkipInv, ReadSoFar
       <2>3. CASE Author[p] \in celebs
             <3>1. RowItem(p) \in B
                   BY <1>7, <1>10, <2>3
             <3>2. RowItem(p) \in pulled' \/ Many(Limit + 1, B, RowItem(p))
                   BY <1>1, <1>2, <1>6, <2>1, <3>1, TopFacts
             <3>3. RowItem(p) \in pulled' \/ Many(Limit + 1, pulled', RowItem(p))
                   BY <1>1, <1>2, <1>6, <2>1, <3>2, TopFacts
             <3> QED
                 BY <2>m, <3>3
       <2>4. CASE Many(Limit + 1, pushed, RowItem(p))
             BY <1>2, <2>m, <2>4, ManyGrows
       <2> QED
           BY <2>m, <2>2, <2>3, <2>4
<1>11. ReadSoFar'
       <2>1. (\A x : Below(x)' <=> Below(x)) /\ stamped' = stamped
             BY <1>1, ReaderFrame DEF storeVars
       <2>2. ASSUME NEW p \in owed' \ stamped', Below(RowItem(p))'
             PROVE  \/ RowItem(p) \in Merge(pushed', pulled')
                    \/ Many(Limit + 1, Merge(pushed', pulled'), RowItem(p))
             BY <1>1, <1>10, <2>1, <2>2 DEF RowItem
       <2> QED
           BY <1>1, <2>2 DEF ReadSoFar, Many, Newer, RowItem, Merge, PostsOf
<1>12. TiesCounted'
       BY <1>1 DEF SkipInv, TiesCounted
<1>13. StoreTypes /\ ReadIsTrimmed
       BY DEF SkipInv
<1>14. \A x \in pulled' : Author[x[2]] \in Stars /\ Below(x)
       BY <1>5, <1>6, <1>8
<1> QED
    BY <1>1, <1>9, <1>11, <1>12, <1>13, <1>14, CallFrame DEF StoreTypes, ReadIsTrimmed

\* Respond: an owed post is on the page or older than its last item, and the
\* last page holds all that is left.
LEMMA RespondStep == LateApart /\ SkipInv /\ PagingInv' /\ Respond => SkipInv'
<1> SUFFICES ASSUME LateApart, SkipInv, PagingInv', Respond PROVE SkipInv'
    OBVIOUS
<1> DEFINE merged == Before(Merge(pushed, pulled), cur)
<1>1. /\ pc = "load" /\ UNCHANGED storeVars /\ owed' = owed
      /\ page' = {p \in PostsOf(Cut(merged)) : p \in PostsOf(pulled) \/ row[p] = "live"}
      /\ shown' = [p \in Posts |-> IF p \in page' THEN shown[p] + 1 ELSE shown[p]]
      /\ ties' = 0 /\ pushed' = {} /\ celebs' = {} /\ pulled' = {}
      BY DEF Respond
<1>2. \/ Cut(merged) = merged /\ pc' = "end" /\ cur' = cur
      \/ /\ Cut(merged) # merged /\ pc' = "idle"
         /\ cur' \in Cut(merged) /\ \A x \in Cut(merged) : x = cur' \/ Newer(x, cur')
      BY DEF Respond
<1>3. /\ Limit \in Nat /\ PagingInv
      /\ pushed \subseteq Scored /\ pulled \subseteq Scored
      /\ IsFiniteSet(pushed) /\ IsFiniteSet(pulled)
      /\ \A x \in pushed \cup pulled : Below(x)
      BY LimitAssumption DEF LimitAssumption, SkipInv, StoreTypes, PagingInv, Types
<1>m. Merge(pushed, pulled) \subseteq pushed \cup pulled
      BY DEF Merge
<1>4. merged = Merge(pushed, pulled)
      BY <1>3, <1>m DEF Before, Below
<1>5. merged \in SUBSET FeedItem /\ IsFiniteSet(merged) /\ Cardinality(merged) \in Nat
      <2>1. IsFiniteSet(pushed \cup pulled)
            BY <1>3, FS_Union
      <2>2. merged \in SUBSET (pushed \cup pulled)
            BY <1>4, <1>m
      <2> QED
          BY <1>3, <2>1, <2>2, FS_Subset, FS_CardinalityType, ItemFacts
<1>6. Cut(merged) = Top(Limit, merged)
      BY DEF Cut
<1> HIDE DEF merged
<1>7. Cut(merged) \subseteq merged
      BY <1>6 DEF Top
<1>8. StoreTypes'
      <2>1. Created' = Created
            BY <1>1, ReaderFrame
      <2>2. pc' # "new" /\ pc' \in {"idle", "end"}
            BY <1>2
      <2>3. IsFiniteSet({})
            BY FS_EmptySet
      <2> QED
          BY <1>1, <2>1, <2>2, <2>3 DEF SkipInv, StoreTypes, storeVars
<1>9. OwedIsVisible'
      BY <1>1, ReaderFrame
<1>10. TiesCounted' /\ ReadSoFar'
       BY <1>1, <1>2 DEF TiesCounted, ReadSoFar
<1>11. ReadIsTrimmed'
       <2>1. \A x : Trimmed(x)' <=> Trimmed(x)
             BY <1>1, ReaderFrame
       <2>2. ASSUME cur' \in Scored, cur'[2] \in Late PROVE Trimmed(cur')
             <3>1. CASE cur' = cur
                   BY <2>2, <3>1 DEF SkipInv, ReadIsTrimmed
             <3>2. CASE cur' # cur
                   <4>1. cur' \in pushed \cup pulled
                         BY <1>2, <1>4, <1>7, <1>m, <3>2
                   <4>2. cur' \in pushed
                         BY <2>2, <4>1 DEF SkipInv, StoreTypes, LateApart
                   <4> QED
                       BY <4>2 DEF SkipInv, ReadIsTrimmed
             <3> QED
                 BY <3>1, <3>2
       <2>3. cur' \in Scored /\ cur'[2] \in Late => Trimmed(cur)'
             BY <1>1, <2>2 DEF Trimmed, storeVars
       <2> QED
           BY <1>1, <2>3 DEF ReadIsTrimmed, Scored
<1>12. ASSUME NEW p \in owed \ stamped, shown'[p] = 0
       PROVE  pc' # "end" /\ Newer(cur', RowItem(p))
       <2> DEFINE x == RowItem(p)
       <2>1. p \in Posts /\ row[p] = "live" /\ shown[p] \in Nat /\ x \in FeedItem /\ x[2] = p
             BY OwedItem, ItemFacts DEF SkipInv, PagingInv, Types
       <2>2. p \notin page' /\ shown[p] = 0
             BY <1>1, <1>12, <2>1
       <2>4. Below(x)
             BY <2>2 DEF SkipInv, NothingSkipped, Below
       <2>5. x \in merged \/ Many(Limit + 1, merged, x)
             BY <1>1, <1>4, <2>4 DEF SkipInv, ReadSoFar
       <2> HIDE DEF x
       <2>3. x \notin Cut(merged)
             BY <1>1, <2>1, <2>2 DEF PostsOf
       <2>6. {y \in merged : Newer(y, x)} \in SUBSET merged
             OBVIOUS
       <2>7. /\ Cardinality({y \in merged : Newer(y, x)}) \in Nat
             /\ Cardinality({y \in merged : Newer(y, x)}) <= Cardinality(merged)
             BY <1>5, <2>6, FS_Subset, FS_CardinalityType
       <2>8. Many(Limit, merged, x) /\ Cut(merged) # merged
             <3>1. CASE x \in merged
                   BY <1>3, <1>5, <1>6, <2>1, <2>3, <3>1, TopFacts
             <3>2. CASE Many(Limit + 1, merged, x)
                   <4>1. Many(Limit, merged, x) /\ Limit < Cardinality(merged)
                         BY <1>3, <1>5, <2>7, <3>2 DEF Many
                   <4> QED
                       BY <1>3, <1>5, <1>6, <2>1, <4>1, TopFacts
             <3> QED
                 BY <2>5, <3>1, <3>2
       <2>9. cur' \in Cut(merged) /\ cur' \in FeedItem /\ cur' # x /\ pc' = "idle"
             BY <1>2, <1>5, <1>7, <2>3, <2>8
       <2>10. ~Newer(x, cur')
              BY <1>3, <1>5, <1>6, <2>1, <2>8, <2>9, TopFacts
       <2>11. Newer(cur', x)
              BY <2>1, <2>9, <2>10, NewerIsLinear
       <2> QED
           BY <2>9, <2>11 DEF x
<1>13. NothingSkipped'
       <2>1. ASSUME NEW p \in owed' \ stamped', shown'[p] = 0
             PROVE  pc' # "end" /\ (IsSet(cur') => Newer(cur', RowItem(p)))
             BY <1>1, <1>12, <2>1 DEF storeVars
       <2> QED
           BY <2>1 DEF NothingSkipped, IsSet, Newer, RowItem
<1> QED
    BY <1>8, <1>9, <1>10, <1>11, <1>13 DEF SkipInv

LEMMA SkipStep == LateApart /\ SkipInv /\ [Next]_vars => SkipInv'
<1> SUFFICES ASSUME LateApart, SkipInv, [Next]_vars PROVE SkipInv'
    OBVIOUS
<1>1. PagingInv'
      BY NextPaging DEF SkipInv
<1>2. CASE UNCHANGED vars
      <2>1. UNCHANGED storeVars /\ UNCHANGED readVars /\ UNCHANGED <<pc, cur, shown, owed>>
            BY <1>2 DEF vars
      <2>2. /\ Created' = Created /\ (\A x : Trimmed(x)' <=> Trimmed(x))
            /\ OwedIsVisible' /\ \A x : Below(x)' <=> Below(x)
            BY <2>1, ReaderFrame
      <2>3. StoreTypes' /\ ReadIsTrimmed'
            BY <2>1, <2>2 DEF SkipInv, StoreTypes, ReadIsTrimmed, storeVars, readVars, Scored
      <2>4. TiesCounted' /\ NothingSkipped'
            BY <2>1 DEF SkipInv, TiesCounted, NothingSkipped, storeVars, readVars, IsSet, Newer,
               RowItem
      <2>5. ReadSoFar'
            BY <2>1, <2>2 DEF SkipInv, ReadSoFar, storeVars, readVars, Many, Newer, RowItem,
               Merge, PostsOf
      <2> QED
          BY <1>1, <2>2, <2>3, <2>4, <2>5 DEF SkipInv
<1> QED
    BY <1>1, <1>2, RowStep, FeedStep, RequestStep, CountStep, RangeStep, CelebsStep, PullStep,
       RespondStep DEF Next

\* Provided that late posts are apart, GetHomeFeed skips nothing: a post that was
\* visible from the first page on has been returned once the cursor is past it
\* and at the latest on the last page, through pushes, trims, deletes, authors
\* that become celebrities and failed calls (feed.go:33-34, redis.go:107-109).
\* Posts that were pushed without created_at are left out.
THEOREM NothingSkippedHolds == LateApart => (Spec => []NothingSkipped)
<1>1. SkipInv => NothingSkipped
      BY DEF SkipInv
<1> SUFFICES ASSUME LateApart PROVE Spec => []NothingSkipped
    OBVIOUS
<1>2. SkipInv /\ [Next]_vars => SkipInv'
      BY SkipStep
<1> QED
    BY <1>1, <1>2, SkipInit, PTL DEF Spec
=============================================================================
