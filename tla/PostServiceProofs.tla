------------------------- MODULE PostServiceProofs -------------------------
(***************************************************************************)
(* The post service: the like counter for any number of users, flushers,   *)
(* reconcilers and failures; the media of its posts (MediaSpec) for any    *)
(* number of posts, cleaners and failures; and its idempotency keys        *)
(* (KeySpec) for any attempts and bodies.                                  *)
(*                                                                         *)
(* The counter.  What is in hand is a sum over all requests and flushers;  *)
(* one step changes one term of it (TotalChange).  A step of a request or  *)
(* a flusher only moves a change or loses it (Lands).  The reconciler      *)
(* overwrites the count, so the invariant follows the row it has read      *)
(* (Snapshots): while the count is the one it read, the rows it counted    *)
(* and all that is still on its way are not more than the rows there are.  *)
(* That holds when it reads because a post without recent rows has nothing *)
(* on its way (Calm), and no delta in Redis without a marker (Scheduled).  *)
(***************************************************************************)
EXTENDS Counter, Posts, Idempotency, FiniteSetTheorems, TLAPS

\* Sums over a function with finitely many units.
Negated(c) == [x \in DOMAIN c |-> -c[x]]
Sums(c) == IsFiniteSet(Units(c)) /\ IsFiniteSet(Units(Negated(c)))
Plus(n) == IF n > 0 THEN n ELSE 0

\* The units of one key.
LEMMA OneKey ==
  ASSUME NEW x, NEW n \in Int
  PROVE  IsFiniteSet({x} \X (1..n)) /\ Cardinality({x} \X (1..n)) = Plus(n)
<1>1. IsFiniteSet({x}) /\ Cardinality({x}) = 1
  BY FS_Singleton
<1>2. IsFiniteSet(1..n) /\ Cardinality(1..n) = Plus(n)
  BY FS_Interval, 1 \in Int DEF Plus
<1>3. Plus(n) \in Int
  BY DEF Plus
<1> QED
  BY <1>1, <1>2, <1>3, FS_Product

\* The units of the other keys.
UnitsBut(c, x) == UNION {{y} \X (1..c[y]) : y \in DOMAIN c \ {x}}

LEMMA UnitsSplit ==
  ASSUME NEW D, NEW x \in D, NEW c \in [D -> Int]
  PROVE  /\ IsFiniteSet(Units(c)) <=> IsFiniteSet(UnitsBut(c, x))
         /\ IsFiniteSet(UnitsBut(c, x)) =>
              Cardinality(Units(c)) = Cardinality(UnitsBut(c, x)) + Plus(c[x])
<1> DEFINE rest == UnitsBut(c, x)
           own == {x} \X (1..c[x])
<1>0. DOMAIN c = D /\ c[x] \in Int
  OBVIOUS
<1>1. Units(c) = rest \cup own
  BY <1>0, Zenon DEF Units, UnitsBut
<1>2. ASSUME NEW e \in rest, e \in own PROVE FALSE
  <2>1. PICK y \in DOMAIN c \ {x} : e \in {y} \X (1..c[y])
    BY <1>2, Zenon DEF UnitsBut
  <2>2. e[1] = y
    BY <2>1
  <2>3. e[1] = x
    BY <1>2
  <2> QED
    BY <2>1, <2>2, <2>3
<1>3. rest \cap own = {}
  BY <1>2, Zenon
<1>4. IsFiniteSet(own) /\ Cardinality(own) = Plus(c[x])
  BY <1>0, OneKey
<1> HIDE DEF rest, own
<1>5. ASSUME IsFiniteSet(Units(c)) PROVE IsFiniteSet(rest)
  BY <1>5, <1>1, FS_Subset, rest \in SUBSET Units(c)
<1>6. ASSUME IsFiniteSet(rest)
      PROVE  IsFiniteSet(Units(c)) /\ Cardinality(Units(c)) = Cardinality(rest) + Plus(c[x])
  <2>1. Cardinality(rest) \in Nat /\ Cardinality(own) \in Nat
    BY <1>6, <1>4, FS_CardinalityType
  <2>2. /\ IsFiniteSet(rest \cup own)
        /\ Cardinality(rest \cup own)
             = Cardinality(rest) + Cardinality(own) - Cardinality(rest \cap own)
    BY <1>6, <1>4, FS_Union
  <2>3. Cardinality(rest \cap own) = 0
    BY <1>3, FS_EmptySet
  <2> QED
    BY <2>1, <2>2, <2>3, <1>1, <1>4
<1> QED
  BY <1>5, <1>6 DEF rest

\* One value changes: so does the number of its units.
LEMMA UnitsChange ==
  ASSUME NEW D, NEW x \in D, NEW c \in [D -> Int], NEW d \in [D -> Int],
         \A y \in D \ {x} : d[y] = c[y], IsFiniteSet(Units(c))
  PROVE  /\ IsFiniteSet(Units(d))
         /\ Cardinality(Units(d)) = Cardinality(Units(c)) + Plus(d[x]) - Plus(c[x])
<1>1. {{y} \X (1..c[y]) : y \in D \ {x}} = {{y} \X (1..d[y]) : y \in D \ {x}}
  OBVIOUS
<1>2. UnitsBut(c, x) = UnitsBut(d, x)
  <2>1. DOMAIN c = D /\ DOMAIN d = D
    OBVIOUS
  <2> QED
    BY <1>1, <2>1, Zenon DEF UnitsBut
<1>3. /\ IsFiniteSet(Units(c)) <=> IsFiniteSet(UnitsBut(c, x))
      /\ IsFiniteSet(UnitsBut(c, x)) =>
           Cardinality(Units(c)) = Cardinality(UnitsBut(c, x)) + Plus(c[x])
  BY UnitsSplit
<1>4. /\ IsFiniteSet(Units(d)) <=> IsFiniteSet(UnitsBut(d, x))
      /\ IsFiniteSet(UnitsBut(d, x)) =>
           Cardinality(Units(d)) = Cardinality(UnitsBut(d, x)) + Plus(d[x])
  BY UnitsSplit
<1>5. Plus(c[x]) \in Int /\ Plus(d[x]) \in Int
  BY DEF Plus
<1>6. Cardinality(UnitsBut(d, x)) \in Nat
  BY <1>2, <1>3, FS_CardinalityType
<1> QED
  BY <1>2, <1>3, <1>4, <1>5, <1>6

\* The total follows a change of one value.
LEMMA TotalChange ==
  ASSUME NEW D, NEW x \in D, NEW c \in [D -> Int], NEW d \in [D -> Int],
         \A y \in D \ {x} : d[y] = c[y], Sums(c)
  PROVE  Sums(d) /\ Total(c) \in Int /\ Total(d) = Total(c) + d[x] - c[x]
<1>1. /\ IsFiniteSet(Units(d))
      /\ Cardinality(Units(d)) = Cardinality(Units(c)) + Plus(d[x]) - Plus(c[x])
  BY UnitsChange DEF Sums
<1>2. /\ Negated(c) \in [D -> Int] /\ Negated(d) \in [D -> Int]
      /\ \A y \in D \ {x} : Negated(d)[y] = Negated(c)[y]
      /\ Negated(c)[x] = -c[x] /\ Negated(d)[x] = -d[x]
  BY DEF Negated
<1>3. /\ IsFiniteSet(Units(Negated(d)))
      /\ Cardinality(Units(Negated(d)))
           = Cardinality(Units(Negated(c))) + Plus(-d[x]) - Plus(-c[x])
  <2> DEFINE cc == Negated(c)
             dd == Negated(d)
  <2>1. cc \in [D -> Int] /\ dd \in [D -> Int] /\ \A y \in D \ {x} : dd[y] = cc[y]
    BY <1>2
  <2>2. IsFiniteSet(Units(cc))
    BY DEF Sums
  <2> HIDE DEF cc, dd
  <2>3. /\ IsFiniteSet(Units(dd))
        /\ Cardinality(Units(dd)) = Cardinality(Units(cc)) + Plus(dd[x]) - Plus(cc[x])
    BY <2>1, <2>2, UnitsChange
  <2> QED
    BY <2>3, <1>2 DEF cc, dd
<1>4. /\ Total(c) = Cardinality(Units(c)) - Cardinality(Units(Negated(c)))
      /\ Total(d) = Cardinality(Units(d)) - Cardinality(Units(Negated(d)))
  BY DEF Total, Negated
<1>5. Cardinality(Units(c)) \in Nat /\ Cardinality(Units(Negated(c))) \in Nat
  BY FS_CardinalityType DEF Sums
<1>6. c[x] \in Int /\ d[x] \in Int
  OBVIOUS
<1>7. Sums(d)
  BY <1>1, <1>3 DEF Sums
<1>8. Plus(d[x]) - Plus(-d[x]) = d[x] /\ Plus(c[x]) - Plus(-c[x]) = c[x]
  BY <1>6 DEF Plus
<1>9. {Plus(d[x]), Plus(-d[x]), Plus(c[x]), Plus(-c[x])} \subseteq Int
  BY <1>6 DEF Plus
<1>10. Total(c) \in Int /\ Total(d) = Total(c) + d[x] - c[x]
  BY <1>1, <1>3, <1>4, <1>5, <1>6, <1>8, <1>9
<1> QED
  BY <1>7, <1>10

\* Values that are not positive have no units.
LEMMA NoUnits ==
  ASSUME NEW D, NEW c \in [D -> Int], \A x \in D : c[x] <= 0
  PROVE  Units(c) = {}
<1>1. ASSUME NEW e \in Units(c) PROVE FALSE
  <2>1. PICK y \in DOMAIN c : e \in {y} \X (1..c[y])
    BY <1>1, Zenon DEF Units
  <2>2. e[2] \in 1..c[y]
    BY <2>1
  <2> QED
    BY <2>1, <2>2
<1> QED
  BY <1>1, Zenon

\* Nothing in hand counts nothing.
LEMMA TotalOfNone ==
  ASSUME NEW D, NEW c \in [D -> Int], \A x \in D : c[x] >= 0 /\ c[x] <= 0
  PROVE  Sums(c) /\ Total(c) = 0
<1>1. Negated(c) \in [D -> Int] /\ \A x \in D : Negated(c)[x] <= 0
  BY DEF Negated
<1>2. Units(c) = {}
  BY NoUnits
<1>3. Units(Negated(c)) = {}
  BY <1>1, NoUnits
<1>4. IsFiniteSet({}) /\ Cardinality({}) = 0
  BY FS_EmptySet
<1>5. Total(c) = Cardinality(Units(c)) - Cardinality(Units(Negated(c)))
  BY DEF Total, Negated
<1> QED
  BY <1>2, <1>3, <1>4, <1>5 DEF Sums

\* Types, and that only finitely much is in hand.
RequestSteps == {"idle", "incr", "sadd", "undo", "fallback"}
FlushSteps == {"idle", "popped", "took", "back", "backMark", "backUndo"}

CountTypes ==
  /\ likes \subseteq Users /\ IsFiniteSet(likes)
  /\ count \in Int /\ delta \in Int
  /\ pc \in [Users -> RequestSteps] /\ sign \in [Users -> {-1, 0, 1}]
  /\ fpc \in [Flushers -> FlushSteps] /\ took \in [Flushers -> Int]
  /\ rpc \in [Reconcilers -> {"idle", "read", "update"}]
  /\ seen \in [Reconcilers -> [count : Int, rows : Int, busy : BOOLEAN]]
  /\ failures \in [n : Nat, kinds : SUBSET Recorded]
  /\ past \in [unliked : BOOLEAN, recounted : BOOLEAN]
  /\ Sums(Requests) /\ Sums(Flushes)

\* What a request in step s, or a flusher, has in hand.
Held(s, n) == IF s \in {"incr", "fallback"} THEN n ELSE 0
Taken(s, n) == IF s \in {"took", "back"} THEN n ELSE 0

\* A request moves: what the requests have in hand follows it.
LEMMA RequestMoves ==
  ASSUME CountTypes, NEW u \in Users, NEW s \in RequestSteps,
         pc' = [pc EXCEPT ![u] = s],
         sign' \in [Users -> {-1, 0, 1}], \A v \in Users \ {u} : sign'[v] = sign[v]
  PROVE  /\ pc' \in [Users -> RequestSteps] /\ pc'[u] = s
         /\ \A v \in Users \ {u} : pc'[v] = pc[v]
         /\ Sums(Requests') /\ Total(Requests) \in Int
         /\ Total(Requests') = Total(Requests) + Held(s, sign'[u]) - Held(pc[u], sign[u])
<1>1. /\ pc' \in [Users -> RequestSteps] /\ pc'[u] = s
      /\ \A v \in Users \ {u} : pc'[v] = pc[v]
  BY DEF CountTypes
<1>2. Requests \in [Users -> Int] /\ Requests' \in [Users -> Int]
  BY <1>1 DEF CountTypes, Requests
<1>3. Requests[u] = Held(pc[u], sign[u]) /\ Requests'[u] = Held(s, sign'[u])
  BY <1>1 DEF Requests, Held
<1>4. \A v \in Users \ {u} : Requests'[v] = Requests[v]
  BY <1>1 DEF Requests
<1>5. Sums(Requests)
  BY DEF CountTypes
<1>6. ASSUME NEW c \in [Users -> Int], NEW d \in [Users -> Int],
             \A v \in Users \ {u} : d[v] = c[v], Sums(c)
      PROVE  Sums(d) /\ Total(c) \in Int /\ Total(d) = Total(c) + d[u] - c[u]
  BY <1>6, TotalChange
<1>7. /\ Sums(Requests') /\ Total(Requests) \in Int
      /\ Total(Requests') = Total(Requests) + Requests'[u] - Requests[u]
  BY <1>2, <1>4, <1>5, <1>6
<1> QED
  BY <1>1, <1>3, <1>7

\* The same for a flusher.
LEMMA FlusherMoves ==
  ASSUME CountTypes, NEW f \in Flushers, NEW s \in FlushSteps, NEW n \in Int,
         fpc' = [fpc EXCEPT ![f] = s], took' = [took EXCEPT ![f] = n]
  PROVE  /\ fpc' \in [Flushers -> FlushSteps] /\ fpc'[f] = s
         /\ took' \in [Flushers -> Int] /\ took'[f] = n
         /\ \A g \in Flushers \ {f} : fpc'[g] = fpc[g] /\ took'[g] = took[g]
         /\ Sums(Flushes') /\ Total(Flushes) \in Int
         /\ Total(Flushes') = Total(Flushes) + Taken(s, n) - Taken(fpc[f], took[f])
<1>1. /\ fpc' \in [Flushers -> FlushSteps] /\ fpc'[f] = s
      /\ took' \in [Flushers -> Int] /\ took'[f] = n
      /\ \A g \in Flushers \ {f} : fpc'[g] = fpc[g] /\ took'[g] = took[g]
  BY DEF CountTypes
<1>2. Flushes \in [Flushers -> Int] /\ Flushes' \in [Flushers -> Int]
  BY <1>1 DEF CountTypes, Flushes
<1>3. Flushes[f] = Taken(fpc[f], took[f]) /\ Flushes'[f] = Taken(s, n)
  BY <1>1 DEF Flushes, Taken
<1>4. \A g \in Flushers \ {f} : Flushes'[g] = Flushes[g]
  BY <1>1 DEF Flushes
<1>5. Sums(Flushes)
  BY DEF CountTypes
<1>6. ASSUME NEW c \in [Flushers -> Int], NEW d \in [Flushers -> Int],
             \A v \in Flushers \ {f} : d[v] = c[v], Sums(c)
      PROVE  Sums(d) /\ Total(c) \in Int /\ Total(d) = Total(c) + d[f] - c[f]
  BY <1>6, TotalChange
<1>7. /\ Sums(Flushes') /\ Total(Flushes) \in Int
      /\ Total(Flushes') = Total(Flushes) + Flushes'[f] - Flushes[f]
  BY <1>2, <1>4, <1>5, <1>6
<1> QED
  BY <1>1, <1>3, <1>7

Numbers ==
  /\ Total(Requests) \in Int /\ Total(Flushes) \in Int
  /\ InHand \in Int /\ Cardinality(likes) \in Nat /\ Drift \in Int

LEMMA TotalsAreInt == CountTypes => Numbers
<1> SUFFICES ASSUME CountTypes PROVE Numbers
  OBVIOUS
<1>1. ASSUME NEW c, Sums(c) PROVE Total(c) \in Int
  <2>1. Cardinality(Units(c)) \in Nat /\ Cardinality(Units(Negated(c))) \in Nat
    BY <1>1, FS_CardinalityType DEF Sums
  <2> QED
    BY <2>1 DEF Total, Negated
<1>2. Total(Requests) \in Int /\ Total(Flushes) \in Int
  BY <1>1 DEF CountTypes
<1>3. Cardinality(likes) \in Nat
  BY FS_CardinalityType DEF CountTypes
<1> QED
  BY <1>2, <1>3 DEF Numbers, InHand, Drift, CountTypes

LEMMA TotalsStayInt == CountTypes' => Numbers'
  BY TotalsAreInt, PTL

\* A failure is counted, and remembered if it is a recorded kind.
LEMMA Failing1 ==
  ASSUME CountTypes, NEW k, Fails(k)
  PROVE  /\ failures' \in [n : Nat, kinds : SUBSET Recorded]
         /\ failures'.n = failures.n + 1
         /\ failures'.kinds = failures.kinds \cup ({k} \cap Recorded)
<1>1. Cardinality({k}) = 1
  BY FS_Singleton
<1>2. failures' = [n |-> failures.n + Cardinality({k}),
                   kinds |-> failures.kinds \cup ({k} \cap Recorded)]
  BY DEF Fails, Fail
<1>3. failures'.n = failures.n + 1
  BY <1>1, <1>2
<1>4. failures'.kinds = failures.kinds \cup ({k} \cap Recorded)
  BY <1>2
<1>5. failures.n \in Nat /\ failures.kinds \in SUBSET Recorded
  BY DEF CountTypes
<1>6. failures.n + 1 \in Nat /\ failures.kinds \cup ({k} \cap Recorded) \in SUBSET Recorded
  BY <1>5
<1>7. failures' = [n |-> failures.n + 1,
                   kinds |-> failures.kinds \cup ({k} \cap Recorded)]
  BY <1>1, <1>2
<1> QED
  BY <1>3, <1>4, <1>6, <1>7

LEMMA Failing2 ==
  ASSUME CountTypes, Fail({"getdel", "sadd"})
  PROVE  /\ failures' \in [n : Nat, kinds : SUBSET Recorded]
         /\ failures'.n >= failures.n
         /\ failures'.kinds = failures.kinds \cup {"sadd"}
<1>1. Cardinality({"getdel", "sadd"}) \in Nat
  <2>1. IsFiniteSet({"getdel"})
    BY FS_Singleton
  <2>2. IsFiniteSet({"getdel"} \cup {"sadd"})
    BY <2>1, FS_AddElement
  <2>3. {"getdel"} \cup {"sadd"} = {"getdel", "sadd"}
    OBVIOUS
  <2> QED
    BY <2>2, <2>3, FS_CardinalityType
<1>2. failures' = [n |-> failures.n + Cardinality({"getdel", "sadd"}),
                   kinds |-> failures.kinds \cup ({"getdel", "sadd"} \cap Recorded)]
  BY DEF Fail
<1>3. {"getdel", "sadd"} \cap Recorded = {"sadd"}
  BY DEF Recorded, Stranding
<1>4. failures.n \in Nat /\ failures.kinds \in SUBSET Recorded
  BY DEF CountTypes
<1>5. failures.n + Cardinality({"getdel", "sadd"}) \in Nat
  BY <1>1, <1>4
<1>6. failures.kinds \cup {"sadd"} \in SUBSET Recorded
  BY <1>4 DEF Recorded, Stranding
<1>7. failures'.n >= failures.n
  BY <1>1, <1>2, <1>4
<1>8. failures'.kinds = failures.kinds \cup {"sadd"}
  BY <1>2, <1>3
<1>9. failures' \in [n : Nat, kinds : SUBSET Recorded]
  BY <1>2, <1>3, <1>5, <1>6
<1> QED
  BY <1>7, <1>8, <1>9

-----------------------------------------------------------------------------
(* The invariant.                                                          *)

\* The premises of NoOvercount and of NoDrift.
Sane == Unstranded /\ ~past.unliked
Exact == failures.n <= 1 /\ failures.kinds \subseteq {"sadd"} /\ ~Misread

\* A call that is made up for is behind every fallback, undo and put-back.
Failed ==
  /\ \A u \in Users : /\ pc[u] \in {"undo", "fallback"} => failures.n >= 1
                      /\ pc[u] = "undo" => "sadd" \in failures.kinds
  /\ \A f \in Flushers :
       /\ fpc[f] \in {"back", "backMark"} => failures.n >= 1
       /\ fpc[f] = "backUndo" => failures.n >= 2 /\ "sadd" \in failures.kinds

\* Only likes are on their way.
Positive ==
  Sane => /\ delta >= 0
          /\ \A u \in Users : pc[u] # "idle" => sign[u] = 1
          /\ \A f \in Flushers : fpc[f] \in {"took", "back", "backMark"} => took[f] > 0

\* Quiet is longer than a request and a flush: a post without recent rows has
\* nothing on its way.
Calm ==
  ~past.unliked /\ recent = {} =>
    /\ ~dirty
    /\ \A u \in Users : pc[u] = "idle"
    /\ \A f \in Flushers : fpc[f] = "idle"

\* A delta in Redis has its marker, or someone is about to set or use it.
Scheduled ==
  Unstranded /\ delta # 0 =>
    \/ dirty
    \/ \E u \in Users : pc[u] = "sadd"
    \/ \E f \in Flushers : fpc[f] \in {"popped", "backMark"}

\* The reconciler is going to rewrite the count if it has not changed.
Trusted(r) == rpc[r] = "update" \/ (rpc[r] = "read" /\ ~seen[r].busy)

\* It read a count that was too low, and the rows it counted do not include a
\* like that is still on its way.
Snapshots ==
  Sane => \A r \in Reconcilers : Trusted(r) =>
    /\ seen[r].count < seen[r].rows /\ seen[r].count <= count
    /\ count = seen[r].count => seen[r].rows + delta + InHand <= Cardinality(likes)

\* While nothing is lost it finds nothing to do.
NoRecount == Exact /\ Sane => \A r \in Reconcilers : ~Trusted(r)

CountInv ==
  /\ CountTypes /\ Failed /\ Positive /\ Calm /\ Scheduled
  /\ Snapshots /\ NoRecount /\ NoDrift /\ NoOvercount

\* A step that only moves a change, or loses one: failures and unlikes are
\* remembered, a recount is none of its business.
Later ==
  /\ failures.kinds \subseteq failures'.kinds /\ failures.n <= failures'.n
  /\ past.unliked => past'.unliked
  /\ past'.recounted = past.recounted

Lands ==
  /\ Later /\ UNCHANGED <<rpc, seen>>
  /\ Sane' => Drift' <= Drift /\ count' >= count
  /\ Exact' => Drift' = Drift

LEMMA LaterFacts ==
  ASSUME CountTypes, CountTypes', Later
  PROVE  (Sane' => Sane) /\ (Exact' => Exact) /\ (Unstranded' => Unstranded)
<1>1. failures.n \in Nat /\ failures'.n \in Nat
  BY DEF CountTypes
<1>2. Unstranded' => Unstranded
  BY DEF Later, Unstranded
<1>3. Misread => Misread'
  BY <1>2 DEF Later, Misread, CountTypes
<1> QED
  BY <1>1, <1>2, <1>3 DEF Later, Sane, Exact

\* Such a step keeps the count right.
LEMMA LandingIsRight ==
  ASSUME CountInv, CountTypes', Lands
  PROVE  Snapshots' /\ NoRecount' /\ NoDrift' /\ NoOvercount'
<1> USE DEF CountInv
<1>1. (Sane' => Sane) /\ (Exact' => Exact)
  BY LaterFacts DEF Lands
<1>2. Drift \in Int /\ Drift' \in Int /\ count \in Int /\ count' \in Int
  BY TotalsAreInt, TotalsStayInt DEF CountTypes, Numbers
<1>3. NoDrift'
  BY <1>1 DEF NoDrift, Lands, Exact
<1>4. NoOvercount'
  BY <1>1, <1>2 DEF NoOvercount, Lands, Sane
<1>5. NoRecount'
  BY <1>1 DEF NoRecount, Trusted, Lands
<1>6. ASSUME Sane', NEW r \in Reconcilers, Trusted(r)'
      PROVE  /\ seen'[r].count < seen'[r].rows /\ seen'[r].count <= count'
             /\ count' = seen'[r].count =>
                  seen'[r].rows + delta' + InHand' <= Cardinality(likes')
  <2>1. Trusted(r) /\ seen'[r] = seen[r]
    BY <1>6 DEF Trusted, Lands
  <2>2. /\ seen[r].count < seen[r].rows /\ seen[r].count <= count
        /\ count = seen[r].count => seen[r].rows + delta + InHand <= Cardinality(likes)
    BY <2>1, <1>1, <1>6 DEF Snapshots
  <2>3. seen[r].count \in Int /\ seen[r].rows \in Int
    BY DEF CountTypes
  <2>4. count' >= count /\ Drift' <= Drift
    BY <1>6 DEF Lands
  <2>5. InHand \in Int /\ Cardinality(likes) \in Nat /\ delta \in Int
    BY TotalsAreInt DEF CountTypes, Numbers
  <2>6. InHand' \in Int /\ Cardinality(likes') \in Nat /\ delta' \in Int
    BY TotalsStayInt DEF CountTypes, Numbers
  <2>7. /\ Drift = count + delta + InHand - Cardinality(likes)
        /\ Drift' = count' + delta' + InHand' - Cardinality(likes')
    BY DEF Drift
  <2> QED
    BY <2>1, <2>2, <2>3, <2>4, <2>5, <2>6, <2>7, <1>2
<1>7. Snapshots'
  BY <1>6 DEF Snapshots
<1> QED
  BY <1>3, <1>4, <1>5, <1>7

\* A change of the count, of the delta and of what is in hand, taken together.
LEMMA ChangeLands ==
  ASSUME CountTypes, CountTypes', Later, UNCHANGED <<likes, rpc, seen>>,
         NEW c \in Int, NEW d \in Int, NEW h \in Int,
         count' = count + c, delta' = delta + d, InHand' = InHand + h,
         Sane' => c + d + h <= 0 /\ c >= 0,
         Exact' => c + d + h = 0
  PROVE  Lands
<1>1. Numbers /\ count \in Int /\ delta \in Int
  BY TotalsAreInt DEF CountTypes
<1>2. Drift' = Drift + (c + d + h)
  BY <1>1 DEF Drift, Numbers
<1>3. Drift \in Int
  BY <1>1 DEF Numbers
<1>4. Sane' => Drift' <= Drift /\ count' >= count
  BY <1>1, <1>2, <1>3
<1>5. Exact' => Drift' = Drift
  BY <1>2, <1>3
<1> QED
  BY <1>4, <1>5 DEF Lands

\* ... by a request,
LEMMA RequestLands ==
  ASSUME CountTypes, NEW u \in Users, NEW s \in RequestSteps, Goto(u, s),
         UNCHANGED <<likes, sign, flushVars, reconVars, past>>,
         failures' \in [n : Nat, kinds : SUBSET Recorded],
         failures.kinds \subseteq failures'.kinds, failures.n <= failures'.n,
         NEW c \in Int, NEW d \in Int, count' = count + c, delta' = delta + d,
         Sane' => c + d + Held(s, sign[u]) - Held(pc[u], sign[u]) <= 0 /\ c >= 0,
         Exact' => c + d + Held(s, sign[u]) - Held(pc[u], sign[u]) = 0
  PROVE  CountTypes' /\ Lands
<1> DEFINE h == Held(s, sign[u]) - Held(pc[u], sign[u])
<1>1. pc' = [pc EXCEPT ![u] = s] /\ sign' = sign
  BY DEF Goto
<1>2. sign' \in [Users -> {-1, 0, 1}] /\ \A v \in Users \ {u} : sign'[v] = sign[v]
  BY <1>1 DEF CountTypes
<1>3. /\ pc' \in [Users -> RequestSteps]
      /\ Sums(Requests') /\ Total(Requests) \in Int
      /\ Total(Requests') = Total(Requests) + Held(s, sign'[u]) - Held(pc[u], sign[u])
  BY <1>1, <1>2, RequestMoves
<1>4. Flushes' = Flushes /\ Total(Flushes) \in Int
  BY TotalsAreInt DEF Flushes, flushVars, Numbers
<1>5. sign[u] \in Int /\ Held(s, sign[u]) \in Int /\ Held(pc[u], sign[u]) \in Int
  <2>1. sign[u] \in Int
    BY DEF CountTypes
  <2> QED
    BY <2>1 DEF Held
<1>6. h \in Int
  BY <1>5
<1>7. CountTypes'
  <2>1. count' \in Int /\ delta' \in Int
    BY DEF CountTypes
  <2> QED
    BY <2>1, <1>2, <1>3, <1>4 DEF CountTypes, flushVars, reconVars
<1>8. InHand' = InHand + h
  BY <1>1, <1>3, <1>4, <1>5 DEF InHand
<1>9. Later
  BY DEF Later
<1>10. UNCHANGED <<likes, rpc, seen>>
  BY DEF reconVars
<1>11. (Sane' => c + d + h <= 0 /\ c >= 0) /\ (Exact' => c + d + h = 0)
  BY <1>5
<1> HIDE DEF h
<1> QED
  BY <1>6, <1>7, <1>8, <1>9, <1>10, <1>11, ChangeLands

\* ... by a flusher.
LEMMA FlusherLands ==
  ASSUME CountTypes, NEW f \in Flushers, NEW s \in FlushSteps, NEW n \in Int,
         FGoto(f, s), took' = [took EXCEPT ![f] = n],
         UNCHANGED <<likes, requestVars, reconVars, past>>,
         failures' \in [n : Nat, kinds : SUBSET Recorded],
         failures.kinds \subseteq failures'.kinds, failures.n <= failures'.n,
         NEW c \in Int, NEW d \in Int, count' = count + c, delta' = delta + d,
         Sane' => c + d + Taken(s, n) - Taken(fpc[f], took[f]) <= 0 /\ c >= 0,
         Exact' => c + d + Taken(s, n) - Taken(fpc[f], took[f]) = 0
  PROVE  CountTypes' /\ Lands
<1> DEFINE h == Taken(s, n) - Taken(fpc[f], took[f])
<1>1. fpc' = [fpc EXCEPT ![f] = s]
  BY DEF FGoto
<1>2. /\ fpc' \in [Flushers -> FlushSteps] /\ took' \in [Flushers -> Int]
      /\ Sums(Flushes') /\ Total(Flushes) \in Int
      /\ Total(Flushes') = Total(Flushes) + Taken(s, n) - Taken(fpc[f], took[f])
  BY <1>1, FlusherMoves
<1>3. Requests' = Requests /\ Total(Requests) \in Int
  BY TotalsAreInt DEF Requests, requestVars, Numbers
<1>4. took[f] \in Int /\ Taken(s, n) \in Int /\ Taken(fpc[f], took[f]) \in Int
  <2>1. took[f] \in Int
    BY DEF CountTypes
  <2> QED
    BY <2>1 DEF Taken
<1>5. h \in Int
  BY <1>4
<1>6. CountTypes'
  <2>1. count' \in Int /\ delta' \in Int
    BY DEF CountTypes
  <2> QED
    BY <2>1, <1>2, <1>3 DEF CountTypes, requestVars, reconVars
<1>7. InHand' = InHand + h
  BY <1>2, <1>3, <1>4 DEF InHand
<1>8. Later
  BY DEF Later
<1>9. UNCHANGED <<likes, rpc, seen>>
  BY DEF reconVars
<1>10. (Sane' => c + d + h <= 0 /\ c >= 0) /\ (Exact' => c + d + h = 0)
  BY <1>4
<1> HIDE DEF h
<1> QED
  BY <1>5, <1>6, <1>7, <1>8, <1>9, <1>10, ChangeLands

\* Failures are not forgotten.
Grows ==
  /\ failures' \in [n : Nat, kinds : SUBSET Recorded]
  /\ failures.kinds \subseteq failures'.kinds /\ failures.n <= failures'.n

LEMMA NoFailure ==
  ASSUME CountTypes, UNCHANGED failures
  PROVE  Grows
BY DEF CountTypes, Grows

\* A failure is remembered: a stranding one ends the promises, a second one the
\* exact count.
LEMMA OneFailure ==
  ASSUME CountTypes, NEW k, Fails(k)
  PROVE  /\ Grows /\ failures'.n = failures.n + 1
         /\ k \in Stranding => ~Sane' /\ k \in failures'.kinds
         /\ k \in Recorded /\ k # "sadd" => ~Exact'
         /\ failures.n >= 1 => ~Exact'
<1>1. /\ failures' \in [n : Nat, kinds : SUBSET Recorded]
      /\ failures'.n = failures.n + 1
      /\ failures'.kinds = failures.kinds \cup ({k} \cap Recorded)
  BY Failing1
<1>2. failures.n \in Nat
  BY DEF CountTypes
<1>3. Grows
  BY <1>1, <1>2 DEF Grows
<1>4. ASSUME k \in Stranding PROVE ~Sane' /\ k \in failures'.kinds
  BY <1>1, <1>4 DEF Recorded, Sane, Unstranded
<1>5. ASSUME k \in Recorded, k # "sadd" PROVE ~Exact'
  BY <1>1, <1>5 DEF Exact
<1>6. ASSUME failures.n >= 1 PROVE ~Exact'
  BY <1>1, <1>2, <1>6 DEF Exact
<1> QED
  BY <1>1, <1>3, <1>4, <1>5, <1>6

LEMMA SaneBefore ==
  ASSUME CountTypes, Grows, UNCHANGED past, Sane'
  PROVE  Sane
BY DEF Grows, Sane, Unstranded

(* The steps of a request.                                                 *)

LEMMA IncrByLands ==
  ASSUME CountInv, NEW u \in Users, IncrBy(u)
  PROVE  CountTypes' /\ Lands /\ Grows
<1> USE DEF CountInv
<1>1. /\ pc[u] = "incr" /\ UNCHANGED <<likes, count, sign, flushVars, reconVars, past>>
      /\ sign[u] \in Int /\ 0 \in Int /\ count' = count + 0 /\ delta + 0 = delta
  <2>1. sign[u] \in Int /\ 0 \in Int /\ count + 0 = count /\ delta + 0 = delta
    BY DEF CountTypes
  <2> QED
    BY <2>1 DEF IncrBy
<1>2. Held("incr", sign[u]) = sign[u] /\ Held("fallback", sign[u]) = sign[u] /\ Held("sadd", sign[u]) = 0
  BY DEF Held
<1>3. {"sadd", "fallback"} \subseteq RequestSteps
  BY DEF RequestSteps
<1>4. CASE delta' = delta + sign[u] /\ Goto(u, "sadd") /\ UNCHANGED failures
  <2>1. Grows
    BY <1>4, NoFailure
  <2>2. 0 + sign[u] + 0 - sign[u] <= 0 /\ 0 >= 0 /\ 0 + sign[u] + 0 - sign[u] = 0
    BY <1>1
  <2> QED
    BY <1>1, <1>2, <1>3, <1>4, <2>1, <2>2, RequestLands DEF Grows
<1>5. CASE Fails("incr") /\ Goto(u, "fallback") /\ UNCHANGED delta
  <2>1. Grows
    BY <1>5, OneFailure
  <2>2. 0 + 0 + sign[u] - sign[u] <= 0 /\ 0 >= 0 /\ 0 + 0 + sign[u] - sign[u] = 0
    BY <1>1
  <2> QED
    BY <1>1, <1>2, <1>3, <1>5, <2>1, <2>2, RequestLands DEF Grows
<1>6. CASE Fails("incrLost") /\ Goto(u, "fallback") /\ delta' = delta + sign[u]
  <2>1. Grows /\ ~Sane' /\ ~Exact'
    BY <1>6, OneFailure DEF Stranding, Recorded
  <2> QED
    BY <1>1, <1>3, <1>6, <2>1, RequestLands DEF Grows
<1> QED
  BY <1>4, <1>5, <1>6 DEF IncrBy

LEMMA SAddLands ==
  ASSUME CountInv, NEW u \in Users, SAdd(u)
  PROVE  CountTypes' /\ Lands /\ Grows
<1> USE DEF CountInv
<1>1. /\ pc[u] = "sadd" /\ UNCHANGED <<likes, sign, flushVars, reconVars, past>>
      /\ 0 \in Int /\ count' = count + 0 /\ delta' = delta + 0
  BY DEF CountTypes, SAdd
<1>2. PICK s \in {"idle", "undo"} : Goto(u, s) /\ Grows
  BY NoFailure, OneFailure DEF SAdd
<1>3. s \in RequestSteps /\ Held("sadd", sign[u]) = 0 /\ Held(s, sign[u]) = 0
  BY DEF RequestSteps, Held
<1>4. 0 + 0 + 0 - 0 <= 0 /\ 0 >= 0 /\ 0 + 0 + 0 - 0 = 0
  OBVIOUS
<1> QED
  BY <1>1, <1>2, <1>3, <1>4, RequestLands DEF Grows

LEMMA UndoLands ==
  ASSUME CountInv, NEW u \in Users, Undo(u)
  PROVE  CountTypes' /\ Lands /\ Grows
<1> USE DEF CountInv
<1>1. /\ pc[u] = "undo" /\ UNCHANGED <<likes, sign, flushVars, reconVars, past>>
      /\ sign[u] \in Int /\ -sign[u] \in Int /\ 0 \in Int /\ count' = count + 0
      /\ delta + (-sign[u]) = delta - sign[u] /\ delta + 0 = delta
  <2>1. /\ sign[u] \in Int /\ -sign[u] \in Int /\ 0 \in Int /\ count + 0 = count
        /\ delta + (-sign[u]) = delta - sign[u] /\ delta + 0 = delta
    BY DEF CountTypes
  <2> QED
    BY <2>1 DEF Undo
<1>2. Held("undo", sign[u]) = 0 /\ Held("fallback", sign[u]) = sign[u] /\ Held("idle", sign[u]) = 0
  BY DEF Held
<1>3. {"idle", "fallback"} \subseteq RequestSteps
  BY DEF RequestSteps
<1>4. CASE delta' = delta - sign[u] /\ Goto(u, "fallback") /\ UNCHANGED failures
  <2>1. Grows
    BY <1>4, NoFailure
  <2>2. 0 + (-sign[u]) + sign[u] - 0 <= 0 /\ 0 >= 0 /\ 0 + (-sign[u]) + sign[u] - 0 = 0
    BY <1>1
  <2>3. delta' = delta + (-sign[u])
    BY <1>1, <1>4
  <2> QED
    BY <1>1, <1>2, <1>3, <1>4, <2>1, <2>2, <2>3, RequestLands DEF Grows
<1>5. CASE Fails("undo") /\ Goto(u, "idle") /\ UNCHANGED delta
  <2>1. Grows
    BY <1>5, OneFailure
  <2>2. 0 + 0 + 0 - 0 <= 0 /\ 0 >= 0 /\ 0 + 0 + 0 - 0 = 0
    OBVIOUS
  <2> QED
    BY <1>1, <1>2, <1>3, <1>5, <2>1, <2>2, RequestLands DEF Grows
<1> QED
  BY <1>4, <1>5 DEF Undo

LEMMA FallbackLands ==
  ASSUME CountInv, NEW u \in Users, Fallback(u)
  PROVE  CountTypes' /\ Lands /\ Grows
<1> USE DEF CountInv
<1>1. /\ pc[u] = "fallback" /\ UNCHANGED <<likes, sign, flushVars, reconVars, past>>
      /\ Goto(u, "idle")
      /\ sign[u] \in Int /\ 0 \in Int /\ delta' = delta + 0 /\ count + 0 = count
  <2>1. sign[u] \in Int /\ 0 \in Int /\ count + 0 = count /\ delta + 0 = delta
    BY DEF CountTypes
  <2> QED
    BY <2>1 DEF Fallback
<1>2. Held("fallback", sign[u]) = sign[u] /\ Held("idle", sign[u]) = 0 /\ "idle" \in RequestSteps
  BY DEF Held, RequestSteps
<1>3. Grows => (Sane' => sign[u] = 1)
  BY <1>1, SaneBefore DEF Positive
<1>4. CASE count' = count + sign[u] /\ UNCHANGED failures
  <2>1. Grows
    BY <1>4, NoFailure
  <2>2. /\ Sane' => sign[u] + 0 + 0 - sign[u] <= 0 /\ sign[u] >= 0
        /\ sign[u] + 0 + 0 - sign[u] = 0
    BY <1>1, <1>3, <2>1
  <2> QED
    BY <1>1, <1>2, <1>4, <2>1, <2>2, RequestLands DEF Grows
<1>5. CASE Fails("fallback") /\ UNCHANGED count
  <2>1. Grows /\ ~Exact'
    BY <1>1, <1>5, OneFailure DEF Failed
  <2>2. Sane' => 0 + 0 + 0 - sign[u] <= 0 /\ 0 >= 0
    BY <1>1, <1>3, <2>1
  <2> QED
    BY <1>1, <1>2, <1>5, <2>1, <2>2, RequestLands DEF Grows
<1> QED
  BY <1>4, <1>5 DEF Fallback

LEMMA RequestCrashLands ==
  ASSUME CountInv, NEW u \in Users, RequestCrash(u)
  PROVE  CountTypes' /\ Lands /\ Grows
<1> USE DEF CountInv
<1>1. /\ pc[u] # "idle" /\ UNCHANGED <<likes, sign, flushVars, reconVars, past>>
      /\ Goto(u, "idle")
      /\ sign[u] \in Int /\ 0 \in Int /\ delta' = delta + 0 /\ count' = count + 0
  <2>1. sign[u] \in Int /\ 0 \in Int /\ count + 0 = count /\ delta + 0 = delta
    BY DEF CountTypes
  <2> QED
    BY <2>1 DEF RequestCrash
<1>2. Held("idle", sign[u]) = 0 /\ "idle" \in RequestSteps
  BY DEF Held, RequestSteps
<1>3. Grows /\ ~Exact'
  BY OneFailure DEF RequestCrash, Recorded, Stranding
<1>4. Sane' => 0 + 0 + 0 - Held(pc[u], sign[u]) <= 0 /\ 0 >= 0
  <2>1. Sane' => sign[u] = 1
    BY <1>1, <1>3, SaneBefore DEF Positive
  <2> QED
    BY <2>1 DEF Held
<1> QED
  BY <1>1, <1>2, <1>3, <1>4, RequestLands DEF Grows

(* The steps of a flusher.                                                 *)

\* took stays where a flusher does not touch it.
LEMMA TookStays ==
  ASSUME CountTypes, NEW f \in Flushers, UNCHANGED took
  PROVE  took' = [took EXCEPT ![f] = took[f]]
BY DEF CountTypes

LEMMA SPopLands ==
  ASSUME CountInv, NEW f \in Flushers, SPop(f)
  PROVE  CountTypes' /\ Lands /\ Grows
<1> USE DEF CountInv
<1>1. /\ fpc[f] = "idle" /\ FGoto(f, "popped")
      /\ UNCHANGED <<likes, took, requestVars, reconVars, past, failures>>
      /\ took[f] \in Int /\ 0 \in Int /\ count' = count + 0 /\ delta' = delta + 0
  <2>1. took[f] \in Int /\ 0 \in Int /\ count + 0 = count /\ delta + 0 = delta
    BY DEF CountTypes
  <2> QED
    BY <2>1 DEF SPop, bounds
<1>2. Taken("idle", took[f]) = 0 /\ Taken("popped", took[f]) = 0 /\ "popped" \in FlushSteps
  BY DEF Taken, FlushSteps
<1>3. Grows
  BY <1>1, NoFailure
<1>4. 0 + 0 + 0 - 0 <= 0 /\ 0 >= 0 /\ 0 + 0 + 0 - 0 = 0
  OBVIOUS
<1>5. took' = [took EXCEPT ![f] = took[f]]
  BY <1>1, TookStays
<1> QED
  BY <1>1, <1>2, <1>3, <1>4, <1>5, FlusherLands DEF Grows

LEMMA GetDelLands ==
  ASSUME CountInv, NEW f \in Flushers, GetDel(f)
  PROVE  CountTypes' /\ Lands /\ Grows
<1> USE DEF CountInv
<1>1. /\ fpc[f] = "popped" /\ UNCHANGED <<likes, requestVars, reconVars, past>>
      /\ took[f] \in Int /\ delta \in Int /\ 0 \in Int
      /\ count' = count + 0 /\ delta + 0 = delta
  <2>1. took[f] \in Int /\ delta \in Int /\ 0 \in Int /\ count + 0 = count /\ delta + 0 = delta
    BY DEF CountTypes
  <2> QED
    BY <2>1 DEF GetDel
<1>2. /\ Taken("popped", took[f]) = 0 /\ Taken("idle", took[f]) = 0
      /\ {"idle", "took"} \subseteq FlushSteps
  BY DEF Taken, FlushSteps
<1>3. CASE /\ took' = [took EXCEPT ![f] = delta] /\ delta' = 0
           /\ FGoto(f, IF delta = 0 THEN "idle" ELSE "took")
           /\ UNCHANGED failures
  <2>1. Grows
    BY <1>3, NoFailure
  <2>2. PICK s \in {"idle", "took"} : s = IF delta = 0 THEN "idle" ELSE "took"
    BY Zenon
  <2>3. Taken(s, delta) = delta
    BY <2>2, <1>1 DEF Taken
  <2>4. -delta \in Int /\ delta' = delta + (-delta)
    BY <1>1, <1>3
  <2>5. 0 + (-delta) + delta - 0 <= 0 /\ 0 >= 0 /\ 0 + (-delta) + delta - 0 = 0
    BY <1>1
  <2>6. FGoto(f, s) /\ s \in FlushSteps
    BY <2>2, <1>2, <1>3
  <2> QED
    BY <1>1, <1>2, <1>3, <2>1, <2>3, <2>4, <2>5, <2>6, FlusherLands DEF Grows
<1>4. CASE /\ Fails("getdel") \/ Fail({"getdel", "sadd"})
           /\ FGoto(f, "idle") /\ UNCHANGED <<delta, took>>
  <2>1. Grows
    BY <1>4, OneFailure, Failing2 DEF Grows
  <2>2. 0 + 0 + 0 - 0 <= 0 /\ 0 >= 0 /\ 0 + 0 + 0 - 0 = 0
    OBVIOUS
  <2>3. took' = [took EXCEPT ![f] = took[f]]
    BY <1>4, TookStays
  <2>4. count' = count + 0 /\ delta' = delta + 0
    BY <1>1, <1>4
  <2>5. FGoto(f, "idle")
    BY <1>4
  <2> QED
    BY <1>1, <1>2, <2>1, <2>2, <2>3, <2>4, <2>5, FlusherLands DEF Grows
<1> QED
  BY <1>3, <1>4 DEF GetDel

LEMMA SinkAddLands ==
  ASSUME CountInv, NEW f \in Flushers, SinkAdd(f)
  PROVE  CountTypes' /\ Lands /\ Grows
<1> USE DEF CountInv
<1>1. /\ fpc[f] = "took" /\ UNCHANGED <<likes, requestVars, reconVars, past>>
      /\ took[f] \in Int /\ 0 \in Int /\ delta' = delta + 0 /\ count + 0 = count
  <2>1. took[f] \in Int /\ 0 \in Int /\ count + 0 = count /\ delta + 0 = delta
    BY DEF CountTypes
  <2> QED
    BY <2>1 DEF SinkAdd
<1>2. /\ Taken("took", took[f]) = took[f] /\ Taken("back", took[f]) = took[f] /\ Taken("idle", 0) = 0
      /\ {"idle", "back"} \subseteq FlushSteps
  BY DEF Taken, FlushSteps
<1>3. CASE /\ count' = count + took[f] /\ took' = [took EXCEPT ![f] = 0]
           /\ FGoto(f, "idle") /\ UNCHANGED failures
  <2>1. Grows
    BY <1>3, NoFailure
  <2>2. Sane' => took[f] > 0
    BY <1>1, <2>1, SaneBefore DEF Positive
  <2>3. /\ Sane' => took[f] + 0 + 0 - took[f] <= 0 /\ took[f] >= 0
        /\ took[f] + 0 + 0 - took[f] = 0
    BY <1>1, <2>2
  <2> QED
    BY <1>1, <1>2, <1>3, <2>1, <2>3, FlusherLands DEF Grows
<1>4. CASE Fails("add") /\ FGoto(f, "back") /\ UNCHANGED <<count, took>>
  <2>1. Grows
    BY <1>4, OneFailure
  <2>2. 0 + 0 + took[f] - took[f] <= 0 /\ 0 >= 0 /\ 0 + 0 + took[f] - took[f] = 0
    BY <1>1
  <2>3. took' = [took EXCEPT ![f] = took[f]]
    BY <1>4, TookStays
  <2>4. count' = count + 0 /\ delta' = delta + 0
    BY <1>1, <1>4
  <2>5. FGoto(f, "back")
    BY <1>4
  <2> QED
    BY <1>1, <1>2, <2>1, <2>2, <2>3, <2>4, <2>5, FlusherLands DEF Grows
<1>5. CASE Fails("addLost") /\ FGoto(f, "back") /\ count' = count + took[f] /\ UNCHANGED took
  <2>1. Grows /\ ~Sane' /\ ~Exact'
    BY <1>5, OneFailure DEF Stranding, Recorded
  <2>2. took' = [took EXCEPT ![f] = took[f]]
    BY <1>5, TookStays
  <2>3. /\ Sane' => took[f] + 0 + 0 - took[f] <= 0 /\ took[f] >= 0
        /\ Exact' => took[f] + 0 + 0 - took[f] = 0
    BY <2>1
  <2> QED
    BY <1>1, <1>2, <1>5, <2>1, <2>2, <2>3, FlusherLands DEF Grows
<1> QED
  BY <1>3, <1>4, <1>5 DEF SinkAdd

LEMMA BackIncrByLands ==
  ASSUME CountInv, NEW f \in Flushers, BackIncrBy(f)
  PROVE  CountTypes' /\ Lands /\ Grows
<1> USE DEF CountInv
<1>1. /\ fpc[f] = "back" /\ UNCHANGED <<likes, requestVars, reconVars, past>>
      /\ took[f] \in Int /\ 0 \in Int /\ count' = count + 0 /\ delta + 0 = delta
  <2>1. took[f] \in Int /\ 0 \in Int /\ count + 0 = count /\ delta + 0 = delta
    BY DEF CountTypes
  <2> QED
    BY <2>1 DEF BackIncrBy
<1>2. /\ Taken("back", took[f]) = took[f] /\ Taken("backMark", took[f]) = 0 /\ Taken("idle", 0) = 0
      /\ {"idle", "backMark"} \subseteq FlushSteps
  BY DEF Taken, FlushSteps
<1>3. CASE delta' = delta + took[f] /\ FGoto(f, "backMark") /\ UNCHANGED <<took, failures>>
  <2>1. Grows
    BY <1>3, NoFailure
  <2>2. 0 + took[f] + 0 - took[f] <= 0 /\ 0 >= 0 /\ 0 + took[f] + 0 - took[f] = 0
    BY <1>1
  <2>3. took' = [took EXCEPT ![f] = took[f]]
    BY <1>3, TookStays
  <2>4. delta' = delta + took[f] /\ FGoto(f, "backMark")
    BY <1>3
  <2> QED
    BY <1>1, <1>2, <2>1, <2>2, <2>3, <2>4, FlusherLands DEF Grows
<1>4. CASE /\ Fails("incr") /\ FGoto(f, "idle")
           /\ took' = [took EXCEPT ![f] = 0] /\ UNCHANGED delta
  <2>1. Grows /\ ~Exact'
    BY <1>1, <1>4, OneFailure DEF Failed
  <2>2. Sane' => took[f] > 0
    BY <1>1, <2>1, SaneBefore DEF Positive
  <2>3. Sane' => 0 + 0 + 0 - took[f] <= 0 /\ 0 >= 0
    BY <1>1, <2>2
  <2> QED
    BY <1>1, <1>2, <1>4, <2>1, <2>3, FlusherLands DEF Grows
<1>5. CASE /\ Fails("incrLost") /\ FGoto(f, "idle")
           /\ took' = [took EXCEPT ![f] = 0] /\ delta' = delta + took[f]
  <2>1. Grows /\ ~Sane' /\ ~Exact'
    BY <1>5, OneFailure DEF Stranding, Recorded
  <2>2. 0 + took[f] + 0 - took[f] <= 0 /\ 0 >= 0 /\ 0 + took[f] + 0 - took[f] = 0
    BY <1>1
  <2> QED
    BY <1>1, <1>2, <1>5, <2>1, <2>2, FlusherLands DEF Grows
<1> QED
  BY <1>3, <1>4, <1>5 DEF BackIncrBy

LEMMA BackSAddLands ==
  ASSUME CountInv, NEW f \in Flushers, BackSAdd(f)
  PROVE  CountTypes' /\ Lands /\ Grows
<1> USE DEF CountInv
<1>1. /\ fpc[f] = "backMark" /\ UNCHANGED <<likes, requestVars, reconVars, past>>
      /\ took[f] \in Int /\ 0 \in Int /\ count' = count + 0 /\ delta' = delta + 0
  <2>1. took[f] \in Int /\ 0 \in Int /\ count + 0 = count /\ delta + 0 = delta
    BY DEF CountTypes
  <2> QED
    BY <2>1 DEF BackSAdd
<1>2. Grows
  BY NoFailure, OneFailure DEF BackSAdd
<1>3. PICK s \in {"idle", "backUndo"}, n \in Int : FGoto(f, s) /\ took' = [took EXCEPT ![f] = n]
  BY <1>1, TookStays DEF BackSAdd
<1>4. /\ s \in FlushSteps
      /\ Taken("backMark", took[f]) = 0 /\ Taken(s, n) = 0
  BY DEF Taken, FlushSteps
<1>5. 0 + 0 + 0 - 0 <= 0 /\ 0 >= 0 /\ 0 + 0 + 0 - 0 = 0
  OBVIOUS
<1> QED
  BY <1>1, <1>2, <1>3, <1>4, <1>5, FlusherLands DEF Grows

LEMMA BackUndoLands ==
  ASSUME CountInv, NEW f \in Flushers, BackUndo(f)
  PROVE  CountTypes' /\ Lands /\ Grows
<1> USE DEF CountInv
<1>1. /\ fpc[f] = "backUndo" /\ UNCHANGED <<likes, requestVars, reconVars, past>>
      /\ took' = [took EXCEPT ![f] = 0] /\ FGoto(f, "idle")
      /\ took[f] \in Int /\ 0 \in Int /\ count' = count + 0
  <2>1. took[f] \in Int /\ 0 \in Int /\ count + 0 = count
    BY DEF CountTypes
  <2> QED
    BY <2>1 DEF BackUndo
<1>2. Grows
  BY NoFailure, OneFailure DEF BackUndo
<1>3. ~Sane' /\ ~Exact'
  <2>1. "sadd" \in failures'.kinds /\ failures'.n >= 2
    BY <1>1, <1>2 DEF Failed, Grows, CountTypes
  <2>2. failures'.n \in Nat
    BY <1>2 DEF Grows
  <2> QED
    BY <2>1, <2>2 DEF Sane, Unstranded, Exact, Stranding
<1>4. "idle" \in FlushSteps
  BY DEF FlushSteps
<1>5. PICK d \in Int : delta' = delta + d
  <2>1. delta \in Int /\ -took[f] \in Int /\ delta + (-took[f]) = delta - took[f] /\ delta + 0 = delta
    BY <1>1 DEF CountTypes
  <2> QED
    BY <2>1 DEF BackUndo
<1> QED
  BY <1>1, <1>2, <1>3, <1>4, <1>5, FlusherLands DEF Grows

LEMMA FlushCrashLands ==
  ASSUME CountInv, NEW f \in Flushers, FlushCrash(f)
  PROVE  CountTypes' /\ Lands /\ Grows
<1> USE DEF CountInv
<1>1. /\ UNCHANGED <<likes, requestVars, reconVars, past>>
      /\ took' = [took EXCEPT ![f] = 0] /\ FGoto(f, "idle")
      /\ took[f] \in Int /\ 0 \in Int /\ count' = count + 0 /\ delta' = delta + 0
  <2>1. took[f] \in Int /\ 0 \in Int /\ count + 0 = count /\ delta + 0 = delta
    BY DEF CountTypes
  <2> QED
    BY <2>1 DEF FlushCrash
<1>2. "idle" \in FlushSteps /\ Taken("idle", 0) = 0
  BY DEF FlushSteps, Taken
<1>3. Grows /\ ~Exact'
  BY OneFailure DEF FlushCrash, Recorded, Stranding
<1>4. Sane' => 0 + 0 + 0 - Taken(fpc[f], took[f]) <= 0 /\ 0 >= 0
  <2>1. Sane' => (fpc[f] \in {"took", "back"} => took[f] > 0)
    BY <1>1, <1>3, SaneBefore DEF Positive
  <2> QED
    BY <2>1, <1>1 DEF Taken
<1> QED
  BY <1>1, <1>2, <1>3, <1>4, FlusherLands DEF Grows

LEMMA LikePostLands ==
  ASSUME CountInv, NEW u \in Users, LikePost(u)
  PROVE  CountTypes' /\ Lands /\ Grows
<1> USE DEF CountInv
<1>1. /\ pc[u] = "idle" /\ u \notin likes /\ likes' = likes \cup {u}
      /\ pc' = [pc EXCEPT ![u] = "incr"] /\ sign' = [sign EXCEPT ![u] = 1]
      /\ UNCHANGED <<count, delta, flushVars, reconVars, failures, past>>
  BY DEF LikePost, Goto
<1>2. /\ sign' \in [Users -> {-1, 0, 1}] /\ sign'[u] = 1
      /\ \A v \in Users \ {u} : sign'[v] = sign[v]
  BY <1>1 DEF CountTypes
<1>3. /\ pc' \in [Users -> RequestSteps]
      /\ Sums(Requests') /\ Total(Requests) \in Int
      /\ Total(Requests') = Total(Requests) + Held("incr", sign'[u]) - Held(pc[u], sign[u])
  BY <1>1, <1>2, "incr" \in RequestSteps, RequestMoves DEF RequestSteps
<1>4. Total(Requests') = Total(Requests) + 1
  BY <1>1, <1>2, <1>3 DEF Held
<1>5. IsFiniteSet(likes') /\ Cardinality(likes') = Cardinality(likes) + 1
  BY <1>1, FS_AddElement DEF CountTypes
<1>6. Flushes' = Flushes
  BY <1>1 DEF Flushes, flushVars
<1>7. CountTypes'
  BY <1>1, <1>2, <1>3, <1>5, <1>6 DEF CountTypes, flushVars, reconVars
<1>8. Drift' = Drift
  <2>1. Numbers /\ count \in Int /\ delta \in Int
    BY TotalsAreInt DEF CountTypes
  <2>2. InHand' = InHand + 1
    BY <2>1, <1>4, <1>6 DEF InHand, Numbers
  <2> QED
    BY <2>1, <2>2, <1>1, <1>5 DEF Drift, Numbers
<1>9. Grows
  BY <1>1, NoFailure
<1>10. Drift \in Int /\ count \in Int
  BY TotalsAreInt DEF Numbers, CountTypes
<1>11. Later /\ UNCHANGED <<rpc, seen>>
  BY <1>1, <1>9 DEF Later, Grows, reconVars
<1>12. Drift' <= Drift /\ count' >= count
  BY <1>1, <1>8, <1>10
<1> QED
  BY <1>7, <1>8, <1>9, <1>11, <1>12 DEF Lands

LEMMA UnlikePostLands ==
  ASSUME CountInv, NEW u \in Users, UnlikePost(u)
  PROVE  CountTypes' /\ Lands /\ Grows
<1> USE DEF CountInv
<1>1. /\ pc[u] = "idle" /\ u \in likes /\ likes' = likes \ {u}
      /\ pc' = [pc EXCEPT ![u] = "incr"] /\ sign' = [sign EXCEPT ![u] = -1]
      /\ past' = [past EXCEPT !.unliked = TRUE]
      /\ UNCHANGED <<count, delta, flushVars, reconVars, failures>>
  BY DEF UnlikePost, Goto
<1>2. /\ sign' \in [Users -> {-1, 0, 1}] /\ sign'[u] = -1
      /\ \A v \in Users \ {u} : sign'[v] = sign[v]
  BY <1>1 DEF CountTypes
<1>3. /\ pc' \in [Users -> RequestSteps]
      /\ Sums(Requests') /\ Total(Requests) \in Int
      /\ Total(Requests') = Total(Requests) + Held("incr", sign'[u]) - Held(pc[u], sign[u])
  BY <1>1, <1>2, "incr" \in RequestSteps, RequestMoves DEF RequestSteps
<1>4. Total(Requests') = Total(Requests) - 1
  BY <1>1, <1>2, <1>3 DEF Held
<1>5. IsFiniteSet(likes') /\ Cardinality(likes') = Cardinality(likes) - 1
  BY <1>1, FS_RemoveElement DEF CountTypes
<1>6. Flushes' = Flushes
  BY <1>1 DEF Flushes, flushVars
<1>7. /\ past' \in [unliked : BOOLEAN, recounted : BOOLEAN]
      /\ past'.unliked = TRUE /\ past'.recounted = past.recounted
  BY <1>1 DEF CountTypes
<1>8. CountTypes'
  BY <1>1, <1>2, <1>3, <1>5, <1>6, <1>7 DEF CountTypes, flushVars, reconVars
<1>9. Drift' = Drift
  <2>1. Numbers /\ count \in Int /\ delta \in Int
    BY TotalsAreInt DEF CountTypes
  <2>2. InHand' = InHand - 1
    BY <2>1, <1>4, <1>6 DEF InHand, Numbers
  <2> QED
    BY <2>1, <2>2, <1>1, <1>5 DEF Drift, Numbers
<1>10. Grows
  BY <1>1, NoFailure
<1>11. Later /\ UNCHANGED <<rpc, seen>>
  BY <1>1, <1>7, <1>10 DEF Later, Grows, reconVars
<1>12. ~Sane'
  BY <1>7 DEF Sane
<1> QED
  BY <1>8, <1>9, <1>10, <1>11, <1>12 DEF Lands

LEMMA QuietPassesLands ==
  ASSUME CountInv, QuietPasses
  PROVE  CountTypes' /\ Lands /\ Grows
<1> USE DEF CountInv
<1>1. UNCHANGED <<likes, count, delta, pc, sign, fpc, took, rpc, seen, failures, past>>
  BY DEF QuietPasses, requestVars, flushVars, reconVars, bounds
<1>2. Requests' = Requests /\ Flushes' = Flushes
  BY <1>1 DEF Requests, Flushes
<1>3. CountTypes'
  BY <1>1, <1>2 DEF CountTypes
<1>4. Drift' = Drift /\ Drift \in Int /\ count \in Int
  BY <1>1, <1>2, TotalsAreInt DEF Drift, InHand, Numbers, CountTypes
<1>5. Grows
  BY <1>1, NoFailure
<1>6. Later
  BY <1>1, <1>5 DEF Later, Grows
<1>7. Drift' <= Drift /\ count' >= count
  BY <1>1, <1>4
<1> QED
  BY <1>1, <1>3, <1>4, <1>5, <1>6, <1>7 DEF Lands

(* The parts of the invariant that say where everyone is.                  *)

LEMMA LikePostRest ==
  ASSUME CountInv, CountTypes', Grows, NEW u \in Users, LikePost(u)
  PROVE  Failed' /\ Positive' /\ Calm' /\ Scheduled'
<1> USE DEF CountInv, CountTypes, Grows, LikePost, Goto, requestVars, flushVars
<1>1. Failed'
  BY DEF Failed
<1>2. Positive'
  BY SaneBefore DEF Positive, Sane
<1>3. Calm'
  BY DEF Calm
<1>4. Scheduled'
  BY DEF Scheduled, Unstranded
<1> QED
  BY <1>1, <1>2, <1>3, <1>4

LEMMA UnlikePostRest ==
  ASSUME CountInv, CountTypes', Grows, NEW u \in Users, UnlikePost(u)
  PROVE  Failed' /\ Positive' /\ Calm' /\ Scheduled'
<1> USE DEF CountInv, CountTypes, Grows, UnlikePost, Goto, requestVars, flushVars
<1>1. Failed'
  BY DEF Failed
<1>2. Positive'
  BY SaneBefore DEF Positive, Sane
<1>3. Calm'
  BY DEF Calm
<1>4. Scheduled'
  BY DEF Scheduled, Unstranded
<1> QED
  BY <1>1, <1>2, <1>3, <1>4

LEMMA IncrByRest ==
  ASSUME CountInv, CountTypes', Grows, NEW u \in Users, IncrBy(u)
  PROVE  Failed' /\ Positive' /\ Calm' /\ Scheduled'
<1> USE DEF CountInv, CountTypes, Grows, IncrBy, Goto, requestVars, flushVars
<1>1. Failed'
  BY OneFailure DEF Failed
<1>2. Positive'
  BY SaneBefore, OneFailure DEF Positive, Failed, Sane, Stranding
<1>3. Calm'
  BY DEF Calm
<1>4. Scheduled'
  BY OneFailure DEF Scheduled, Unstranded, Stranding
<1> QED
  BY <1>1, <1>2, <1>3, <1>4

LEMMA SAddRest ==
  ASSUME CountInv, CountTypes', Grows, NEW u \in Users, SAdd(u)
  PROVE  Failed' /\ Positive' /\ Calm' /\ Scheduled'
<1> USE DEF CountInv, CountTypes, Grows, SAdd, Goto, requestVars, flushVars
<1>1. Failed'
  <2>1. \/ Goto(u, "idle")
        \/ Goto(u, "undo") /\ "sadd" \in failures'.kinds /\ failures'.n = failures.n + 1
    BY OneFailure DEF Stranding
  <2> QED
    BY <2>1 DEF Failed
<1>2. Positive'
  BY SaneBefore, OneFailure DEF Positive, Failed, Sane, Stranding
<1>3. Calm'
  BY DEF Calm
<1>4. Scheduled'
  BY OneFailure DEF Scheduled, Unstranded, Stranding
<1> QED
  BY <1>1, <1>2, <1>3, <1>4

LEMMA UndoRest ==
  ASSUME CountInv, CountTypes', Grows, NEW u \in Users, Undo(u)
  PROVE  Failed' /\ Positive' /\ Calm' /\ Scheduled'
<1> USE DEF CountInv
<1>1. ~Unstranded'
  BY DEF Undo, Failed, Grows, Unstranded, Stranding
<1>2. Failed'
  BY OneFailure DEF Undo, requestVars, flushVars, Goto, Failed, CountTypes, Grows
<1>3. Calm'
  BY DEF Undo, requestVars, flushVars, Goto, Calm, CountTypes
<1> QED
  BY <1>1, <1>2, <1>3 DEF Positive, Sane, Scheduled

LEMMA FallbackRest ==
  ASSUME CountInv, CountTypes', Grows, NEW u \in Users, Fallback(u)
  PROVE  Failed' /\ Positive' /\ Calm' /\ Scheduled'
<1> USE DEF CountInv, CountTypes, Grows, Fallback, Goto, requestVars, flushVars
<1>1. Failed'
  BY OneFailure DEF Failed
<1>2. Positive'
  BY SaneBefore, OneFailure DEF Positive, Failed, Sane, Stranding
<1>3. Calm'
  BY DEF Calm
<1>4. Scheduled'
  BY OneFailure DEF Scheduled, Unstranded, Stranding
<1> QED
  BY <1>1, <1>2, <1>3, <1>4

LEMMA RequestCrashRest ==
  ASSUME CountInv, CountTypes', Grows, NEW u \in Users, RequestCrash(u)
  PROVE  Failed' /\ Positive' /\ Calm' /\ Scheduled'
<1> USE DEF CountInv
<1>1. /\ pc' = [pc EXCEPT ![u] = "idle"]
      /\ UNCHANGED <<recent, delta, dirty, fpc, took, sign, past>>
  BY DEF RequestCrash, Goto, requestVars, flushVars
<1>2. pc[u] \in {"sadd", "undo"} => ~Unstranded'
  BY OneFailure DEF RequestCrash, Stranding, Unstranded
<1>3. Failed'
  BY <1>1 DEF Failed, CountTypes, Grows
<1>4. Positive'
  BY <1>1, SaneBefore DEF Positive, CountTypes
<1>5. Calm'
  BY <1>1 DEF Calm, CountTypes
<1>6. Scheduled'
  BY <1>1, <1>2 DEF Scheduled, CountTypes, Grows, Unstranded
<1> QED
  BY <1>3, <1>4, <1>5, <1>6

LEMMA SPopRest ==
  ASSUME CountInv, CountTypes', Grows, NEW f \in Flushers, SPop(f)
  PROVE  Failed' /\ Positive' /\ Calm' /\ Scheduled'
<1> USE DEF CountInv, CountTypes, Grows, SPop, FGoto, requestVars, flushVars, bounds
<1>1. Failed'
  BY DEF Failed
<1>2. Positive'
  BY SaneBefore DEF Positive, Sane
<1>3. Calm'
  BY DEF Calm
<1>4. Scheduled'
  BY DEF Scheduled, Unstranded
<1> QED
  BY <1>1, <1>2, <1>3, <1>4

LEMMA GetDelRest ==
  ASSUME CountInv, CountTypes', Grows, NEW f \in Flushers, GetDel(f)
  PROVE  Failed' /\ Positive' /\ Calm' /\ Scheduled'
<1> USE DEF CountInv, CountTypes, Grows, GetDel, FGoto, requestVars, flushVars
<1>1. Failed'
  BY OneFailure DEF Failed
<1>2. Positive'
  BY SaneBefore, OneFailure DEF Positive, Failed, Sane, Stranding
<1>3. Calm'
  BY DEF Calm
<1>4. Scheduled'
  BY OneFailure, Failing2 DEF Scheduled, Unstranded, Stranding
<1> QED
  BY <1>1, <1>2, <1>3, <1>4

LEMMA SinkAddRest ==
  ASSUME CountInv, CountTypes', Grows, NEW f \in Flushers, SinkAdd(f)
  PROVE  Failed' /\ Positive' /\ Calm' /\ Scheduled'
<1> USE DEF CountInv, CountTypes, Grows, SinkAdd, FGoto, requestVars, flushVars
<1>1. Failed'
  BY OneFailure DEF Failed
<1>2. Positive'
  BY SaneBefore, OneFailure DEF Positive, Failed, Sane, Stranding
<1>3. Calm'
  BY DEF Calm
<1>4. Scheduled'
  BY OneFailure DEF Scheduled, Unstranded, Stranding
<1> QED
  BY <1>1, <1>2, <1>3, <1>4

LEMMA BackIncrByRest ==
  ASSUME CountInv, CountTypes', Grows, NEW f \in Flushers, BackIncrBy(f)
  PROVE  Failed' /\ Positive' /\ Calm' /\ Scheduled'
<1> USE DEF CountInv, CountTypes, Grows, BackIncrBy, FGoto, requestVars, flushVars
<1>1. Failed'
  BY OneFailure DEF Failed
<1>2. Positive'
  BY SaneBefore, OneFailure DEF Positive, Failed, Sane, Stranding
<1>3. Calm'
  BY DEF Calm
<1>4. Scheduled'
  BY OneFailure DEF Scheduled, Unstranded, Stranding
<1> QED
  BY <1>1, <1>2, <1>3, <1>4

LEMMA BackSAddRest ==
  ASSUME CountInv, CountTypes', Grows, NEW f \in Flushers, BackSAdd(f)
  PROVE  Failed' /\ Positive' /\ Calm' /\ Scheduled'
<1> USE DEF CountInv, CountTypes, Grows, BackSAdd, FGoto, requestVars, flushVars
<1>1. Failed'
  <2>1. \/ FGoto(f, "idle")
        \/ FGoto(f, "backUndo") /\ "sadd" \in failures'.kinds /\ failures'.n = failures.n + 1
    BY OneFailure DEF Stranding
  <2> QED
    BY <2>1 DEF Failed
<1>2. Positive'
  BY SaneBefore, OneFailure DEF Positive, Failed, Sane, Stranding
<1>3. Calm'
  BY DEF Calm
<1>4. Scheduled'
  BY OneFailure DEF Scheduled, Unstranded, Stranding
<1> QED
  BY <1>1, <1>2, <1>3, <1>4

LEMMA BackUndoRest ==
  ASSUME CountInv, CountTypes', Grows, NEW f \in Flushers, BackUndo(f)
  PROVE  Failed' /\ Positive' /\ Calm' /\ Scheduled'
<1> USE DEF CountInv
<1>1. ~Unstranded'
  BY DEF BackUndo, Failed, Grows, Unstranded, Stranding
<1>2. Failed'
  BY OneFailure DEF BackUndo, requestVars, flushVars, FGoto, Failed, CountTypes, Grows
<1>3. Calm'
  BY DEF BackUndo, requestVars, flushVars, FGoto, Calm, CountTypes
<1> QED
  BY <1>1, <1>2, <1>3 DEF Positive, Sane, Scheduled

LEMMA FlushCrashRest ==
  ASSUME CountInv, CountTypes', Grows, NEW f \in Flushers, FlushCrash(f)
  PROVE  Failed' /\ Positive' /\ Calm' /\ Scheduled'
<1> USE DEF CountInv
<1>1. /\ fpc' = [fpc EXCEPT ![f] = "idle"]
      /\ UNCHANGED <<recent, delta, dirty, pc, sign, past>>
  BY DEF FlushCrash, FGoto, requestVars, flushVars
<1>2. fpc[f] \in {"popped", "backMark", "backUndo"} => ~Unstranded'
  BY OneFailure DEF FlushCrash, Stranding, Unstranded
<1>3. Failed'
  BY <1>1 DEF Failed, CountTypes, Grows
<1>4. Positive'
  BY <1>1, SaneBefore DEF Positive, CountTypes, FlushCrash
<1>5. Calm'
  BY <1>1 DEF Calm, CountTypes
<1>6. Scheduled'
  BY <1>1, <1>2 DEF Scheduled, CountTypes, Grows, Unstranded
<1> QED
  BY <1>3, <1>4, <1>5, <1>6

LEMMA QuietPassesRest ==
  ASSUME CountInv, CountTypes', Grows, QuietPasses
  PROVE  Failed' /\ Positive' /\ Calm' /\ Scheduled'
<1> USE DEF CountInv, CountTypes, Grows, QuietPasses, requestVars, flushVars, bounds
<1>1. Failed'
  BY DEF Failed
<1>2. Positive'
  BY SaneBefore DEF Positive, Sane
<1>3. Calm'
  BY DEF Calm
<1>4. Scheduled'
  BY DEF Scheduled, Unstranded
<1> QED
  BY <1>1, <1>2, <1>3, <1>4

-----------------------------------------------------------------------------
(* The steps of a reconciler.                                              *)

\* No row is recent: nothing is on its way.
LEMMA CalmIsSettled ==
  ASSUME CountInv, Sane, recent = {}
  PROVE  delta = 0 /\ InHand = 0
<1> USE DEF CountInv
<1>1. /\ ~dirty
      /\ \A u \in Users : pc[u] = "idle"
      /\ \A f \in Flushers : fpc[f] = "idle"
  BY DEF Sane, Calm
<1>2. delta = 0
  BY <1>1 DEF Scheduled, Sane
<1>3. Requests \in [Users -> Int] /\ \A u \in Users : Requests[u] >= 0 /\ Requests[u] <= 0
  BY <1>1 DEF Requests
<1>4. Flushes \in [Flushers -> Int] /\ \A f \in Flushers : Flushes[f] >= 0 /\ Flushes[f] <= 0
  BY <1>1 DEF Flushes
<1>5. Total(Requests) = 0
  BY <1>3, TotalOfNone
<1>6. Total(Flushes) = 0
  BY <1>4, TotalOfNone
<1> QED
  BY <1>2, <1>5, <1>6 DEF InHand

\* What a step of a reconciler leaves alone.
LEMMA ReconFrame ==
  ASSUME CountInv, UNCHANGED <<likes, recent, delta, dirty, requestVars, flushVars>>,
         Grows, past'.unliked = past.unliked
  PROVE  /\ Failed' /\ Positive' /\ Calm' /\ Scheduled'
         /\ Requests' = Requests /\ Flushes' = Flushes /\ InHand' = InHand
         /\ Sane' => Sane
<1> USE DEF CountInv
<1>1. UNCHANGED <<pc, sign, fpc, took>>
  BY DEF requestVars, flushVars
<1>2. Requests' = Requests /\ Flushes' = Flushes
  BY <1>1 DEF Requests, Flushes
<1>3. InHand' = InHand
  BY <1>2 DEF InHand
<1>4. (Unstranded' => Unstranded) /\ (Sane' => Sane)
  BY DEF Grows, Sane, Unstranded
<1>5. Failed'
  BY <1>1 DEF Failed, Grows, CountTypes
<1>6. Positive'
  BY <1>1, <1>4 DEF Positive
<1>7. Calm'
  BY <1>1 DEF Calm
<1>8. Scheduled'
  BY <1>1, <1>4 DEF Scheduled
<1> QED
  BY <1>2, <1>3, <1>4, <1>5, <1>6, <1>7, <1>8

LEMMA SnapshotIsRight ==
  ASSUME CountInv, NEW r \in Reconcilers, Snapshot(r)
  PROVE  CountInv'
<1>1. /\ UNCHANGED <<likes, recent, count, delta, dirty, requestVars, flushVars, failures, past>>
      /\ count # Cardinality(likes)
      /\ seen' = [seen EXCEPT ![r] =
           [count |-> count, rows |-> Cardinality(likes), busy |-> recent # {}]]
      /\ rpc' = [rpc EXCEPT ![r] = "read"]
  BY DEF Snapshot, RGoto, bounds
<1>2. Numbers /\ count \in Int /\ delta \in Int
  BY TotalsAreInt DEF CountInv, CountTypes
<1>3. Grows
  BY <1>1, NoFailure DEF CountInv
<1>4. /\ Failed' /\ Positive' /\ Calm' /\ Scheduled'
      /\ Requests' = Requests /\ Flushes' = Flushes /\ InHand' = InHand
  BY <1>1, <1>3, ReconFrame
<1>5. CountTypes'
  <2>1. [count |-> count, rows |-> Cardinality(likes), busy |-> recent # {}]
          \in [count : Int, rows : Int, busy : BOOLEAN]
    BY <1>2 DEF Numbers
  <2>2. seen' \in [Reconcilers -> [count : Int, rows : Int, busy : BOOLEAN]]
    BY <1>1, <2>1 DEF CountInv, CountTypes
  <2>3. rpc' \in [Reconcilers -> {"idle", "read", "update"}]
    BY <1>1 DEF CountInv, CountTypes
  <2> QED
    BY <2>2, <2>3, <1>1, <1>4 DEF CountInv, CountTypes, requestVars, flushVars
<1>6. Drift' = Drift /\ Sane' = Sane /\ Exact' = Exact
  BY <1>1, <1>4 DEF Drift, Sane, Exact, Misread, Unstranded
<1>7. NoDrift' /\ NoOvercount'
  BY <1>6 DEF CountInv, NoDrift, NoOvercount, Exact, Sane
<1>8. \A q \in Reconcilers \ {r} : seen'[q] = seen[q] /\ rpc'[q] = rpc[q]
  BY <1>1 DEF CountInv, CountTypes
<1>9. /\ seen'[r].count = count /\ seen'[r].rows = Cardinality(likes)
      /\ Trusted(r)' => recent = {}
  BY <1>1 DEF CountInv, CountTypes, Trusted
<1>10. ASSUME Sane, recent = {}
       PROVE  delta = 0 /\ InHand = 0 /\ Drift < 0
  <2>1. delta = 0 /\ InHand = 0
    BY <1>10, CalmIsSettled
  <2>2. Drift = count - Cardinality(likes)
    BY <2>1, <1>2 DEF Drift, Numbers
  <2>3. Drift <= 0
    BY <1>10 DEF CountInv, NoOvercount, Sane
  <2> QED
    BY <2>1, <2>2, <2>3, <1>1, <1>2 DEF Numbers
<1>11. Snapshots'
  <2>1. ASSUME Sane, NEW q \in Reconcilers, Trusted(q)'
        PROVE  /\ seen'[q].count < seen'[q].rows /\ seen'[q].count <= count
               /\ count = seen'[q].count =>
                    seen'[q].rows + delta + InHand <= Cardinality(likes)
    <3>1. CASE q = r
      <4>1. delta = 0 /\ InHand = 0 /\ Drift < 0
        BY <2>1, <3>1, <1>9, <1>10
      <4>2. Drift = count + delta + InHand - Cardinality(likes)
        BY DEF Drift
      <4> QED
        BY <3>1, <4>1, <4>2, <1>2, <1>9 DEF Numbers
    <3>2. CASE q # r
      BY <2>1, <3>2, <1>8 DEF CountInv, Snapshots, Trusted
    <3> QED
      BY <3>1, <3>2
  <2> QED
    BY <2>1, <1>1, <1>4, <1>6 DEF Snapshots
<1>12. NoRecount'
  <2>1. ASSUME Exact, Sane, NEW q \in Reconcilers, Trusted(q)' PROVE FALSE
    <3>1. q # r
      <4>1. Drift = 0
        BY <2>1 DEF CountInv, NoDrift, Exact
      <4> QED
        BY <4>1, <2>1, <1>9, <1>10
    <3> QED
      BY <2>1, <3>1, <1>8 DEF CountInv, NoRecount, Trusted
  <2> QED
    BY <2>1, <1>6 DEF NoRecount
<1> QED
  BY <1>4, <1>5, <1>7, <1>11, <1>12 DEF CountInv

LEMMA CheckPendingIsRight ==
  ASSUME CountInv, NEW r \in Reconcilers, CheckPending(r)
  PROVE  CountInv'
<1>1. /\ rpc[r] = "read"
      /\ UNCHANGED <<likes, recent, count, delta, dirty, requestVars, flushVars, past>>
  BY DEF CheckPending
<1>2. Grows
  BY NoFailure, OneFailure DEF CheckPending, CountInv
<1>3. /\ Failed' /\ Positive' /\ Calm' /\ Scheduled'
      /\ Requests' = Requests /\ Flushes' = Flushes /\ InHand' = InHand
      /\ Sane' => Sane
  BY <1>1, <1>2, ReconFrame
<1>4. \/ rpc' = [rpc EXCEPT ![r] = "update"] /\ UNCHANGED seen /\ ~seen[r].busy
      \/ rpc' = [rpc EXCEPT ![r] = "idle"] /\ seen' = [seen EXCEPT ![r] = Nothing]
  BY DEF CheckPending, RGoto
<1>5. \A q \in Reconcilers : Trusted(q)' => Trusted(q) /\ seen'[q] = seen[q]
  BY <1>1, <1>4 DEF CountInv, CountTypes, Trusted
<1>6. CountTypes'
  <2>1. rpc' \in [Reconcilers -> {"idle", "read", "update"}]
    BY <1>4 DEF CountInv, CountTypes
  <2>2. Nothing \in [count : Int, rows : Int, busy : BOOLEAN]
    BY DEF Nothing
  <2>3. seen' \in [Reconcilers -> [count : Int, rows : Int, busy : BOOLEAN]]
    BY <1>4, <2>2 DEF CountInv, CountTypes
  <2> QED
    BY <2>1, <2>3, <1>1, <1>2, <1>3 DEF CountInv, CountTypes, requestVars, flushVars, Grows
<1>7. Later
  BY <1>1, <1>2 DEF Later, Grows
<1>8. Exact' => Exact
  BY <1>6, <1>7, LaterFacts DEF CountInv
<1>9. Drift' = Drift
  BY <1>1, <1>3 DEF Drift
<1>10. NoDrift' /\ NoOvercount'
  BY <1>3, <1>8, <1>9 DEF CountInv, NoDrift, NoOvercount, Exact, Sane
<1>11. Snapshots'
  BY <1>1, <1>3, <1>5 DEF CountInv, Snapshots
<1>12. NoRecount'
  BY <1>3, <1>5, <1>8 DEF CountInv, NoRecount
<1> QED
  BY <1>3, <1>6, <1>10, <1>11, <1>12 DEF CountInv

LEMMA RewriteIsRight ==
  ASSUME CountInv, NEW r \in Reconcilers, Rewrite(r)
  PROVE  CountInv'
<1>1. /\ rpc[r] = "update" /\ rpc' = [rpc EXCEPT ![r] = "idle"]
      /\ seen' = [seen EXCEPT ![r] = Nothing]
      /\ UNCHANGED <<likes, recent, delta, dirty, requestVars, flushVars, failures>>
  BY DEF Rewrite, RGoto
<1>2. /\ past' \in [unliked : BOOLEAN, recounted : BOOLEAN]
      /\ past'.unliked = past.unliked /\ (past.recounted => past'.recounted)
      /\ count' \in Int
  <2>1. past \in [unliked : BOOLEAN, recounted : BOOLEAN] /\ count \in Int /\ seen[r].rows \in Int
    BY DEF CountInv, CountTypes
  <2>2. CASE count' = seen[r].rows /\ past' = [past EXCEPT !.recounted = TRUE]
    BY <2>1, <2>2
  <2>3. CASE UNCHANGED <<count, past>>
    BY <2>1, <2>3
  <2> QED
    BY <2>2, <2>3 DEF Rewrite
<1>3. Grows
  BY <1>1, NoFailure DEF CountInv
<1>4. /\ Failed' /\ Positive' /\ Calm' /\ Scheduled'
      /\ Requests' = Requests /\ Flushes' = Flushes /\ InHand' = InHand
      /\ Sane' => Sane
  BY <1>1, <1>2, <1>3, ReconFrame
<1>5. CountTypes'
  <2>1. rpc' \in [Reconcilers -> {"idle", "read", "update"}]
    BY <1>1 DEF CountInv, CountTypes
  <2>2. Nothing \in [count : Int, rows : Int, busy : BOOLEAN]
    BY DEF Nothing
  <2>3. seen' \in [Reconcilers -> [count : Int, rows : Int, busy : BOOLEAN]]
    BY <1>1, <2>2 DEF CountInv, CountTypes
  <2> QED
    BY <2>1, <2>3, <1>1, <1>2, <1>3, <1>4 DEF CountInv, CountTypes, requestVars, flushVars, Grows
<1>6. \A q \in Reconcilers : Trusted(q)' => q # r /\ Trusted(q) /\ seen'[q] = seen[q]
  BY <1>1 DEF CountInv, CountTypes, Trusted
<1>7. Trusted(r)
  BY <1>1 DEF Trusted
<1>8. Exact' => Exact
  BY <1>1, <1>2 DEF Exact, Misread, Unstranded
<1>9. NoRecount'
  BY <1>4, <1>6, <1>8 DEF CountInv, NoRecount
<1>10. Numbers /\ count \in Int /\ delta \in Int
  BY TotalsAreInt DEF CountInv, CountTypes
<1>11. \A q \in Reconcilers : seen[q].count \in Int /\ seen[q].rows \in Int
  BY DEF CountInv, CountTypes
<1>12. CASE count = seen[r].count
  <2>1. count' = seen[r].rows /\ past'.recounted
    BY <1>12 DEF Rewrite, CountInv, CountTypes
  <2>2. Drift' = seen[r].rows + delta + InHand - Cardinality(likes)
    BY <2>1, <1>1, <1>4 DEF Drift
  <2>3. Sane => /\ seen[r].rows + delta + InHand <= Cardinality(likes)
                /\ count < count'
    BY <1>7, <1>12, <2>1 DEF CountInv, Snapshots
  <2>4. Sane' => Drift' <= 0
    BY <2>2, <2>3, <1>4, <1>10, <1>11 DEF Numbers
  <2>5. NoOvercount'
    BY <2>4 DEF NoOvercount, Sane
  <2>6. ~Exact'
    <3>1. Exact' => Sane'
      BY <2>1 DEF Exact, Sane, Misread
    <3> QED
      BY <3>1, <1>4, <1>7, <1>8 DEF CountInv, NoRecount
  <2>7. NoDrift'
    BY <2>6 DEF NoDrift, Exact
  <2>8. ASSUME Sane', NEW q \in Reconcilers, Trusted(q)'
        PROVE  /\ seen'[q].count < seen'[q].rows /\ seen'[q].count < count'
    <3>1. seen'[q] = seen[q] /\ seen[q].count < seen[q].rows /\ seen[q].count <= count
      BY <2>8, <1>4, <1>6 DEF CountInv, Snapshots
    <3> QED
      BY <3>1, <2>3, <2>8, <1>2, <1>4, <1>10, <1>11
  <2>9. Snapshots'
    <3>1. \A q \in Reconcilers : Trusted(q)' => seen'[q].count \in Int
      BY <1>6, <1>11
    <3> QED
      BY <2>8, <3>1, <1>2 DEF Snapshots
  <2> QED
    BY <2>5, <2>7, <2>9, <1>4, <1>5, <1>9 DEF CountInv
<1>13. CASE count # seen[r].count
  <2>1. UNCHANGED <<count, past>>
    BY <1>13 DEF Rewrite
  <2>2. Drift' = Drift
    BY <2>1, <1>1, <1>4 DEF Drift
  <2>3. NoDrift' /\ NoOvercount'
    BY <2>2, <1>4, <1>8 DEF CountInv, NoDrift, NoOvercount, Exact, Sane
  <2>4. Snapshots'
    BY <2>1, <1>1, <1>4, <1>6 DEF CountInv, Snapshots
  <2> QED
    BY <2>3, <2>4, <1>4, <1>5, <1>9 DEF CountInv
<1> QED
  BY <1>12, <1>13

-----------------------------------------------------------------------------
LEMMA CountInit == Init => CountInv
<1> SUFFICES ASSUME Init PROVE CountInv
  OBVIOUS
<1>1. Requests \in [Users -> Int] /\ \A u \in Users : Requests[u] >= 0 /\ Requests[u] <= 0
  BY DEF Init, Requests
<1>2. Flushes \in [Flushers -> Int] /\ \A f \in Flushers : Flushes[f] >= 0 /\ Flushes[f] <= 0
  BY DEF Init, Flushes
<1>3. Sums(Requests) /\ Total(Requests) = 0
  BY <1>1, TotalOfNone
<1>4. Sums(Flushes) /\ Total(Flushes) = 0
  BY <1>2, TotalOfNone
<1>5. IsFiniteSet({}) /\ Cardinality({}) = 0
  BY FS_EmptySet
<1>6. CountTypes
  <2>1. /\ pc \in [Users -> RequestSteps] /\ sign \in [Users -> {-1, 0, 1}]
        /\ fpc \in [Flushers -> FlushSteps] /\ took \in [Flushers -> Int]
        /\ rpc \in [Reconcilers -> {"idle", "read", "update"}]
    BY DEF Init, RequestSteps, FlushSteps
  <2>2. seen \in [Reconcilers -> [count : Int, rows : Int, busy : BOOLEAN]]
    BY DEF Init
  <2>3. failures \in [n : Nat, kinds : SUBSET Recorded]
    BY DEF Init
  <2>4. past \in [unliked : BOOLEAN, recounted : BOOLEAN]
    BY DEF Init
  <2> QED
    BY <1>3, <1>4, <1>5, <2>1, <2>2, <2>3, <2>4 DEF Init, CountTypes
<1>7. Drift = 0
  BY <1>3, <1>4, <1>5 DEF Init, Drift, InHand
<1>8. \A r \in Reconcilers : ~Trusted(r)
  BY DEF Init, Trusted
<1>9. Failed /\ Positive /\ Calm /\ Scheduled
  BY DEF Init, Failed, Positive, Calm, Scheduled
<1>10. Snapshots /\ NoRecount
  BY <1>8 DEF Snapshots, NoRecount
<1>11. NoDrift /\ NoOvercount
  BY <1>7 DEF NoDrift, NoOvercount
<1> QED
  BY <1>6, <1>9, <1>10, <1>11 DEF CountInv

LEMMA CountStep == CountInv /\ [Next]_vars => CountInv'
<1> SUFFICES ASSUME CountInv, [Next]_vars PROVE CountInv'
  OBVIOUS
<1> DEFINE Good == CountTypes' /\ Lands /\ Grows
           Rest == Failed' /\ Positive' /\ Calm' /\ Scheduled'
<1>1. Good /\ Rest => CountInv'
  BY LandingIsRight DEF CountInv
<1>2. ASSUME NEW u \in Users, LikePost(u) PROVE CountInv'
  BY <1>1, <1>2, LikePostLands, LikePostRest
<1>3. ASSUME NEW u \in Users, UnlikePost(u) PROVE CountInv'
  BY <1>1, <1>3, UnlikePostLands, UnlikePostRest
<1>4. ASSUME NEW u \in Users, IncrBy(u) PROVE CountInv'
  BY <1>1, <1>4, IncrByLands, IncrByRest
<1>5. ASSUME NEW u \in Users, SAdd(u) PROVE CountInv'
  BY <1>1, <1>5, SAddLands, SAddRest
<1>6. ASSUME NEW u \in Users, Undo(u) PROVE CountInv'
  BY <1>1, <1>6, UndoLands, UndoRest
<1>7. ASSUME NEW u \in Users, Fallback(u) PROVE CountInv'
  BY <1>1, <1>7, FallbackLands, FallbackRest
<1>8. ASSUME NEW u \in Users, RequestCrash(u) PROVE CountInv'
  BY <1>1, <1>8, RequestCrashLands, RequestCrashRest
<1>9. ASSUME NEW f \in Flushers, SPop(f) PROVE CountInv'
  BY <1>1, <1>9, SPopLands, SPopRest
<1>10. ASSUME NEW f \in Flushers, GetDel(f) PROVE CountInv'
  BY <1>1, <1>10, GetDelLands, GetDelRest
<1>11. ASSUME NEW f \in Flushers, SinkAdd(f) PROVE CountInv'
  BY <1>1, <1>11, SinkAddLands, SinkAddRest
<1>12. ASSUME NEW f \in Flushers, BackIncrBy(f) PROVE CountInv'
  BY <1>1, <1>12, BackIncrByLands, BackIncrByRest
<1>13. ASSUME NEW f \in Flushers, BackSAdd(f) PROVE CountInv'
  BY <1>1, <1>13, BackSAddLands, BackSAddRest
<1>14. ASSUME NEW f \in Flushers, BackUndo(f) PROVE CountInv'
  BY <1>1, <1>14, BackUndoLands, BackUndoRest
<1>15. ASSUME NEW f \in Flushers, FlushCrash(f) PROVE CountInv'
  BY <1>1, <1>15, FlushCrashLands, FlushCrashRest
<1>16. CASE QuietPasses
  BY <1>1, <1>16, QuietPassesLands, QuietPassesRest
<1>17. ASSUME NEW r \in Reconcilers, ReconStep(r) PROVE CountInv'
  BY <1>17, SnapshotIsRight, CheckPendingIsRight, RewriteIsRight DEF ReconStep
<1>18. CASE UNCHANGED vars
  <2>1. UNCHANGED <<likes, recent, count, delta, dirty, pc, sign, fpc, took, rpc, seen, failures, past>>
    BY <1>18 DEF vars, requestVars, flushVars, reconVars, bounds
  <2>2. Requests' = Requests /\ Flushes' = Flushes
    BY <2>1 DEF Requests, Flushes
  <2>3. InHand' = InHand
    BY <2>2 DEF InHand
  <2>4. Drift' = Drift
    BY <2>1, <2>3 DEF Drift
  <2>5. CountTypes'
    BY <2>1, <2>2 DEF CountInv, CountTypes
  <2>6. Failed' /\ Positive' /\ Calm' /\ Scheduled'
    BY <2>1 DEF CountInv, Failed, Positive, Calm, Scheduled, Sane, Unstranded
  <2>7. Snapshots' /\ NoRecount'
    BY <2>1, <2>3 DEF CountInv, Snapshots, NoRecount, Trusted, Sane, Exact, Misread, Unstranded
  <2>8. NoDrift' /\ NoOvercount'
    BY <2>1, <2>4 DEF CountInv, NoDrift, NoOvercount, Misread, Unstranded
  <2> QED
    BY <2>5, <2>6, <2>7, <2>8 DEF CountInv
<1> QED
  BY <1>2, <1>3, <1>4, <1>5, <1>6, <1>7, <1>8, <1>9, <1>10, <1>11, <1>12, <1>13, <1>14,
     <1>15, <1>16, <1>17, <1>18 DEF Next, RequestStep, FlushStep

\* Every like and unlike is counted once, in the row, in Redis or in one hand,
\* for any number of users and instances, although any one call fails (Incr,
\* Flush and the fallback of bumpCounter, and the UPDATE of the reconciler).
THEOREM NoDriftHolds == Spec => []NoDrift
<1>1. CountInv => NoDrift
  BY DEF CountInv
<1> QED
  BY <1>1, CountInit, CountStep, PTL DEF Spec

\* Whatever is lost by plain failures and crashes, no like is counted twice: a
\* recount by RunOnce does not include one whose delta is still to be flushed.
THEOREM NoOvercountHolds == Spec => []NoOvercount
<1>1. CountInv => NoOvercount
  BY DEF CountInv
<1> QED
  BY <1>1, CountInit, CountStep, PTL DEF Spec

-----------------------------------------------------------------------------
(* Media objects and posts stay together.  Three parties delete from or    *)
(* write to Cloud Storage beside the row: the save, its compensation and   *)
(* the cleaners.  LifeInv says why they do not meet: before its            *)
(* transaction a post has no row (Unsaved), a cleaner works on a deleted   *)
(* one only (Claimed), one post at a time (Single), and what it marks as   *)
(* completed it has removed (Removed).                                     *)

MediaHistory == [n : 0..MaxMediaFailures, kinds : SUBSET Unmasked]

\* Before its transaction a post has no row, and before its upload no object.
Unsaved(p) ==
  /\ saving[p] \in {"new", "tx"} => row[p] = "none"
  /\ saving[p] = "new" => p \notin object
  /\ saving[p] = "tx" => p \in object
  /\ saving[p] = "forget" => row[p] # "none"
  /\ saving[p] = "compensate" /\ "txLost" \notin mediaFailures.kinds => row[p] = "none"

\* cleanup_status is set by DeletePost, and limits the attempts.
Marked(p) ==
  /\ (cleanup[p] = "") <=> (row[p] # "deleted")
  /\ cleanup[p] = "pending" => attempts[p] < MaxAttempts

\* A cleaner holds pending rows only ...
Claimed(p) == holder[p] # Nobody => cleanup[p] = "pending" /\ cpc[holder[p]] # "idle"

\* ... and reports a removal only when the object is gone, for good.
Removed(p) ==
  /\ holder[p] # Nobody /\ cpc[holder[p]] = "removed" => p \notin object
  /\ cleanup[p] = "completed" => p \notin object

\* MediaPresent and NoOrphan of one post.
HasMedia(p) == "txLost" \notin mediaFailures.kinds /\ row[p] = "live" => p \in object
HasOwner(p) ==
  ("crash" \notin mediaFailures.kinds /\ "gcs" \notin mediaFailures.kinds
    /\ "saveLost" \notin mediaFailures.kinds /\ p \in object) =>
    saving[p] # "end" \/ row[p] = "live" \/ cleanup[p] \in {"pending", "failed"}

Life(p) == Unsaved(p) /\ Marked(p) /\ Claimed(p) /\ Removed(p) /\ HasMedia(p) /\ HasOwner(p)

\* A cleaner holds one row at a time.
Single == \A p, q \in Posts : holder[p] # Nobody /\ holder[p] = holder[q] => p = q

LifeInv == MediaTypeOK /\ mediaFailures \in MediaHistory /\ Single /\ \A p \in Posts : Life(p)

LEMMA LifeInit == MediaInit => LifeInv
<1> SUFFICES ASSUME MediaInit PROVE LifeInv
    OBVIOUS
<1>1. 0 \in 0..MaxAttempts /\ 0 \in 0..MaxMediaFailures
      BY MediaBoundsAssumption DEF MediaBoundsAssumption
<1>2. MediaTypeOK /\ mediaFailures \in MediaHistory
      BY <1>1 DEF MediaInit, MediaHistory, MediaTypeOK, Unmasked
<1>3. ASSUME NEW p \in Posts PROVE Life(p)
      BY DEF MediaInit, Life, Unsaved, Marked, Claimed, Removed, HasMedia, HasOwner
<1> QED
    BY <1>2, <1>3 DEF LifeInv, Single, MediaInit

\* A failed call is counted, and remembered if nothing makes it good.
LEMMA MediaFailsFacts ==
  ASSUME mediaFailures \in MediaHistory, NEW call, MediaFails(call)
  PROVE  /\ mediaFailures' \in MediaHistory
         /\ mediaFailures.kinds \subseteq mediaFailures'.kinds
         /\ call \in Unmasked => call \in mediaFailures'.kinds
  BY MediaBoundsAssumption DEF MediaBoundsAssumption, MediaFails, MediaHistory

\* A step leaves alone what it does not touch: failures are never forgotten.
LEMMA Others ==
  ASSUME NEW q \in Posts, Life(q), mediaFailures.kinds \subseteq mediaFailures'.kinds,
         row'[q] = row[q], saving'[q] = saving[q], cleanup'[q] = cleanup[q],
         attempts'[q] = attempts[q], holder'[q] = holder[q], q \in object' <=> q \in object,
         holder[q] # Nobody => cpc'[holder[q]] = cpc[holder[q]]
  PROVE  Life(q)'
  BY DEF Life, Unsaved, Marked, Claimed, Removed, HasMedia, HasOwner

LEMMA LifeStep == LifeInv /\ [MediaNext]_mediaVars => LifeInv'
<1> SUFFICES ASSUME LifeInv, [MediaNext]_mediaVars PROVE LifeInv'
    OBVIOUS
<1>t. /\ mediaFailures \in MediaHistory /\ MediaTypeOK /\ Single /\ \A q \in Posts : Life(q)
      /\ Nobody \notin Cleaners /\ MaxAttempts \in Nat /\ MaxAttempts > 0
      BY MediaBoundsAssumption, CleanersAssumption DEF MediaBoundsAssumption,
         CleanersAssumption, LifeInv
<1> USE <1>t
<1>1. ASSUME NEW p \in Posts, SaveToGCS(p) PROVE LifeInv'
      <2> USE <1>1 DEF SaveToGCS, SGoto, cleanVars
      <2>1. mediaFailures' \in MediaHistory /\ mediaFailures.kinds \subseteq mediaFailures'.kinds
            BY MediaFailsFacts
      <2>2. MediaTypeOK'
            BY <2>1 DEF MediaTypeOK, MediaHistory, Life, Marked, Claimed
      <2>3. Single'
            BY DEF MediaTypeOK, Life, Claimed, Single
      <2>4. ASSUME NEW q \in Posts, q # p PROVE Life(q)'
            BY <2>1, <2>4, Others DEF MediaTypeOK, Single
      <2>5. Life(p)'
            BY <2>1, MediaFailsFacts DEF MediaTypeOK, Unmasked, Life, Unsaved, Marked, Claimed,
               Removed, HasMedia, HasOwner
      <2> QED
          BY <2>1, <2>2, <2>3, <2>4, <2>5 DEF LifeInv
<1>2. ASSUME NEW p \in Posts, InsertPost(p) PROVE LifeInv'
      <2> USE <1>2 DEF InsertPost, SGoto, cleanVars
      <2>1. mediaFailures' \in MediaHistory /\ mediaFailures.kinds \subseteq mediaFailures'.kinds
            BY MediaFailsFacts
      <2>2. MediaTypeOK'
            BY <2>1 DEF MediaTypeOK, MediaHistory, Life, Marked, Claimed
      <2>3. Single'
            BY DEF MediaTypeOK, Life, Claimed, Single
      <2>4. ASSUME NEW q \in Posts, q # p PROVE Life(q)'
            BY <2>1, <2>4, Others DEF MediaTypeOK, Single
      <2>5. Life(p)'
            BY <2>1, MediaFailsFacts, ZenonT(60) DEF MediaTypeOK, Unmasked, Life, Unsaved,
               Marked, Claimed, Removed, HasMedia, HasOwner
      <2> QED
          BY <2>1, <2>2, <2>3, <2>4, <2>5 DEF LifeInv
<1>3. ASSUME NEW p \in Posts, Compensate(p) PROVE LifeInv'
      <2> USE <1>3 DEF Compensate, SGoto, cleanVars
      <2>1. mediaFailures' \in MediaHistory /\ mediaFailures.kinds \subseteq mediaFailures'.kinds
            BY MediaFailsFacts
      <2>2. MediaTypeOK'
            BY <2>1 DEF MediaTypeOK, MediaHistory, Life, Marked, Claimed
      <2>3. Single'
            BY DEF MediaTypeOK, Life, Claimed, Single
      <2>4. ASSUME NEW q \in Posts, q # p PROVE Life(q)'
            BY <2>1, <2>4, Others DEF MediaTypeOK, Single
      <2>5. Life(p)'
            BY <2>1, MediaFailsFacts DEF MediaTypeOK, Unmasked, Life, Unsaved, Marked, Claimed,
               Removed, HasMedia, HasOwner
      <2> QED
          BY <2>1, <2>2, <2>3, <2>4, <2>5 DEF LifeInv
<1>4. ASSUME NEW p \in Posts, ForgetAfterSave(p) PROVE LifeInv'
      <2> USE <1>4 DEF ForgetAfterSave, SGoto, Forget, cleanVars
      <2>1. mediaFailures' \in MediaHistory /\ mediaFailures.kinds \subseteq mediaFailures'.kinds
            BY MediaFailsFacts
      <2>2. MediaTypeOK'
            BY <2>1 DEF MediaTypeOK, MediaHistory, Life, Marked, Claimed
      <2>3. Single'
            BY DEF MediaTypeOK, Life, Claimed, Single
      <2>4. ASSUME NEW q \in Posts, q # p PROVE Life(q)'
            BY <2>1, <2>4, Others DEF MediaTypeOK, Single
      <2>5. Life(p)'
            BY <2>1, MediaFailsFacts DEF MediaTypeOK, Unmasked, Life, Unsaved, Marked, Claimed,
               Removed, HasMedia, HasOwner
      <2> QED
          BY <2>1, <2>2, <2>3, <2>4, <2>5 DEF LifeInv
<1>5. ASSUME NEW p \in Posts, SaveCrash(p) PROVE LifeInv'
      <2> USE <1>5 DEF SaveCrash, SGoto, cleanVars
      <2>1. mediaFailures' \in MediaHistory /\ mediaFailures.kinds \subseteq mediaFailures'.kinds
            BY MediaFailsFacts
      <2>2. MediaTypeOK'
            BY <2>1 DEF MediaTypeOK, MediaHistory, Life, Marked, Claimed
      <2>3. Single'
            BY DEF MediaTypeOK, Life, Claimed, Single
      <2>4. ASSUME NEW q \in Posts, q # p PROVE Life(q)'
            BY <2>1, <2>4, Others DEF MediaTypeOK, Single
      <2>5. Life(p)'
            BY <2>1, MediaFailsFacts DEF MediaTypeOK, Unmasked, Life, Unsaved, Marked, Claimed,
               Removed, HasMedia, HasOwner
      <2> QED
          BY <2>1, <2>2, <2>3, <2>4, <2>5 DEF LifeInv
<1>6. ASSUME NEW p \in Posts, DeletePost(p) PROVE LifeInv'
      <2> USE <1>6 DEF DeletePost, cleanVars
      <2>1. mediaFailures' \in MediaHistory /\ mediaFailures.kinds \subseteq mediaFailures'.kinds
            BY MediaFailsFacts
      <2>2. MediaTypeOK'
            <3>1. 0 \in 0..MaxAttempts
                  OBVIOUS
            <3>2. attempts' \in [Posts -> 0..MaxAttempts]
                  BY <3>1 DEF MediaTypeOK
            <3> QED
                BY <2>1, <3>2 DEF MediaTypeOK
      <2>3. Single'
            BY DEF MediaTypeOK, Life, Claimed, Single
      <2>4. ASSUME NEW q \in Posts, q # p PROVE Life(q)'
            BY <2>1, <2>4, Others DEF MediaTypeOK, Single
      <2>5. Life(p)'
            BY <2>1, MediaFailsFacts DEF MediaTypeOK, Unmasked, Life, Unsaved, Marked, Claimed,
               Removed, HasMedia, HasOwner
      <2> QED
          BY <2>1, <2>2, <2>3, <2>4, <2>5 DEF LifeInv
<1>7. ASSUME NEW p \in Posts, ForgetAfterDelete(p) PROVE LifeInv'
      <2> USE <1>7 DEF ForgetAfterDelete, Forget, cleanVars
      <2>1. mediaFailures' \in MediaHistory /\ mediaFailures.kinds \subseteq mediaFailures'.kinds
            BY MediaFailsFacts
      <2>2. MediaTypeOK'
            BY <2>1 DEF MediaTypeOK, MediaHistory, Life, Marked, Claimed
      <2>3. Single'
            BY DEF MediaTypeOK, Life, Claimed, Single
      <2>4. ASSUME NEW q \in Posts, q # p PROVE Life(q)'
            BY <2>1, <2>4, Others DEF MediaTypeOK, Single
      <2>5. Life(p)'
            BY <2>1, MediaFailsFacts DEF MediaTypeOK, Unmasked, Life, Unsaved, Marked, Claimed,
               Removed, HasMedia, HasOwner
      <2> QED
          BY <2>1, <2>2, <2>3, <2>4, <2>5 DEF LifeInv
<1>8. ASSUME NEW p \in Posts, DeleteCrash(p) PROVE LifeInv'
      <2> USE <1>8 DEF DeleteCrash, cleanVars
      <2>1. mediaFailures' \in MediaHistory /\ mediaFailures.kinds \subseteq mediaFailures'.kinds
            BY MediaFailsFacts
      <2>2. MediaTypeOK'
            BY <2>1 DEF MediaTypeOK, MediaHistory, Life, Marked, Claimed
      <2>3. Single'
            BY DEF MediaTypeOK, Life, Claimed, Single
      <2>4. ASSUME NEW q \in Posts, q # p PROVE Life(q)'
            BY <2>1, <2>4, Others DEF MediaTypeOK, Single
      <2>5. Life(p)'
            BY <2>1, MediaFailsFacts DEF MediaTypeOK, Unmasked, Life, Unsaved, Marked, Claimed,
               Removed, HasMedia, HasOwner
      <2> QED
          BY <2>1, <2>2, <2>3, <2>4, <2>5 DEF LifeInv
<1>9. ASSUME NEW k \in Cleaners, NEW p \in Posts, ClaimCleanup(k, p) PROVE LifeInv'
      <2> USE <1>9 DEF ClaimCleanup, Unclaimed, cleanVars
      <2>1. mediaFailures' \in MediaHistory /\ mediaFailures.kinds \subseteq mediaFailures'.kinds
            BY MediaFailsFacts
      <2>2. MediaTypeOK'
            BY <2>1 DEF MediaTypeOK, MediaHistory, Life, Marked, Claimed
      <2>3. Single'
            BY DEF MediaTypeOK, Life, Claimed, Single
      <2>4. ASSUME NEW q \in Posts, q # p PROVE Life(q)'
            BY <2>1, <2>4, Others, ZenonT(60) DEF MediaTypeOK, Single, Life, Claimed
      <2>5. Life(p)'
            BY <2>1, MediaFailsFacts, ZenonT(60) DEF MediaTypeOK, Unmasked, Life, Unsaved,
               Marked, Claimed, Removed, HasMedia, HasOwner
      <2> QED
          BY <2>1, <2>2, <2>3, <2>4, <2>5 DEF LifeInv
<1>10. ASSUME NEW k \in Cleaners, NEW p \in Posts, DeleteMedia(k, p) PROVE LifeInv'
      <2> USE <1>10 DEF DeleteMedia, cleanVars
      <2>1. mediaFailures' \in MediaHistory /\ mediaFailures.kinds \subseteq mediaFailures'.kinds
            BY MediaFailsFacts
      <2>2. MediaTypeOK'
            BY <2>1, ZenonT(60) DEF MediaTypeOK, MediaHistory, Life, Marked, Claimed
      <2>3. Single'
            BY DEF MediaTypeOK, Life, Claimed, Single
      <2>4. ASSUME NEW q \in Posts, q # p PROVE Life(q)'
            BY <2>1, <2>4, Others DEF MediaTypeOK, Single
      <2>5. Life(p)'
            BY <2>1, MediaFailsFacts, ZenonT(60) DEF MediaTypeOK, Unmasked, Life, Unsaved,
               Marked, Claimed, Removed, HasMedia, HasOwner
      <2> QED
          BY <2>1, <2>2, <2>3, <2>4, <2>5 DEF LifeInv
<1>11. ASSUME NEW k \in Cleaners, NEW p \in Posts, CommitCleanup(k, p) PROVE LifeInv'
      <2> USE <1>11 DEF CommitCleanup, ReleaseRow, cleanVars
      <2>1. mediaFailures' \in MediaHistory /\ mediaFailures.kinds \subseteq mediaFailures'.kinds
            BY MediaFailsFacts
      <2>0. /\ cleanup[p] = "pending" /\ attempts[p] \in Nat
            /\ attempts[p] + 1 \in 0..MaxAttempts
            /\ cpc[k] = "removed" => p \notin object
            <3>1. /\ cleanup[p] = "pending" /\ attempts[p] < MaxAttempts
                  /\ cpc[k] = "removed" => p \notin object
                  BY DEF Life, Marked, Claimed, Removed
            <3>2. attempts[p] \in 0..MaxAttempts
                  BY DEF MediaTypeOK
            <3> QED
                BY <3>1, <3>2
      <2>2. MediaTypeOK'
            <3>1. attempts' \in [Posts -> 0..MaxAttempts]
                  BY <2>0 DEF MediaTypeOK
            <3>2. cleanup' \in [Posts -> {"", "pending", "completed", "failed"}]
                  BY DEF MediaTypeOK
            <3> QED
                BY <2>1, <3>1, <3>2 DEF MediaTypeOK
      <2>3. Single'
            BY ZenonT(60) DEF MediaTypeOK, Life, Claimed, Single
      <2>4. ASSUME NEW q \in Posts, q # p PROVE Life(q)'
            BY <2>1, <2>4, Others DEF MediaTypeOK, Single
      <2>5. Life(p)'
            <3>1. CASE cpc[k] = "removed"
                  BY <2>0, <2>1, <3>1
                  DEF MediaTypeOK, Life, Unsaved, Marked, Claimed, Removed, HasMedia, HasOwner
            <3>2. CASE cpc[k] = "failed" /\ attempts[p] + 1 >= MaxAttempts
                  BY <2>0, <2>1, <3>2
                  DEF MediaTypeOK, Life, Unsaved, Marked, Claimed, Removed, HasMedia, HasOwner
            <3>3. CASE cpc[k] = "failed" /\ ~(attempts[p] + 1 >= MaxAttempts)
                  <4>0. attempts[p] + 1 < MaxAttempts
                        BY <2>0, <3>3
                  <4>1. attempts'[p] = attempts[p] + 1
                        BY <3>3 DEF MediaTypeOK
                  <4>2. cleanup'[p] = "pending" /\ holder'[p] = Nobody
                        BY <3>3 DEF MediaTypeOK
                  <4> QED
                      BY <2>1, <4>0, <4>1, <4>2
                      DEF Life, Unsaved, Marked, Claimed, Removed, HasMedia, HasOwner
            <3> QED
                BY <3>1, <3>2, <3>3
      <2> QED
          BY <2>1, <2>2, <2>3, <2>4, <2>5 DEF LifeInv
<1>12. ASSUME NEW k \in Cleaners, NEW p \in Posts, AbortCleanup(k, p) PROVE LifeInv'
      <2> USE <1>12 DEF AbortCleanup, ReleaseRow, cleanVars
      <2>1. mediaFailures' \in MediaHistory /\ mediaFailures.kinds \subseteq mediaFailures'.kinds
            BY MediaFailsFacts
      <2>2. MediaTypeOK'
            BY <2>1 DEF MediaTypeOK, MediaHistory, Life, Marked, Claimed
      <2>3. Single'
            BY DEF MediaTypeOK, Life, Claimed, Single
      <2>4. ASSUME NEW q \in Posts, q # p PROVE Life(q)'
            BY <2>1, <2>4, Others DEF MediaTypeOK, Single
      <2>5. Life(p)'
            BY <2>1, MediaFailsFacts, ZenonT(60) DEF MediaTypeOK, Unmasked, Life, Unsaved,
               Marked, Claimed, Removed, HasMedia, HasOwner
      <2> QED
          BY <2>1, <2>2, <2>3, <2>4, <2>5 DEF LifeInv
<1>13. ASSUME (\E i \in Instances : LoadUserPosts(i) \/ FillCache(i)) \/ ExpireCache
      PROVE  LifeInv'
      <2> USE <1>13 DEF LoadUserPosts, FillCache, ExpireCache, cleanVars
      <2>1. mediaFailures' \in MediaHistory /\ mediaFailures.kinds \subseteq mediaFailures'.kinds
            BY MediaFailsFacts
      <2>2. ASSUME NEW q \in Posts PROVE Life(q)'
            BY <2>1, Others
      <2> QED
          BY <2>1, <2>2 DEF LifeInv, MediaTypeOK, Single, MediaHistory
<1>14. ASSUME UNCHANGED mediaVars PROVE LifeInv'
      <2> USE <1>14 DEF mediaVars, cleanVars
      <2>1. ASSUME NEW q \in Posts PROVE Life(q)'
            BY Others
      <2> QED
          BY <2>1 DEF LifeInv, MediaTypeOK, Single
<1> QED
    BY <1>1, <1>2, <1>3, <1>4, <1>5, <1>6, <1>7, <1>8, <1>9, <1>10, <1>11, <1>12, <1>13,
       <1>14 DEF MediaNext, SaveStep, CleanStep

\* No reader finds a post without its media, whatever is saved, deleted and
\* cleaned up beside it and whatever fails, unless a COMMIT was applied and
\* reported as an error (SavePost, DeletePost and CleanupDeletedPosts).
THEOREM MediaPresentHolds == MediaSpec => []MediaPresent
<1>1. LifeInv => MediaPresent
      BY DEF LifeInv, Life, HasMedia, MediaPresent
<1>2. MediaInit => LifeInv
      BY LifeInit
<1>3. LifeInv /\ [MediaNext]_mediaVars => LifeInv'
      BY LifeStep
<1> QED
    BY <1>1, <1>2, <1>3, PTL DEF MediaSpec

\* No object is left behind by a failed save or a finished cleanup, unless the
\* process of a request died, Cloud Storage failed or an upload was stored and
\* reported as an error (the compensation of SavePost, and CleanupDeletedPosts).
THEOREM NoOrphanHolds == MediaSpec => []NoOrphan
<1>1. LifeInv => NoOrphan
      BY DEF LifeInv, Life, HasOwner, NoOrphan, MediaTypeOK
<1>2. MediaInit => LifeInv
      BY LifeInit
<1>3. LifeInv /\ [MediaNext]_mediaVars => LifeInv'
      BY LifeStep
<1> QED
    BY <1>1, <1>2, <1>3, PTL DEF MediaSpec

\* Types, with the limit of cleanup attempts: CleanupDeletedPosts gives no post
\* more than MaxAttempts.
THEOREM TypeCorrect == MediaSpec => []MediaTypeOK
<1>1. LifeInv => MediaTypeOK
      BY DEF LifeInv
<1>2. MediaInit => LifeInv
      BY LifeInit
<1>3. LifeInv /\ [MediaNext]_mediaVars => LifeInv'
      BY LifeStep
<1> QED
    BY <1>1, <1>2, <1>3, PTL DEF MediaSpec

-----------------------------------------------------------------------------
(* An Idempotency-Key protects every attempt.  TruthInv: what is recorded  *)
(* and answered names a stored post of the same body.  OnceInv: while no   *)
(* unprotecting failure has happened, the attempt that runs fn or records  *)
(* its result is the only one (Alone) and its claim is in Redis (Guarded), *)
(* and a stored post is recorded or about to be (Kept), so that whoever    *)
(* gets the claim finds no post.                                           *)

OfBody(p, body) == p \in posts /\ p[1] = body

TruthInv ==
  /\ \A r \in Attempts : status[r] = "ok" => OfBody(post[r], Body[r])
  /\ entry.state = "done" => OfBody(entry.post, entry.fp)
  /\ RepliesAreTrue

KeyTypes ==
  /\ step \in [Attempts -> {"new", "get", "fn", "record", "respond", "end"}]
  /\ guarded \in [Attempts -> BOOLEAN]
  /\ status \in [Attempts -> {"", "ok", "failed"}]
  /\ DOMAIN post = Attempts /\ DOMAIN reply = Attempts
  /\ entry.state \in {"absent", "running", "done"}

Busy(r) == step[r] \in {"fn", "record"}

\* Without a failure of SET NX only the claim leads to fn.
Guarded == \A r \in Attempts : Busy(r) => guarded[r] /\ entry.state = "running"

Alone == \A r, s \in Attempts : Busy(r) /\ Busy(s) => r = s

\* The post that is stored is known under the key, or its attempt is about to
\* record it.
Kept ==
  posts # {} => \/ entry.state = "done"
                \/ \E r \in Attempts : step[r] = "record" /\ status[r] = "ok"

One == posts = {} \/ \E p : posts = {p}

OnceInv == keyFailures.kinds = {} => Guarded /\ Alone /\ Kept /\ One

KeyInv == KeyTypes /\ TruthInv /\ OnceInv

LEMMA KeyStart == KeyInit => KeyInv
<1> SUFFICES ASSUME KeyInit PROVE KeyInv
    OBVIOUS
<1>1. KeyTypes
      BY DEF KeyInit, KeyTypes, Absent
<1>2. TruthInv
      BY DEF KeyInit, TruthInv, Absent, RepliesAreTrue, NoReply
<1>3. OnceInv
      BY DEF KeyInit, OnceInv, Guarded, Alone, Kept, One, Busy
<1> QED
    BY <1>1, <1>2, <1>3 DEF KeyInv

\* Failures are not forgotten.
LEMMA KeyFailsFacts ==
  ASSUME NEW kind, KeyFails(kind)
  PROVE  /\ keyFailures'.kinds = {} => keyFailures.kinds = {}
         /\ kind \in Unprotecting => keyFailures'.kinds # {}
  BY DEF KeyFails

\* What a step may put under the key.
RunningEntry(r) == [state |-> "running", fp |-> Body[r], post |-> NoPost]
DoneEntry(r) == [state |-> "done", fp |-> Body[r], post |-> post[r]]

LEMMA EntryFacts ==
  ASSUME NEW r
  PROVE  /\ Absent.state = "absent" /\ RunningEntry(r).state = "running"
         /\ DoneEntry(r).state = "done" /\ DoneEntry(r).fp = Body[r] /\ DoneEntry(r).post = post[r]
  BY DEF Absent, RunningEntry, DoneEntry

LEMMA EntryStep ==
  ASSUME NEW r \in Attempts
  PROVE  /\ Claim(r) =>
              \/ /\ entry = Absent /\ entry' = RunningEntry(r)
                 /\ guarded' = [guarded EXCEPT ![r] = TRUE]
              \/ entry' = entry /\ guarded' = guarded /\ (entry # Absent \/ KeyFails("claim"))
         /\ Complete(r) => entry' = entry \/ entry' = DoneEntry(r)
         /\ Release(r) => entry' = entry \/ entry' = Absent
  BY DEF Claim, Complete, Release, RunningEntry, DoneEntry

LEMMA KeyTypesStep == KeyTypes /\ [KeyNext]_keyVars => KeyTypes'
<1> SUFFICES ASSUME KeyTypes, [KeyNext]_keyVars PROVE KeyTypes'
    OBVIOUS
<1> USE DEF KeyTypes
<1>1. ASSUME NEW r \in Attempts, Claim(r) PROVE KeyTypes'
      <2>1. entry'.state \in {"absent", "running", "done"}
            <3>1. entry' = entry \/ entry' = RunningEntry(r)
                  BY <1>1, EntryStep
            <3> QED
                BY <3>1, EntryFacts
      <2> QED
          BY <1>1, <2>1 DEF Claim, StepTo
<1>2. ASSUME NEW r \in Attempts, Get(r) PROVE KeyTypes'
      BY <1>2 DEF Get, StepTo, Answer
<1>3. ASSUME NEW r \in Attempts, Run(r) PROVE KeyTypes'
      BY <1>3 DEF Run, StepTo, SavePost
<1>4. ASSUME NEW r \in Attempts, Complete(r) PROVE KeyTypes'
      <2>1. entry'.state \in {"absent", "running", "done"}
            BY <1>4, EntryStep, EntryFacts
      <2> QED
          BY <1>4, <2>1 DEF Complete, StepTo
<1>5. ASSUME NEW r \in Attempts, Release(r) PROVE KeyTypes'
      <2>1. entry'.state \in {"absent", "running", "done"}
            BY <1>5, EntryStep, EntryFacts
      <2> QED
          BY <1>5, <2>1 DEF Release, StepTo
<1>6. ASSUME NEW r \in Attempts, Respond(r) PROVE KeyTypes'
      BY <1>6 DEF Respond, StepTo, Answer
<1>7. ASSUME NEW r \in Attempts, Crash(r) PROVE KeyTypes'
      BY <1>7 DEF Crash, StepTo, Answer
<1>8. ASSUME NEW r \in Attempts, Retry(r) PROVE KeyTypes'
      BY <1>8 DEF Retry, StepTo
<1>9. CASE Expire \/ ExpireResult
      <2>1. entry' = Absent /\ UNCHANGED <<step, guarded, status, post, reply>>
            BY <1>9 DEF Expire, ExpireResult
      <2> QED
          BY <2>1, EntryFacts
<1>10. CASE UNCHANGED keyVars
       BY <1>10 DEF keyVars
<1> QED
    BY <1>1, <1>2, <1>3, <1>4, <1>5, <1>6, <1>7, <1>8, <1>9, <1>10 DEF KeyNext, AttemptStep

\* Stored posts stay, so what named one still does.
LEMMA TruthStep == KeyTypes /\ TruthInv /\ [KeyNext]_keyVars => TruthInv'
<1> SUFFICES ASSUME KeyTypes, TruthInv, [KeyNext]_keyVars PROVE TruthInv'
    OBVIOUS
<1>0. posts \subseteq posts'
      BY DEF KeyNext, AttemptStep, Claim, Get, Run, SavePost, Complete, Release, Respond,
         Crash, Retry, Expire, ExpireResult, keyVars
<1>1. ASSUME NEW r \in Attempts, status'[r] = "ok" PROVE OfBody(post[r], Body[r])'
      <2>1. CASE status'[r] = status[r] /\ post'[r] = post[r]
            BY <1>0, <1>1, <2>1 DEF TruthInv, OfBody
      <2>2. CASE Run(r)
            <3>1. SavePost(r)
                  BY <1>1, <2>2 DEF Run, KeyTypes
            <3>2. PICK n : posts' = posts \cup {<<Body[r], n>>}
                           /\ post' = [post EXCEPT ![r] = <<Body[r], n>>]
                  BY <3>1 DEF SavePost
            <3>3. post'[r] = <<Body[r], n>>
                  BY <3>2 DEF KeyTypes
            <3> QED
                BY <3>2, <3>3 DEF OfBody
      <2>3. CASE Retry(r)
            BY <1>1, <2>3 DEF Retry, KeyTypes
      <2>4. ASSUME NEW q \in Attempts, q # r, Run(q) \/ Retry(q)
            PROVE  status'[r] = status[r] /\ post'[r] = post[r]
            BY <2>4 DEF Run, SavePost, Retry, KeyTypes
      <2>5. CASE \/ \E q \in Attempts : Claim(q) \/ Get(q) \/ Complete(q) \/ Release(q)
                                         \/ Respond(q) \/ Crash(q)
                 \/ Expire \/ ExpireResult \/ UNCHANGED keyVars
            BY <2>1, <2>5 DEF Claim, Get, Complete, Release, Respond, Crash, Expire,
               ExpireResult, keyVars
      <2> QED
          BY <2>1, <2>2, <2>3, <2>4, <2>5 DEF KeyNext, AttemptStep
<1>2. ASSUME entry'.state = "done" PROVE OfBody(entry.post, entry.fp)'
      <2>1. CASE entry' = entry
            BY <1>0, <1>2, <2>1 DEF TruthInv, OfBody
      <2>2. ASSUME NEW r \in Attempts, Complete(r), entry' = DoneEntry(r)
            PROVE  OfBody(entry.post, entry.fp)'
            <3>1. OfBody(post[r], Body[r]) /\ entry'.post = post[r] /\ entry'.fp = Body[r]
                  BY <2>2, EntryFacts DEF Complete, TruthInv
            <3> QED
                BY <1>0, <3>1 DEF OfBody
      <2>3. ASSUME NEW r \in Attempts, Claim(r) \/ Complete(r) \/ Release(r)
            PROVE  OfBody(entry.post, entry.fp)'
            BY <1>2, <2>1, <2>2, <2>3, EntryStep, EntryFacts
      <2>4. CASE \/ \E q \in Attempts : Get(q) \/ Run(q) \/ Respond(q) \/ Crash(q) \/ Retry(q)
                 \/ UNCHANGED keyVars
            BY <2>1, <2>4 DEF Get, Run, Respond, Crash, Retry, keyVars
      <2>5. CASE Expire \/ ExpireResult
            <3>1. entry' = Absent
                  BY <2>5 DEF Expire, ExpireResult
            <3> QED
                BY <1>2, <3>1, EntryFacts
      <2> QED
          BY <2>3, <2>4, <2>5 DEF KeyNext, AttemptStep
<1>3. ASSUME NEW r \in Attempts, reply'[r].kind \in {"201", "replay"}
      PROVE  reply'[r].post \in posts' /\ reply'[r].post[1] = Body[r]
      <2>1. CASE reply'[r] = reply[r]
            BY <1>0, <1>3, <2>1 DEF TruthInv, RepliesAreTrue
      <2>2. CASE Get(r)
            <3>1. \/ reply'[r] = [kind |-> "replay", post |-> entry.post]
                     /\ entry.state = "done" /\ entry.fp = Body[r]
                  \/ \E k \in {"409", "422"} : reply'[r] = [kind |-> k, post |-> NoPost]
                  BY <2>2 DEF Get, Answer, KeyTypes
            <3> QED
                BY <1>0, <1>3, <3>1 DEF TruthInv, OfBody
      <2>3. CASE Respond(r)
            <3>1. \/ reply'[r] = [kind |-> "201", post |-> post[r]] /\ status[r] = "ok"
                  \/ reply'[r] = [kind |-> "500", post |-> NoPost]
                  BY <2>3 DEF Respond, Answer, KeyTypes
            <3> QED
                BY <1>0, <1>3, <3>1 DEF TruthInv, OfBody
      <2>4. CASE Crash(r)
            <3>1. reply'[r] = [kind |-> "lost", post |-> NoPost]
                  BY <2>4 DEF Crash, Answer, KeyTypes
            <3> QED
                BY <1>3, <3>1
      <2>5. CASE Retry(r)
            <3>1. reply'[r] = NoReply
                  BY <2>5 DEF Retry, KeyTypes
            <3> QED
                BY <1>3, <3>1 DEF NoReply
      <2>6. ASSUME NEW q \in Attempts, q # r,
                   Get(q) \/ Respond(q) \/ Crash(q) \/ Retry(q)
            PROVE  reply'[r] = reply[r]
            BY <2>6 DEF Get, Respond, Crash, Retry, Answer, KeyTypes
      <2>7. CASE \/ \E q \in Attempts : Claim(q) \/ Run(q) \/ Complete(q) \/ Release(q)
                 \/ Expire \/ ExpireResult \/ UNCHANGED keyVars
            BY <2>1, <2>7 DEF Claim, Run, Complete, Release, Expire, ExpireResult, keyVars
      <2> QED
          BY <2>1, <2>2, <2>3, <2>4, <2>5, <2>6, <2>7 DEF KeyNext, AttemptStep
<1> QED
    BY <1>1, <1>2, <1>3 DEF TruthInv, RepliesAreTrue

\* The claim goes round; the post does not come twice.
LEMMA OnceStep == KeyTypes /\ OnceInv /\ [KeyNext]_keyVars => OnceInv'
<1> SUFFICES ASSUME KeyTypes, OnceInv, [KeyNext]_keyVars, keyFailures'.kinds = {}
             PROVE  Guarded' /\ Alone' /\ Kept' /\ One'
    BY DEF OnceInv
<1>0. keyFailures.kinds = {}
      BY KeyFailsFacts DEF KeyNext, AttemptStep, Claim, Get, Run, Complete, Release, Respond,
         Crash, Retry, Expire, ExpireResult, keyVars
<1>a. Guarded /\ Alone /\ Kept /\ One
      BY <1>0 DEF OnceInv
<1> USE <1>a, KeyFailsFacts DEF KeyTypes, Guarded, Alone, Kept, One, Busy, Unprotecting
<1>1. ASSUME NEW r \in Attempts, Claim(r) PROVE Guarded' /\ Alone' /\ Kept' /\ One'
      <2>1. CASE entry = Absent /\ entry' = RunningEntry(r) /\ guarded' = [guarded EXCEPT ![r] = TRUE]
            <3>1. entry.state = "absent" /\ entry'.state = "running"
                  BY <2>1, EntryFacts
            <3>2. (\A q \in Attempts : ~Busy(q)) /\ posts = {} /\ posts' = posts
                  BY <1>1, <3>1 DEF Claim
            <3>3. \A q \in Attempts : q # r => step'[q] = step[q] /\ guarded'[q] = guarded[q]
                  BY <1>1, <2>1 DEF Claim, StepTo
            <3> QED
                BY <2>1, <3>1, <3>2, <3>3
      <2>2. CASE entry' = entry /\ guarded' = guarded /\ (entry # Absent \/ KeyFails("claim"))
            <3>1. step[r] = "new" /\ step' = [step EXCEPT ![r] = "get"] /\ UNCHANGED <<status, posts>>
                  <4>1. ~KeyFails("claim")
                        BY KeyFailsFacts DEF Unprotecting
                  <4> QED
                      BY <1>1, <2>2, <4>1 DEF Claim, StepTo
            <3> QED
                BY <2>2, <3>1
      <2> QED
          BY <1>1, <2>1, <2>2, EntryStep
<1>2. ASSUME NEW r \in Attempts, Get(r) PROVE Guarded' /\ Alone' /\ Kept' /\ One'
      BY <1>2, ZenonT(60) DEF Get, StepTo, Answer
<1>3. ASSUME NEW r \in Attempts, Run(r) PROVE Guarded' /\ Alone' /\ Kept' /\ One'
      BY <1>3, ZenonT(60) DEF Run, StepTo, SavePost
<1>4. ASSUME NEW r \in Attempts, Complete(r) PROVE Guarded' /\ Alone' /\ Kept' /\ One'
      <2>1. entry' = DoneEntry(r) /\ entry'.state = "done"
            BY <1>4, EntryFacts, ZenonT(60) DEF Complete, DoneEntry
      <2>2. \A q \in Attempts : ~Busy(q)'
            BY <1>4 DEF Complete, StepTo
      <2>3. posts' = posts
            BY <1>4 DEF Complete
      <2> QED
          BY <2>1, <2>2, <2>3
<1>5. ASSUME NEW r \in Attempts, Release(r) PROVE Guarded' /\ Alone' /\ Kept' /\ One'
      BY <1>5 DEF Release, StepTo, Absent
<1>6. ASSUME NEW r \in Attempts, Respond(r) PROVE Guarded' /\ Alone' /\ Kept' /\ One'
      <2>1. /\ step[r] = "respond" /\ step' = [step EXCEPT ![r] = "end"]
            /\ UNCHANGED <<entry, guarded, status, posts>>
            BY <1>6 DEF Respond, StepTo, Answer
      <2> QED
          BY <2>1
<1>7. ASSUME NEW r \in Attempts, Crash(r) PROVE Guarded' /\ Alone' /\ Kept' /\ One'
      BY <1>7 DEF Crash, StepTo, Answer
<1>8. ASSUME NEW r \in Attempts, Retry(r) PROVE Guarded' /\ Alone' /\ Kept' /\ One'
      BY <1>8 DEF Retry, StepTo
<1>9. CASE Expire
      BY <1>9 DEF Expire, Absent, Working
<1>10. CASE UNCHANGED keyVars
       BY <1>10 DEF keyVars
<1>11. ~ExpireResult
       BY KeyFailsFacts DEF ExpireResult, Unprotecting
<1> QED
    BY <1>1, <1>2, <1>3, <1>4, <1>5, <1>6, <1>7, <1>8, <1>9, <1>10, <1>11 DEF KeyNext, AttemptStep

LEMMA KeyStep == KeyInv /\ [KeyNext]_keyVars => KeyInv'
  BY KeyTypesStep, TruthStep, OnceStep DEF KeyInv

\* A success that withIdempotency tells an attempt, from its own run or replayed
\* from Redis, names a stored post of its own body.
THEOREM RepliesAreTrueHolds == KeySpec => []RepliesAreTrue
<1>1. KeyInv => RepliesAreTrue
      BY DEF KeyInv, TruthInv
<1> QED
    BY <1>1, KeyStart, KeyStep, PTL DEF KeySpec

\* However many attempts race, fail, crash and are repeated, one post is stored
\* under the key, until its recorded answer expires (ResultTTL) and unless a
\* failure happened after which the key does not protect (Begin, Complete and
\* Release around SavePost).
THEOREM AtMostOnceHolds == KeySpec => []AtMostOnce
<1>1. ASSUME KeyInv PROVE AtMostOnce
      <2> SUFFICES ASSUME keyFailures.kinds = {} PROVE Cardinality(posts) <= 1
          BY DEF AtMostOnce
      <2>1. One
            BY <1>1 DEF KeyInv, OnceInv
      <2>2. CASE posts = {}
            BY <2>2, FS_EmptySet
      <2>3. ASSUME NEW p, posts = {p} PROVE Cardinality(posts) <= 1
            <3>1. Cardinality({p}) = 1
                  BY FS_Singleton
            <3> QED
                BY <2>3, <3>1
      <2> QED
          BY <2>1, <2>2, <2>3 DEF One
<1> QED
    BY <1>1, KeyStart, KeyStep, PTL DEF KeySpec
=============================================================================
