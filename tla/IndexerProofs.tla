---------------------------- MODULE IndexerProofs ----------------------------
(***************************************************************************)
(* The search documents are right for any number of posts, workers,        *)
(* failures and redeliveries, with or without a new index.                 *)
(*                                                                         *)
(* Table says that a version is given to one state of a row only.  Holding *)
(* says that what a caller of Sync carries to Elasticsearch is a row that  *)
(* was committed: the one it loaded, or the one its own UPDATE made of it, *)
(* which is why embed may set two fields of its old copy instead of        *)
(* reading the row again (indexer.go:124-139).                             *)
(***************************************************************************)
EXTENDS Indexer, TLAPS

\* Every row is committed before it is seen, and no version is used twice.
Table ==
  /\ row \in [Posts -> Row] /\ history \subseteq Posts \X Row
  /\ \A p \in Posts : Exists(p) => row[p].version = Changes(row[p]) /\ <<p, row[p]>> \in history
  /\ \A h \in history :
       /\ 0 < h[2].version /\ h[2].version <= row[h[1]].version
       /\ h[2].version = row[h[1]].version => h[2] = row[h[1]]
  /\ \A g, h \in history : g[1] = h[1] /\ g[2].version = h[2].version => g = h

\* The other types.
Types ==
  /\ events \subseteq Events /\ handled \subseteq Events
  /\ tries \in [Workers -> 0..(MaxAttempts - 1)]
  /\ index \in [Indices -> [Posts -> Row]] /\ alias \in Indices
  /\ pc \in [Syncers -> {"idle", "load", "embed", "reload", "write"}]
  /\ post \in [Syncers -> Posts \cup {0}]
  /\ event \in [Syncers -> Events \cup {NoEvent}]
  /\ copy \in [Syncers -> Row]
  /\ todo \in [Jobs -> SUBSET Posts]
  /\ phase \in {"off", "build", "catchup", "done", "failed"}
  /\ after \in Posts \cup {0} /\ last \in BOOLEAN
  /\ failures \in [n : 0..MaxFailures, gaveUp : SUBSET Syncers]
  /\ duplicates \in 0..MaxDuplicates

\* Only posts that exist are put on a worker's or a job's list.
Known ==
  /\ \A e \in events \cup handled : Exists(e[1])
  /\ \A j \in Jobs : \A p \in todo[j] : Exists(p)

\* What Sync has in hand.
Holding(s) ==
  /\ pc[s] # "idle" <=> post[s] # 0
  /\ pc[s] # "idle" => Exists(post[s])
  /\ s \in Workers /\ pc[s] # "idle" => event[s] \in events \cup handled
  /\ pc[s] = "embed" => ~copy[s].deleted
  /\ pc[s] \in {"embed", "write"} => <<post[s], copy[s]>> \in history

IndexInv == Table /\ Types /\ Known /\ (\A s \in Syncers : Holding(s)) /\ DocsAreRows

\* A document is never newer than its row, and the one of the row's own
\* version is the row's document: the comparison of versions compares contents.
UpToDate ==
  \A i \in Indices, p \in Posts :
    /\ index[i][p].version <= row[p].version
    /\ index[i][p].version = row[p].version /\ Exists(p) => index[i][p] = DocOf(row[p])

LEMMA Constants ==
  /\ NPosts \in Nat /\ Existing \subseteq Posts /\ 0 \notin Posts /\ Posts \subseteq Nat
  /\ Jobs \subseteq Syncers /\ Workers \subseteq Syncers /\ Jobs \cap Workers = {}
  /\ PageSize \in Nat /\ MaxAttempts \in Nat \ {0} /\ MaxFailures \in Nat /\ MaxDuplicates \in Nat
  /\ None \in Row /\ None.version = 0 /\ NoEvent[1] = 0
  BY PostsAssumption, JobsAssumption, OptionsAssumption
  DEF PostsAssumption, JobsAssumption, OptionsAssumption, Posts, Syncers, None, Row, NoEvent

\* A committed change takes the next version.
LEMMA StoreFacts ==
  ASSUME Table, NEW p \in Posts, NEW r \in Row, Store(p, r),
         r.version = row[p].version + 1, r.version = Changes(r)
  PROVE  /\ Table' /\ history \subseteq history' /\ <<p, r>> \in history'
         /\ Exists(p)' /\ \A q \in Posts : Exists(q) => Exists(q)'
<1> USE DEF Table, Store
<1>1. row' \in [Posts -> Row] /\ history' \subseteq Posts \X Row
      OBVIOUS
<1>2. row'[p] = r /\ \A q \in Posts : q # p => row'[q] = row[q]
      OBVIOUS
<1>3. row[p].version \in Nat /\ r.version \in Nat /\ r.version > 0
      BY DEF Row
<1>4. ASSUME NEW h \in history
      PROVE  /\ h[1] \in Posts /\ h[2] \in Row /\ 0 < h[2].version
             /\ h[2].version <= row[h[1]].version
             /\ h[1] = p => h[2].version < r.version
      BY <1>3 DEF Row
<1>5. ASSUME NEW q \in Posts PROVE Exists(q)' => row'[q].version = Changes(row'[q]) /\ <<q, row'[q]>> \in history'
      BY <1>2 DEF Exists
<1>6. ASSUME NEW h \in history'
      PROVE  /\ 0 < h[2].version /\ h[2].version <= row'[h[1]].version
             /\ h[2].version = row'[h[1]].version => h[2] = row'[h[1]]
      <2>1. CASE h = <<p, r>>
            BY <1>2, <1>3, <2>1
      <2>2. CASE h \in history /\ h[1] = p
            BY <1>2, <1>3, <1>4, <2>2 DEF Row
      <2>3. CASE h \in history /\ h[1] # p
            BY <1>2, <1>4, <2>3
      <2> QED
          BY <2>1, <2>2, <2>3
<1>7. ASSUME NEW g \in history', NEW h \in history', g[1] = h[1], g[2].version = h[2].version
      PROVE  g = h
      <2>1. CASE g \in history /\ h \in history
            BY <1>7, <2>1
      <2>2. CASE g = <<p, r>> /\ h = <<p, r>>
            BY <2>2
      <2>3. CASE g \in history /\ h = <<p, r>>
            BY <1>3, <1>4, <1>7, <2>3 DEF Row
      <2>4. CASE g = <<p, r>> /\ h \in history
            BY <1>3, <1>4, <1>7, <2>4 DEF Row
      <2> QED
          BY <2>1, <2>2, <2>3, <2>4
<1>8. Exists(p)' /\ \A q \in Posts : Exists(q) => Exists(q)'
      BY <1>2, <1>3 DEF Exists
<1> QED
    BY <1>1, <1>5, <1>6, <1>7, <1>8

LEMMA IndexInit == Init => IndexInv
<1> SUFFICES ASSUME Init PROVE IndexInv
    OBVIOUS
<1> USE Constants
<1>1. PICK old \in SUBSET Existing :
        /\ row = [p \in Posts |-> IF p \in old THEN [None EXCEPT !.version = 1] ELSE None]
        /\ history = {<<p, [None EXCEPT !.version = 1]>> : p \in old}
      BY DEF Init
<1> DEFINE one == [None EXCEPT !.version = 1]
<1>2. one \in Row /\ one.version = 1 /\ Changes(one) = 1
      <2>1. one \in Row
            BY DEF Row
      <2>2. one.version = 1 /\ one.deleted = FALSE /\ one.embedding = FALSE
            BY DEF None
      <2> QED
          BY <2>1, <2>2 DEF Changes
<1> HIDE DEF one
<1>3. \A p \in Posts : row[p] = IF p \in old THEN one ELSE None
      BY <1>1 DEF one
<1>4. history = {<<p, one>> : p \in old} /\ old \subseteq Posts
      BY <1>1 DEF one
<1>5. row \in [Posts -> Row]
      BY <1>1, <1>2 DEF one
<1>6. Table
      BY <1>2, <1>3, <1>4, <1>5 DEF Table, Exists
<1>7. Types
      <2>1. 0 \in 0..MaxFailures /\ 0 \in 0..MaxDuplicates /\ 0 \in 0..(MaxAttempts - 1)
            OBVIOUS
      <2>2. /\ failures \in [n : 0..MaxFailures, gaveUp : SUBSET Syncers]
            /\ duplicates \in 0..MaxDuplicates /\ tries \in [Workers -> 0..(MaxAttempts - 1)]
            BY <2>1 DEF Init
      <2>3. index \in [Indices -> [Posts -> Row]] /\ alias \in Indices
            BY DEF Init, Indices
      <2>4. pc \in [Syncers -> {"idle", "load", "embed", "reload", "write"}]
            BY DEF Init
      <2> QED
          BY <2>2, <2>3, <2>4 DEF Init, Types
<1>8. Known /\ \A s \in Syncers : Holding(s)
      BY DEF Init, Known, Holding
<1>9. DocsAreRows
      BY DEF Init, DocsAreRows
<1> QED
    BY <1>6, <1>7, <1>8, <1>9 DEF IndexInv

\* The two changes of a row.
LEMMA DeletedRow ==
  ASSUME NEW r \in Row, NEW d, d = [r EXCEPT !.deleted = TRUE, !.version = @ + 1]
  PROVE  /\ d \in Row /\ d.version = r.version + 1 /\ d.deleted = TRUE
         /\ d.embedding = r.embedding
<1>1. r.version \in Nat /\ r.version + 1 \in Nat
      BY DEF Row
<1>2. d.version = r.version + 1 /\ d.deleted = TRUE /\ d.embedding = r.embedding
      BY DEF Row
<1>3. d \in Row
      BY <1>1 DEF Row
<1> QED
    BY <1>2, <1>3

LEMMA EmbeddedRow ==
  ASSUME NEW r \in Row, NEW d, d = [r EXCEPT !.embedding = TRUE, !.version = @ + 1]
  PROVE  /\ d \in Row /\ d.version = r.version + 1 /\ d.embedding = TRUE
         /\ d.deleted = r.deleted
<1>1. r.version \in Nat /\ r.version + 1 \in Nat
      BY DEF Row
<1>2. d.version = r.version + 1 /\ d.embedding = TRUE /\ d.deleted = r.deleted
      BY DEF Row
<1>3. d \in Row
      BY <1>1 DEF Row
<1> QED
    BY <1>2, <1>3

\* What a step leaves alone stays right.
LEMMA TableFrame ==
  ASSUME Table, UNCHANGED <<row, history>>
  PROVE  Table' /\ history \subseteq history' /\ \A p : Exists(p) <=> Exists(p)'
  BY DEF Table, Exists

LEMMA HoldingFrame ==
  ASSUME NEW s \in Syncers, Holding(s), Types, history \subseteq history',
         \A p \in Posts : Exists(p) => Exists(p)',
         events \cup handled \subseteq events' \cup handled',
         pc'[s] = pc[s], post'[s] = post[s], copy'[s] = copy[s], event'[s] = event[s]
  PROVE  Holding(s)'
<1>1. pc[s] # "idle" => post[s] \in Posts
      BY DEF Types, Holding
<1> QED
    BY <1>1 DEF Holding, Exists

LEMMA KnownFrame ==
  ASSUME Known, Types, \A p \in Posts : Exists(p) => Exists(p)',
         events' \cup handled' \subseteq events \cup handled, todo' = todo
  PROVE  Known'
<1>1. \A e \in events \cup handled : e[1] \in Posts
      BY DEF Types, Events
<1>2. \A j \in Jobs : todo[j] \subseteq Posts
      BY DEF Types
<1> QED
    BY <1>1, <1>2 DEF Known, Exists

LEMMA DocsFrame ==
  ASSUME DocsAreRows, history \subseteq history', index' = index
  PROVE  DocsAreRows'
  BY DEF DocsAreRows

LEMMA FailsFacts ==
  ASSUME Types, NEW S \in SUBSET Syncers, Fails(S)
  PROVE  failures' \in [n : 0..MaxFailures, gaveUp : SUBSET Syncers]
  BY Constants DEF Types, Fails

\* The post service commits a change and records its event.
LEMMA TableStep ==
  ASSUME IndexInv, NEW p \in Posts, CreatePost(p) \/ DeletePost(p)
  PROVE  IndexInv'
<1> USE DEF IndexInv
<1>1. PICK r \in Row, e \in Events :
        /\ Store(p, r) /\ r.version = row[p].version + 1 /\ r.version = Changes(r)
        /\ e[1] = p /\ events' = events \cup {e}
      <2>1. CASE CreatePost(p)
            <3> DEFINE r == [None EXCEPT !.version = 1]
            <3>1. r \in Row /\ r.version = 1 /\ r.deleted = FALSE /\ r.embedding = FALSE
                  BY Constants DEF None, Row
            <3>2. Store(p, r) /\ events' = events \cup {<<p, "created">>}
                  BY <2>1 DEF CreatePost
            <3> HIDE DEF r
            <3>3. row[p].version = 0
                  BY <2>1 DEF CreatePost, Exists, Table, Row
            <3>4. r.version = Changes(r) /\ r.version = row[p].version + 1
                  BY <3>1, <3>3 DEF Changes
            <3>5. <<p, "created">> \in Events /\ <<p, "created">>[1] = p
                  BY DEF Events
            <3> QED
                BY <3>1, <3>2, <3>4, <3>5
      <2>2. CASE DeletePost(p)
            <3> DEFINE r == [row[p] EXCEPT !.deleted = TRUE, !.version = @ + 1]
            <3>0. row[p] \in Row
                  BY DEF Table
            <3>1. /\ r \in Row /\ r.version = row[p].version + 1 /\ r.deleted = TRUE
                  /\ r.embedding = row[p].embedding
                  BY <3>0, DeletedRow
            <3>2. Store(p, r) /\ events' = events \cup {<<p, "deleted">>} /\ row[p].deleted = FALSE
                  BY <2>2, <3>0 DEF DeletePost, Row
            <3> HIDE DEF r
            <3>3. row[p].version = Changes(row[p])
                  BY <2>2 DEF DeletePost, Table
            <3>4. r.version = Changes(r)
                  <4>1. CASE row[p].embedding
                        BY <3>1, <3>2, <3>3, <4>1 DEF Changes
                  <4>2. CASE ~row[p].embedding
                        BY <3>1, <3>2, <3>3, <4>2 DEF Changes
                  <4> QED
                      BY <4>1, <4>2
            <3>5. <<p, "deleted">> \in Events /\ <<p, "deleted">>[1] = p
                  BY DEF Events
            <3> QED
                BY <3>1, <3>2, <3>4, <3>5
      <2> QED
          BY <2>1, <2>2
<1>2. UNCHANGED <<handled, tries, esVars, syncVars, todo, reindexVars, failures, duplicates>>
      BY DEF CreatePost, DeletePost
<1>3. /\ Table' /\ history \subseteq history' /\ Exists(p)'
      /\ \A q \in Posts : Exists(q) => Exists(q)'
      BY <1>1, StoreFacts
<1> USE <1>2 DEF esVars, syncVars, reindexVars
<1>4. Types'
      BY <1>1 DEF Types
<1>5. \A s \in Syncers : Holding(s)'
      BY <1>1, <1>3, HoldingFrame
<1>6. Known'
      <2>1. ASSUME NEW d \in events \cup handled PROVE Exists(d[1])'
            BY <1>3 DEF Known, Types, Events
      <2>2. ASSUME NEW j \in Jobs, NEW q \in todo[j] PROVE Exists(q)'
            BY <1>3 DEF Known, Types
      <2>3. Exists(e[1])'
            BY <1>1, <1>3
      <2> QED
          BY <1>1, <2>1, <2>2, <2>3 DEF Known
<1>7. DocsAreRows'
      BY <1>3, DocsFrame
<1> QED
    BY <1>3, <1>4, <1>5, <1>6, <1>7

\* A caller of Sync reads the row or is answered by OpenAI.
LEMMA ReadStep ==
  ASSUME IndexInv, NEW s \in Syncers, Load(s) \/ EmbedFails(s) \/ Reload(s)
  PROVE  IndexInv'
<1> USE DEF IndexInv
<1>1. /\ UNCHANGED <<row, history, events, handled, tries, index, alias, post, event, todo>>
      /\ UNCHANGED <<phase, after, last, duplicates>>
      BY DEF Load, EmbedFails, Reload, tableVars, eventVars, esVars, reindexVars
<1>2. Table' /\ history \subseteq history' /\ \A p : Exists(p) <=> Exists(p)'
      BY <1>1, TableFrame
<1>3. post[s] \in Posts /\ Exists(post[s]) /\ pc[s] # "idle" /\ row[post[s]] \in Row
      BY DEF Load, EmbedFails, Reload, Holding, Types, Table
<1>4. Types'
      <2>1. failures' \in [n : 0..MaxFailures, gaveUp : SUBSET Syncers]
            BY FailsFacts DEF Load, EmbedFails, Reload, Types
      <2>2. pc' \in [Syncers -> {"idle", "load", "embed", "reload", "write"}]
            BY DEF Load, EmbedFails, Reload, Types
      <2>3. copy' \in [Syncers -> Row]
            BY <1>3 DEF Load, EmbedFails, Reload, Types
      <2> QED
          BY <1>1, <2>1, <2>2, <2>3 DEF Types
<1>5. ASSUME NEW t \in Syncers, t # s PROVE Holding(t)'
      BY <1>1, <1>2, <1>5, HoldingFrame DEF Load, EmbedFails, Reload, Types
<1>6. Holding(s)'
      <2>0. <<post[s], row[post[s]]>> \in history
            BY <1>3 DEF Table
      <2>1. CASE Load(s) \/ Reload(s)
            <3>1. copy'[s] = row[post[s]] /\ pc'[s] \in {"embed", "write"}
                  BY <2>1 DEF Load, Reload, Types
            <3>2. pc'[s] = "embed" => ~row[post[s]].deleted
                  BY <2>1 DEF Load, Reload, Types
            <3> QED
                BY <1>1, <1>2, <1>3, <2>0, <3>1, <3>2 DEF Holding, Exists
      <2>2. CASE EmbedFails(s)
            BY <1>1, <1>2, <1>3, <2>2 DEF EmbedFails, Types, Holding, Exists
      <2> QED
          BY <2>1, <2>2
<1>7. Known'
      BY <1>1, <1>2, KnownFrame
<1>8. DocsAreRows'
      BY <1>1, <1>2, DocsFrame
<1> QED
    BY <1>2, <1>4, <1>5, <1>6, <1>7, <1>8

\* The UPDATE of embed: the caller's copy becomes the row it has just made.
LEMMA EmbedStep ==
  ASSUME IndexInv, NEW s \in Syncers, EmbedStore(s)
  PROVE  IndexInv'
<1> USE DEF IndexInv
<1>1. /\ UNCHANGED <<events, handled, tries, index, alias, post, event, todo, phase, after, last>>
      /\ UNCHANGED <<failures, duplicates>>
      BY DEF EmbedStore, eventVars, esVars, reindexVars
<1>3. /\ post[s] \in Posts /\ Exists(post[s]) /\ pc[s] = "embed" /\ row[post[s]] \in Row
      /\ copy[s] \in Row /\ ~copy[s].deleted
      BY DEF EmbedStore, Holding, Types, Table
<1>4. /\ Table' /\ history \subseteq history' /\ \A p \in Posts : Exists(p) => Exists(p)'
      /\ pc' \in [Syncers -> {"idle", "load", "embed", "reload", "write"}]
      /\ copy' \in [Syncers -> Row]
      /\ \A t \in Syncers : t # s => pc'[t] = pc[t] /\ copy'[t] = copy[t]
      /\ pc'[s] = "reload" \/ (pc'[s] = "write" /\ <<post[s], copy'[s]>> \in history')
      <2>1. CASE row[post[s]].embedding \/ row[post[s]].deleted
            <3>1. pc' = [pc EXCEPT ![s] = "reload"] /\ UNCHANGED <<row, history, copy>>
                  BY <2>1 DEF EmbedStore, tableVars
            <3>2. Table' /\ history \subseteq history' /\ \A p : Exists(p) <=> Exists(p)'
                  BY <3>1, TableFrame
            <3>3. /\ pc' \in [Syncers -> {"idle", "load", "embed", "reload", "write"}]
                  /\ pc'[s] = "reload" /\ \A t \in Syncers : t # s => pc'[t] = pc[t]
                  BY <3>1 DEF Types
            <3>4. copy' \in [Syncers -> Row] /\ copy' = copy
                  BY <3>1 DEF Types
            <3>5. \A p \in Posts : Exists(p) => Exists(p)'
                  BY <3>2
            <3> QED
                BY <3>2, <3>3, <3>4, <3>5
      <2>2. CASE ~(row[post[s]].embedding \/ row[post[s]].deleted)
            <3> DEFINE r == [row[post[s]] EXCEPT !.embedding = TRUE, !.version = @ + 1]
            <3>1. /\ r \in Row /\ r.version = row[post[s]].version + 1 /\ r.embedding = TRUE
                  /\ r.deleted = row[post[s]].deleted
                  BY <1>3, EmbeddedRow
            <3>2. Store(post[s], r) /\ pc' = [pc EXCEPT ![s] = "write"]
                  BY <2>2 DEF EmbedStore
            <3>3. copy' = [copy EXCEPT ![s].embedding = TRUE,
                                       ![s].version = row[post[s]].version + 1]
                  BY <2>2 DEF EmbedStore
            <3> HIDE DEF r
            <3>4. r.version = Changes(r)
                  <4>1. row[post[s]].version = Changes(row[post[s]])
                        BY <1>3 DEF Table
                  <4> QED
                      BY <2>2, <3>1, <4>1 DEF Changes
            <3>5. copy'[s] = r
                  <4> DEFINE c == [copy[s] EXCEPT !.embedding = TRUE,
                                                  !.version = row[post[s]].version + 1]
                  <4>0. copy'[s] = c
                        BY <3>3 DEF Types
                  <4>1. /\ c \in Row /\ c.version = row[post[s]].version + 1
                        /\ c.embedding = TRUE /\ c.deleted = copy[s].deleted
                        <5>1. row[post[s]].version + 1 \in Nat
                              BY <1>3 DEF Row
                        <5>2. /\ c.version = row[post[s]].version + 1
                              /\ c.embedding = TRUE /\ c.deleted = copy[s].deleted
                              BY <1>3 DEF Row
                        <5>3. c \in Row
                              BY <1>3, <5>1 DEF Row
                        <5> QED
                            BY <5>2, <5>3
                  <4> HIDE DEF c
                  <4>2. r.deleted = FALSE /\ copy[s].deleted = FALSE
                        BY <1>3, <2>2, <3>1 DEF Row
                  <4> QED
                      BY <3>1, <4>0, <4>1, <4>2 DEF Row
            <3>6. /\ Table' /\ history \subseteq history' /\ <<post[s], r>> \in history'
                  /\ \A p \in Posts : Exists(p) => Exists(p)'
                  BY <1>3, <3>1, <3>2, <3>4, StoreFacts
            <3>7. \A t \in Syncers : t # s => copy'[t] = copy[t]
                  BY <3>3 DEF Types
            <3>8. copy' \in [Syncers -> Row]
                  BY <3>1, <3>3, <3>5, <3>7 DEF Types
            <3> QED
                BY <3>2, <3>5, <3>6, <3>7, <3>8 DEF Types
      <2> QED
          BY <2>1, <2>2
<1>5. Types'
      BY <1>1, <1>4 DEF Types
<1>6. ASSUME NEW t \in Syncers, t # s PROVE Holding(t)'
      BY <1>1, <1>4, <1>6, HoldingFrame
<1>7. Holding(s)'
      <2>1. Exists(post[s])'
            BY <1>1, <1>3, <1>4 DEF Exists
      <2>2. post[s] # 0 /\ (s \in Workers => event[s] \in events \cup handled)
            BY <1>3 DEF Holding
      <2> QED
          BY <1>1, <1>4, <2>1, <2>2 DEF Holding
<1>8. Known'
      BY <1>1, <1>4, KnownFrame
<1>9. DocsAreRows'
      BY <1>1, <1>4, DocsFrame
<1> QED
    BY <1>4, <1>5, <1>6, <1>7, <1>8, <1>9

\* The versioned write: what the index takes was committed under that version.
LEMMA WriteStep ==
  ASSUME IndexInv, NEW s \in Syncers, Write(s)
  PROVE  IndexInv'
<1> USE DEF IndexInv
<1>1. /\ UNCHANGED <<row, history, alias, todo, phase, after, last, failures, duplicates>>
      /\ End(s) /\ IndexVersioned(s)
      BY DEF Write, tableVars, reindexVars
<1>2. Table' /\ history \subseteq history' /\ \A p : Exists(p) <=> Exists(p)'
      BY <1>1, TableFrame
<1>3. /\ post[s] \in Posts /\ copy[s] \in Row /\ <<post[s], copy[s]>> \in history
      /\ Target(s) \in Indices /\ (s \in Workers => event[s] \in events \cup handled)
      BY DEF Write, Holding, Types, Target, Indices
<1>4. DocOf(copy[s]) \in Row
      BY <1>3 DEF DocOf, Row
<1>5. events' \cup handled' = events \cup handled
      <2>1. CASE s \in Workers
            BY <1>3, <2>1 DEF Write, FinishEvent
      <2>2. CASE s \notin Workers
            BY <2>2 DEF Write, eventVars
      <2> QED
          BY <2>1, <2>2
<1>6. ASSUME NEW i \in Indices, NEW p \in Posts
      PROVE  /\ index'[i][p] = index[i][p] \/ (p = post[s] /\ index'[i][p] = DocOf(copy[s]))
             /\ index'[i][p] \in Row
      <2>1. index[i][p] \in Row
            BY DEF Types
      <2>2. CASE i = Target(s) /\ p = post[s]
            <3>1. index'[i][p] = IF copy[s].version > index[i][p].version
                                   THEN DocOf(copy[s]) ELSE index[i][p]
                  BY <1>1, <1>3, <2>2 DEF IndexVersioned, Types
            <3> QED
                BY <1>4, <2>1, <2>2, <3>1
      <2>3. CASE i # Target(s) \/ p # post[s]
            <3>1. index'[i][p] = index[i][p]
                  BY <1>1, <1>3, <2>3 DEF IndexVersioned, Types
            <3> QED
                BY <2>1, <3>1
      <2> QED
          BY <2>2, <2>3
<1>7. index' \in [Indices -> [Posts -> Row]]
      <2>1. DOMAIN index' = Indices /\ index' = [i \in Indices |-> index'[i]]
            BY <1>1 DEF IndexVersioned, Types
      <2>2. ASSUME NEW i \in Indices PROVE index'[i] \in [Posts -> Row]
            <3>1. index'[i] = [p \in Posts |-> index'[i][p]]
                  BY <1>1, <1>3 DEF IndexVersioned, Types
            <3> QED
                BY <1>6, <3>1
      <2> QED
          BY <2>1, <2>2
<1>8. Types'
      <2>1. pc' \in [Syncers -> {"idle", "load", "embed", "reload", "write"}]
            BY <1>1 DEF End, Types
      <2>2. post' \in [Syncers -> Posts \cup {0}] /\ event' \in [Syncers -> Events \cup {NoEvent}]
            BY <1>1 DEF End, Types
      <2>3. copy' \in [Syncers -> Row]
            BY <1>1, Constants DEF End, Types
      <2>4. events' \subseteq Events /\ handled' \subseteq Events
            BY <1>5 DEF Types
      <2>5. tries' \in [Workers -> 0..(MaxAttempts - 1)]
            BY Constants DEF Write, FinishEvent, eventVars, Types
      <2> QED
          BY <1>1, <1>7, <2>1, <2>2, <2>3, <2>4, <2>5 DEF Types
<1>9. ASSUME NEW t \in Syncers PROVE Holding(t)'
      <2>1. CASE t # s
            BY <1>1, <1>2, <1>5, <2>1, HoldingFrame DEF End, Types
      <2>2. CASE t = s
            BY <1>1, <2>2 DEF End, Types, Holding
      <2> QED
          BY <2>1, <2>2
<1>10. Known'
       BY <1>1, <1>2, <1>5, KnownFrame
<1>11. DocsAreRows'
       <2> SUFFICES ASSUME NEW i \in Indices, NEW p \in Posts, index'[i][p].version > 0
                    PROVE  \E h \in history : h[1] = p /\ index'[i][p] = DocOf(h[2])
           BY <1>1 DEF DocsAreRows
       <2>1. CASE index'[i][p] = index[i][p]
             BY <2>1 DEF DocsAreRows
       <2>2. CASE p = post[s] /\ index'[i][p] = DocOf(copy[s])
             <3> DEFINE h == <<post[s], copy[s]>>
             <3>1. h \in history /\ h[1] = p /\ index'[i][p] = DocOf(h[2])
                   BY <1>3, <2>2
             <3> QED
                 BY <3>1
       <2> QED
           BY <1>6, <2>1, <2>2
<1> QED
    BY <1>2, <1>8, <1>9, <1>10, <1>11

\* An event that was handled is delivered again.
LEMMA RedeliverStep ==
  ASSUME IndexInv, NEW e \in Events, Redeliver(e)
  PROVE  IndexInv'
<1> USE DEF IndexInv
<1>1. /\ UNCHANGED <<row, history, handled, tries, index, alias, pc, post, event, copy, todo, phase>>
      /\ UNCHANGED <<after, last, failures>> /\ events' \cup handled = events \cup handled
      BY DEF Redeliver, tableVars, esVars, syncVars, reindexVars
<1>2. Table' /\ history \subseteq history' /\ \A p : Exists(p) <=> Exists(p)'
      BY <1>1, TableFrame
<1>3. duplicates' \in 0..MaxDuplicates /\ events' \subseteq Events
      BY Constants DEF Redeliver, Types
<1>4. Types'
      BY <1>1, <1>3 DEF Types
<1>5. \A s \in Syncers : Holding(s)'
      BY <1>1, <1>2, HoldingFrame
<1>6. Known' /\ DocsAreRows'
      BY <1>1, <1>2, KnownFrame, DocsFrame
<1> QED
    BY <1>2, <1>4, <1>5, <1>6

\* A worker takes an event, or starts again with the one it has.
LEMMA WorkerStep ==
  ASSUME IndexInv, NEW w \in Workers, (\E e \in Events : Handle(w, e)) \/ WorkerFails(w)
  PROVE  IndexInv'
<1> USE DEF IndexInv
<1>1. /\ UNCHANGED <<row, history, events, handled, index, alias, copy, todo, phase, after, last>>
      /\ UNCHANGED duplicates
      BY DEF Handle, WorkerFails, tableVars, esVars, eventVars, reindexVars
<1>2. Table' /\ history \subseteq history' /\ \A p : Exists(p) <=> Exists(p)'
      BY <1>1, TableFrame
<1>3. w \in Syncers /\ 0 \notin Posts /\ \A e \in Events : e[1] \in Posts
      BY Constants DEF Events
<1>4. Types'
      <2>1. pc' \in [Syncers -> {"idle", "load", "embed", "reload", "write"}]
            BY DEF Handle, WorkerFails, Types, Begin
      <2>2. post' \in [Syncers -> Posts \cup {0}]
            BY <1>3 DEF Handle, WorkerFails, Types, Begin
      <2>3. event' \in [Syncers -> Events \cup {NoEvent}]
            BY DEF Handle, WorkerFails, Types
      <2>4. failures' \in [n : 0..MaxFailures, gaveUp : SUBSET Syncers]
            BY FailsFacts DEF Handle, WorkerFails, Types
      <2>5. tries' \in [Workers -> 0..(MaxAttempts - 1)]
            BY Constants DEF Handle, WorkerFails, eventVars, Types
      <2> QED
          BY <1>1, <2>1, <2>2, <2>3, <2>4, <2>5 DEF Types
<1>5. ASSUME NEW t \in Syncers, t # w PROVE Holding(t)'
      <2>1. pc'[t] = pc[t] /\ post'[t] = post[t] /\ copy'[t] = copy[t] /\ event'[t] = event[t]
            BY <1>1, <1>5 DEF Handle, WorkerFails, Types, Begin
      <2> QED
          BY <1>1, <1>2, <2>1, HoldingFrame
<1>6. Holding(w)'
      <2>1. ASSUME NEW e \in Events, Handle(w, e) PROVE Holding(w)'
            <3>1. pc'[w] = "load" /\ post'[w] = e[1] /\ event'[w] = e /\ e \in events
                  BY <1>3, <2>1 DEF Handle, Begin, Types
            <3>2. Exists(e[1])
                  BY <3>1 DEF Known
            <3>3. Exists(e[1])' /\ e[1] # 0 /\ event'[w] \in events' \cup handled'
                  BY <1>1, <1>2, <1>3, <3>1, <3>2
            <3> QED
                BY <3>1, <3>3 DEF Holding, Exists
      <2>2. CASE WorkerFails(w)
            <3>1. /\ pc[w] # "idle" /\ pc'[w] = "load" /\ post' = post /\ event' = event
                  BY <1>3, <2>2 DEF WorkerFails, Types
            <3>2. post[w] # 0 /\ Exists(post[w]) /\ event[w] \in events \cup handled
                  BY <1>3, <3>1 DEF Holding
            <3>3. Exists(post[w])'
                  BY <1>2, <3>1, <3>2 DEF Exists
            <3> QED
                BY <1>1, <3>1, <3>2, <3>3 DEF Holding
      <2> QED
          BY <2>1, <2>2
<1>7. Known' /\ DocsAreRows'
      BY <1>1, <1>2, KnownFrame, DocsFrame
<1> QED
    BY <1>2, <1>4, <1>5, <1>6, <1>7

\* The consumer gives up on the worker's event.
LEMMA DeadLetterStep ==
  ASSUME IndexInv, NEW w \in Workers, DeadLetter(w)
  PROVE  IndexInv'
<1> USE DEF IndexInv
<1>1. /\ UNCHANGED <<row, history, index, alias, todo, phase, after, last, duplicates>>
      /\ End(w) /\ FinishEvent(w) /\ Fails({w}) /\ pc[w] # "idle"
      BY DEF DeadLetter, tableVars, esVars, reindexVars
<1>2. Table' /\ history \subseteq history' /\ \A p : Exists(p) <=> Exists(p)'
      BY <1>1, TableFrame
<1>3. w \in Syncers /\ event[w] \in events \cup handled
      BY <1>1, Constants DEF Holding
<1>4. events' \cup handled' = events \cup handled
      BY <1>1, <1>3 DEF FinishEvent
<1>5. Types'
      <2>1. pc' \in [Syncers -> {"idle", "load", "embed", "reload", "write"}]
            BY <1>1 DEF End, Types
      <2>2. post' \in [Syncers -> Posts \cup {0}] /\ event' \in [Syncers -> Events \cup {NoEvent}]
            BY <1>1 DEF End, Types
      <2>3. copy' \in [Syncers -> Row]
            BY <1>1, Constants DEF End, Types
      <2>4. events' \subseteq Events /\ handled' \subseteq Events
            BY <1>4 DEF Types
      <2>5. tries' \in [Workers -> 0..(MaxAttempts - 1)]
            BY <1>1, Constants DEF FinishEvent, Types
      <2>6. failures' \in [n : 0..MaxFailures, gaveUp : SUBSET Syncers]
            BY <1>1, <1>3, FailsFacts
      <2> QED
          BY <1>1, <2>1, <2>2, <2>3, <2>4, <2>5, <2>6 DEF Types
<1>6. ASSUME NEW t \in Syncers PROVE Holding(t)'
      <2>1. CASE t # w
            BY <1>1, <1>2, <1>4, <2>1, HoldingFrame DEF End, Types
      <2>2. CASE t = w
            BY <1>1, <2>2 DEF End, Types, Holding
      <2> QED
          BY <2>1, <2>2
<1>7. Known' /\ DocsAreRows'
      BY <1>1, <1>2, <1>4, KnownFrame, DocsFrame
<1> QED
    BY <1>2, <1>5, <1>6, <1>7

\* The repair loop and cmd/reindex take ids from the table, and may stop.
LEMMA JobStepKeeps ==
  ASSUME IndexInv, NEW j \in Jobs, JobStep(j) \/ JobFails(j)
  PROVE  IndexInv'
<1> USE DEF IndexInv
<1>0. j \in Syncers /\ j \notin Workers /\ 0 \notin Posts /\ Posts \subseteq Nat
      BY Constants
<1>1. UNCHANGED <<row, history, events, handled, tries, index, duplicates>>
      BY DEF JobStep, JobFails, NextId, RepairMissingEmbeddings, StartReindex, NextPage,
             PassDone, tableVars, esVars, eventVars
<1>2. Table' /\ history \subseteq history' /\ \A p : Exists(p) <=> Exists(p)'
      BY <1>1, TableFrame
<1>3. /\ todo' \in [Jobs -> SUBSET Posts]
      /\ \A i \in Jobs : \A p \in todo'[i] : Exists(p)
      /\ phase' \in {"off", "build", "catchup", "done", "failed"}
      /\ after' \in Posts \cup {0} /\ last' \in BOOLEAN /\ alias' \in Indices
      /\ failures' \in [n : 0..MaxFailures, gaveUp : SUBSET Syncers]
      <2>1. CASE NextId(j)
            BY <2>1 DEF NextId, Types, Known, esVars, reindexVars
      <2>2. CASE RepairMissingEmbeddings
            BY <2>2 DEF RepairMissingEmbeddings, Types, Known, esVars, reindexVars
      <2>3. CASE StartReindex
            BY <2>3 DEF StartReindex, Types, Known, esVars
      <2>4. CASE NextPage
            <3> DEFINE rest == {p \in Posts : Exists(p) /\ p > after}
                       page == {p \in rest : Cardinality({q \in rest : q <= p}) <= PageSize}
            <3>1. /\ todo' = [todo EXCEPT !["reindex"] = page]
                  /\ last' = (Cardinality(page) < PageSize)
                  /\ after' = after \/ after' \in page
                  /\ UNCHANGED <<alias, phase, failures>>
                  BY <2>4 DEF NextPage, esVars
            <3>2. page \subseteq Posts /\ \A p \in page : Exists(p)
                  OBVIOUS
            <3>3. last' \in BOOLEAN
                  BY <3>1
            <3> HIDE DEF page
            <3>4. todo' \in [Jobs -> SUBSET Posts] /\ \A i \in Jobs : \A p \in todo'[i] : Exists(p)
                  BY <3>1, <3>2 DEF Types, Known
            <3>5. after' \in Posts \cup {0}
                  BY <3>1, <3>2 DEF Types
            <3> QED
                BY <3>1, <3>3, <3>4, <3>5 DEF Types
      <2>5. CASE PassDone
            BY <2>5 DEF PassDone, Types, Known, Indices
      <2>6. CASE JobFails(j)
            <3>1. failures' \in [n : 0..MaxFailures, gaveUp : SUBSET Syncers]
                  BY <1>0, <2>6, FailsFacts DEF JobFails
            <3> QED
                BY <2>6, <3>1 DEF JobFails, Types, Known, esVars
      <2> QED
          BY <2>1, <2>2, <2>3, <2>4, <2>5, <2>6 DEF JobStep
<1>4. Known'
      <2>1. \A p : Exists(p) => Exists(p)'
            BY <1>2
      <2> QED
          BY <1>1, <1>3, <2>1 DEF Known
<1>5. \/ UNCHANGED <<pc, post, event, copy>>
      \/ End(j)
      \/ \E p \in Posts : Begin(j, p) /\ Exists(p) /\ UNCHANGED <<event, copy>>
      BY DEF JobStep, JobFails, NextId, RepairMissingEmbeddings, StartReindex, NextPage,
             PassDone, syncVars, Types, Known
<1>6. /\ pc' \in [Syncers -> {"idle", "load", "embed", "reload", "write"}]
      /\ post' \in [Syncers -> Posts \cup {0}] /\ event' \in [Syncers -> Events \cup {NoEvent}]
      /\ copy' \in [Syncers -> Row]
      /\ \A t \in Syncers : t # j =>
           pc'[t] = pc[t] /\ post'[t] = post[t] /\ copy'[t] = copy[t] /\ event'[t] = event[t]
      <2>1. CASE UNCHANGED <<pc, post, event, copy>>
            BY <2>1 DEF Types
      <2>2. CASE End(j)
            BY <2>2, Constants DEF Types, End
      <2>3. ASSUME NEW p \in Posts, Begin(j, p), UNCHANGED <<event, copy>> PROVE <1>6!:
            BY <2>3 DEF Types, Begin
      <2> QED
          BY <1>5, <2>1, <2>2, <2>3
<1>7. Types'
      BY <1>1, <1>3, <1>6 DEF Types
<1>8. ASSUME NEW t \in Syncers, t # j PROVE Holding(t)'
      BY <1>1, <1>2, <1>6, <1>8, HoldingFrame
<1>9. Holding(j)'
      <2>1. CASE UNCHANGED <<pc, post, event, copy>>
            BY <1>0, <1>1, <1>2, <2>1, HoldingFrame
      <2>2. CASE End(j)
            BY <1>0, <2>2 DEF Types, End, Holding
      <2>3. ASSUME NEW p \in Posts, Begin(j, p), Exists(p) PROVE Holding(j)'
            <3>1. pc'[j] = "load" /\ post'[j] = p /\ p # 0
                  BY <1>0, <2>3 DEF Types, Begin
            <3>2. Exists(p)'
                  BY <1>2, <2>3
            <3> QED
                BY <1>0, <3>1, <3>2 DEF Holding, Exists
      <2> QED
          BY <1>5, <2>1, <2>2, <2>3
<1>10. DocsAreRows'
       BY <1>1, <1>2, DocsFrame
<1> QED
    BY <1>2, <1>4, <1>7, <1>8, <1>9, <1>10

LEMMA IndexStep == IndexInv /\ [Next]_vars => IndexInv'
<1> SUFFICES ASSUME IndexInv, [Next]_vars PROVE IndexInv'
    OBVIOUS
<1>1. ASSUME UNCHANGED vars PROVE IndexInv'
      <2> USE <1>1 DEF IndexInv, vars, tableVars, eventVars, esVars, syncVars, reindexVars
      <2>1. Table' /\ history \subseteq history' /\ \A p : Exists(p) <=> Exists(p)'
            BY TableFrame
      <2>2. \A s \in Syncers : Holding(s)'
            BY <2>1, HoldingFrame
      <2>3. Known' /\ DocsAreRows'
            BY <2>1, KnownFrame, DocsFrame
      <2> QED
          BY <2>1, <2>2, <2>3 DEF Types
<1> QED
    BY <1>1, TableStep, ReadStep, EmbedStep, WriteStep, RedeliverStep, WorkerStep, DeadLetterStep,
       JobStepKeeps
    DEF Next, SyncStep

\* Every document of every index is made of a row that was committed under its
\* version, whatever runs of Sync race, fail and repeat in workers, the repair
\* loop and the reindex job.
THEOREM DocsAreRowsHolds == Spec => []DocsAreRows
<1>1. IndexInv => DocsAreRows
      BY DEF IndexInv
<1> QED
    BY <1>1, IndexInit, IndexStep, PTL DEF Spec

\* Types of the table, the indices and every Sync under way; the version of a row
\* counts its changes.
THEOREM TypeCorrect == Spec => []TypeOK
<1>1. IndexInv => TypeOK
      BY DEF IndexInv, Table, Types, Holding, TypeOK
<1> QED
    BY <1>1, IndexInit, IndexStep, PTL DEF Spec

\* No document is ahead of its row, and one that is not behind equals it: what
\* the external version of IndexVersioned is for.
THEOREM UpToDateHolds == Spec => []UpToDate
<1>1. ASSUME IndexInv PROVE UpToDate
      <2> SUFFICES ASSUME NEW i \in Indices, NEW p \in Posts
                   PROVE  /\ index[i][p].version <= row[p].version
                          /\ index[i][p].version = row[p].version /\ Exists(p) =>
                               index[i][p] = DocOf(row[p])
          BY DEF UpToDate
      <2>1. index[i][p].version \in Nat /\ row[p].version \in Nat
            BY <1>1 DEF IndexInv, Types, Table, Row
      <2>2. CASE index[i][p].version = 0
            BY <2>1, <2>2 DEF Exists
      <2>3. CASE index[i][p].version > 0
            <3>1. PICK h \in history : h[1] = p /\ index[i][p] = DocOf(h[2])
                  BY <1>1, <2>3 DEF IndexInv, DocsAreRows
            <3>2. h[2] \in Row
                  BY <1>1 DEF IndexInv, Table
            <3>3. DocOf(h[2]).version = h[2].version
                  BY <3>2 DEF DocOf, Row
            <3> QED
                BY <1>1, <3>1, <3>3 DEF IndexInv, Table
      <2> QED
          BY <2>1, <2>2, <2>3
<1> QED
    BY <1>1, IndexInit, IndexStep, PTL DEF Spec
=============================================================================
