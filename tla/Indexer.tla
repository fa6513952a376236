------------------------------- MODULE Indexer -------------------------------
(***************************************************************************)
(* The search projection: Handle, Sync, embed, RepairMissingEmbeddings and *)
(* Reindex of services/indexer/worker/indexer.go, the versioned write and  *)
(* the alias of shared/backend/elasticsearch.go, and cmd/reindex.  One     *)
(* step per call to PostgreSQL or Elasticsearch.                           *)
(*                                                                         *)
(* Posts are the row keys in their post_id order.  Every post has a        *)
(* message, so Sync wants an embedding whenever OpenAI is configured.      *)
(***************************************************************************)
EXTENDS Integers, FiniteSets

CONSTANTS
  NPosts,       \* the posts are 1..NPosts
  Existing,     \* posts that may be in the table before the first event
  Workers,      \* goroutines that run Handle on an event
  Jobs,         \* the other callers of Sync: a subset of {"repair", "reindex"}
  NewIndex,     \* reindex runs with -new-index
  PageSize,     \* reindex: posts read per query
  HasOpenAI,    \* OpenAI is configured
  MaxAttempts,  \* consumer.Config: calls of Handle per delivery
  MaxFailures,  \* bound: failed Syncs and failed OpenAI calls
  MaxDuplicates \* bound: redeliveries of events already handled

Posts == 1..NPosts
Syncers == Workers \cup Jobs

ASSUME PostsAssumption == NPosts \in Nat /\ Existing \subseteq Posts
ASSUME JobsAssumption == Jobs \cap Workers = {} /\ Jobs \subseteq {"repair", "reindex"}
ASSUME OptionsAssumption ==
  /\ NewIndex \in BOOLEAN /\ HasOpenAI \in BOOLEAN
  /\ PageSize \in Nat \ {0} /\ MaxAttempts \in Nat \ {0} /\ MaxFailures \in Nat /\ MaxDuplicates \in Nat

\* The columns of posts that reach the index, and the document made of them.
\* Version 0 means there is no such row or document.
Row == [version : Nat, deleted : BOOLEAN, embedding : BOOLEAN]
None == [version |-> 0, deleted |-> FALSE, embedding |-> FALSE]
DocOf(r) == [r EXCEPT !.embedding = r.embedding /\ ~r.deleted]

Indices == {"first", "second"}
Events == Posts \X {"created", "deleted"}

VARIABLES
  row,       \* the posts table
  history,   \* history: every <<post, row>> that was ever committed
  events,    \* events the consumer has not finished
  handled,   \* events it has finished, dead-lettered ones included
  tries,     \* calls of Handle that failed in the worker's delivery
  index,     \* the physical indices: index[i][p] is a document
  alias,     \* the index behind the alias
  pc,        \* step of Sync of each caller
  post,      \* the post it is syncing (0: none)
  event,     \* the worker's event
  copy,      \* the postRow it holds
  todo,      \* ids the repair or the reindex page still has to sync
  phase,     \* cmd/reindex: "off", "build", "catchup", "done", "failed"
  after,     \* Reindex: keyset position
  last,      \* Reindex: the page in hand is the last one
  failures,  \* how many failures, and the jobs and workers that gave up after one
  duplicates

tableVars == <<row, history>>
eventVars == <<events, handled, tries>>
esVars == <<index, alias>>
syncVars == <<pc, post, event, copy>>
reindexVars == <<phase, after, last>>
vars == <<tableVars, eventVars, esVars, syncVars, todo, reindexVars, failures, duplicates>>

NoEvent == <<0, "created">>

Init ==
  /\ \E old \in SUBSET Existing :
       /\ row = [p \in Posts |-> IF p \in old THEN [None EXCEPT !.version = 1] ELSE None]
       /\ history = {<<p, [None EXCEPT !.version = 1]>> : p \in old}
  /\ events = {} /\ handled = {} /\ tries = [w \in Workers |-> 0]
  /\ index = [i \in Indices |-> [p \in Posts |-> None]]
  /\ alias = "first"
  /\ pc = [s \in Syncers |-> "idle"] /\ post = [s \in Syncers |-> 0]
  /\ event = [s \in Syncers |-> NoEvent] /\ copy = [s \in Syncers |-> None]
  /\ todo = [s \in Jobs |-> {}]
  /\ phase = "off" /\ after = 0 /\ last = FALSE
  /\ failures = [n |-> 0, gaveUp |-> {}] /\ duplicates = 0

Fails(S) ==
  /\ failures.n < MaxFailures
  /\ failures' = [n |-> failures.n + 1, gaveUp |-> failures.gaveUp \cup S]

-----------------------------------------------------------------------------
(* The post service changes a row and records its event.                   *)

Store(p, r) ==
  /\ row' = [row EXCEPT ![p] = r]
  /\ history' = history \cup {<<p, r>>}

Exists(p) == row[p].version > 0

CreatePost(p) ==
  /\ ~Exists(p)
  /\ Store(p, [None EXCEPT !.version = 1])
  /\ events' = events \cup {<<p, "created">>}
  /\ UNCHANGED <<handled, tries, esVars, syncVars, todo, reindexVars, failures, duplicates>>

DeletePost(p) ==
  /\ Exists(p) /\ ~row[p].deleted
  /\ Store(p, [row[p] EXCEPT !.deleted = TRUE, !.version = @ + 1])
  /\ events' = events \cup {<<p, "deleted">>}
  /\ UNCHANGED <<handled, tries, esVars, syncVars, todo, reindexVars, failures, duplicates>>

-----------------------------------------------------------------------------
(* Sync of one post.                                                       *)

Begin(s, p) ==
  /\ pc' = [pc EXCEPT ![s] = "load"]
  /\ post' = [post EXCEPT ![s] = p]

End(s) ==
  /\ pc' = [pc EXCEPT ![s] = "idle"]
  /\ post' = [post EXCEPT ![s] = 0]
  /\ event' = [event EXCEPT ![s] = NoEvent]
  /\ copy' = [copy EXCEPT ![s] = None]

\* load, and whether Sync wants an embedding.
Load(s) ==
  /\ pc[s] = "load"
  /\ copy' = [copy EXCEPT ![s] = row[post[s]]]
  /\ pc' = [pc EXCEPT ![s] =
       IF HasOpenAI /\ ~row[post[s]].deleted /\ ~row[post[s]].embedding
         THEN "embed" ELSE "write"]
  /\ UNCHANGED <<tableVars, eventVars, esVars, post, event, todo, reindexVars, failures,
                 duplicates>>

\* GetEmbedding failed: the post is indexed without a vector.
EmbedFails(s) ==
  /\ pc[s] = "embed" /\ Fails({})
  /\ pc' = [pc EXCEPT ![s] = "write"]
  /\ UNCHANGED <<tableVars, eventVars, esVars, post, event, copy, todo, reindexVars,
                 duplicates>>

\* Mutant: the UPDATE does not look at deleted_at.
EmbedStoreDeleted(s) ==
  /\ pc[s] = "embed"
  /\ IF row[post[s]].embedding
       THEN pc' = [pc EXCEPT ![s] = "reload"] /\ UNCHANGED <<tableVars, copy>>
       ELSE /\ Store(post[s], [row[post[s]] EXCEPT !.embedding = TRUE, !.version = @ + 1])
            /\ copy' = [copy EXCEPT ![s].embedding = TRUE,
                                    ![s].version = row[post[s]].version + 1]
            /\ pc' = [pc EXCEPT ![s] = "write"]
  /\ UNCHANGED <<eventVars, esVars, post, event, todo, reindexVars, failures, duplicates>>

\* UPDATE ... WHERE embedding IS NULL AND deleted_at IS NULL RETURNING version.
EmbedStore(s) ==
  /\ pc[s] = "embed"
  /\ IF row[post[s]].embedding \/ row[post[s]].deleted
       THEN pc' = [pc EXCEPT ![s] = "reload"] /\ UNCHANGED <<tableVars, copy>>
       ELSE /\ Store(post[s], [row[post[s]] EXCEPT !.embedding = TRUE, !.version = @ + 1])
            /\ copy' = [copy EXCEPT ![s].embedding = TRUE,
                                    ![s].version = row[post[s]].version + 1]
            /\ pc' = [pc EXCEPT ![s] = "write"]
  /\ UNCHANGED <<eventVars, esVars, post, event, todo, reindexVars, failures, duplicates>>

\* Another indexer was first, or the post was deleted: use the row as it is now.
Reload(s) ==
  /\ pc[s] = "reload"
  /\ copy' = [copy EXCEPT ![s] = row[post[s]]]
  /\ pc' = [pc EXCEPT ![s] = "write"]
  /\ UNCHANGED <<tableVars, eventVars, esVars, post, event, todo, reindexVars, failures,
                 duplicates>>

\* x.Index: the alias, or the index that reindex builds.
Target(s) == IF s = "reindex" /\ NewIndex THEN "second" ELSE alias

\* External version: the document is kept if its version is higher.
IndexVersioned(s) ==
  index' = [index EXCEPT ![Target(s)][post[s]] =
              IF copy[s].version > @.version THEN DocOf(copy[s]) ELSE @]

FinishEvent(w) ==
  /\ events' = events \ {event[w]} /\ handled' = handled \cup {event[w]}
  /\ tries' = [tries EXCEPT ![w] = 0]

\* Sync succeeds; a worker's event is finished.
Write(s) ==
  /\ pc[s] = "write"
  /\ IndexVersioned(s)
  /\ IF s \in Workers
       THEN FinishEvent(s)
       ELSE UNCHANGED eventVars
  /\ End(s)
  /\ UNCHANGED <<tableVars, alias, todo, reindexVars, failures, duplicates>>

\* Sync returns an error at one of its calls: the consumer calls Handle again on
\* the same event ...
WorkerFails(w) ==
  /\ pc[w] # "idle" /\ tries[w] + 1 < MaxAttempts /\ Fails({})
  /\ pc' = [pc EXCEPT ![w] = "load"]
  /\ tries' = [tries EXCEPT ![w] = @ + 1]
  /\ UNCHANGED <<tableVars, events, handled, esVars, post, event, copy, todo, reindexVars,
                 duplicates>>

\* ... until the budget is spent and the event goes to the dead-letter topic.
DeadLetter(w) ==
  /\ pc[w] # "idle" /\ tries[w] + 1 >= MaxAttempts /\ Fails({w})
  /\ FinishEvent(w) /\ End(w)
  /\ UNCHANGED <<tableVars, esVars, todo, reindexVars, duplicates>>

\* Sync returns an error to a job: the repair pass ends, reindex exits.
JobFails(j) ==
  /\ pc[j] # "idle" /\ Fails({j})
  /\ End(j)
  /\ todo' = [todo EXCEPT ![j] = {}]
  /\ phase' = IF j = "reindex" THEN "failed" ELSE phase
  /\ UNCHANGED <<tableVars, eventVars, esVars, after, last, duplicates>>

-----------------------------------------------------------------------------
(* The callers of Sync.                                                    *)

\* Handle: two workers may get the same event (two instances after a rebalance).
Handle(w, e) ==
  /\ pc[w] = "idle" /\ e \in events
  /\ Begin(w, e[1])
  /\ event' = [event EXCEPT ![w] = e]
  /\ UNCHANGED <<tableVars, eventVars, esVars, copy, todo, reindexVars, failures,
                 duplicates>>

\* At-least-once delivery: an event that was handled comes again.
Redeliver(e) ==
  /\ e \in handled \ events /\ duplicates < MaxDuplicates
  /\ duplicates' = duplicates + 1
  /\ events' = events \cup {e}
  /\ UNCHANGED <<tableVars, handled, tries, esVars, syncVars, todo, reindexVars, failures>>

\* The SELECT of RepairMissingEmbeddings; its limit exceeds the posts there are.
RepairMissingEmbeddings ==
  LET missing == {p \in Posts : Exists(p) /\ ~row[p].deleted /\ ~row[p].embedding}
  IN  /\ "repair" \in Jobs /\ HasOpenAI
      /\ pc["repair"] = "idle" /\ todo["repair"] = {} /\ missing # {}
      /\ todo' = [todo EXCEPT !["repair"] = missing]
      /\ UNCHANGED <<tableVars, eventVars, esVars, syncVars, reindexVars, failures,
                     duplicates>>

\* The loop over the ids a query returned, newest post or lowest id first.
NextId(j) ==
  /\ pc[j] = "idle"
  /\ \E p \in todo[j] :
       /\ j = "reindex" => \A q \in todo[j] : p <= q
       /\ Begin(j, p)
       /\ todo' = [todo EXCEPT ![j] = @ \ {p}]
  /\ UNCHANGED <<tableVars, eventVars, esVars, event, copy, reindexVars, failures,
                 duplicates>>

\* cmd/reindex starts; with -new-index it creates the index it will fill.
StartReindex ==
  /\ "reindex" \in Jobs /\ phase = "off"
  /\ phase' = "build" /\ after' = 0 /\ last' = FALSE
  /\ UNCHANGED <<tableVars, eventVars, esVars, syncVars, todo, failures, duplicates>>

PageEmpty == pc["reindex"] = "idle" /\ todo["reindex"] = {}

\* The next page of Reindex: up to PageSize ids after the keyset position.
NextPage ==
  LET rest == {p \in Posts : Exists(p) /\ p > after}
      page == {p \in rest : Cardinality({q \in rest : q <= p}) <= PageSize}
  IN  /\ "reindex" \in Jobs /\ phase \in {"build", "catchup"}
      /\ PageEmpty /\ ~last
      /\ todo' = [todo EXCEPT !["reindex"] = page]
      /\ last' = (Cardinality(page) < PageSize)
      /\ IF page = {} THEN UNCHANGED after
                      ELSE \E p \in page : (\A q \in page : q <= p) /\ after' = p
      /\ UNCHANGED <<tableVars, eventVars, esVars, syncVars, phase, failures, duplicates>>

\* Mutant: no pass over the table follows the switch.
PassDoneNoCatchUp ==
  /\ "reindex" \in Jobs /\ phase \in {"build", "catchup"} /\ PageEmpty /\ last
  /\ phase' = "done" /\ after' = 0 /\ last' = FALSE
  /\ alias' = IF NewIndex THEN "second" ELSE alias
  /\ UNCHANGED <<tableVars, eventVars, index, syncVars, todo, failures, duplicates>>

\* A pass is over.  After a build the alias moves to the new index at once and
\* a catch-up pass follows.
PassDone ==
  /\ "reindex" \in Jobs /\ phase \in {"build", "catchup"} /\ PageEmpty /\ last
  /\ IF NewIndex /\ phase = "build"
       THEN phase' = "catchup" /\ alias' = "second"
       ELSE phase' = "done" /\ UNCHANGED alias
  /\ after' = 0 /\ last' = FALSE
  /\ UNCHANGED <<tableVars, eventVars, index, syncVars, todo, failures, duplicates>>

-----------------------------------------------------------------------------
SyncStep(s) == Load(s) \/ EmbedFails(s) \/ EmbedStore(s) \/ Reload(s) \/ Write(s)
JobStep(j) ==
  \/ NextId(j)
  \/ j = "repair" /\ RepairMissingEmbeddings
  \/ j = "reindex" /\ (StartReindex \/ NextPage \/ PassDone)

Next ==
  \/ \E p \in Posts : CreatePost(p) \/ DeletePost(p)
  \/ \E s \in Syncers : SyncStep(s)
  \/ \E e \in Events : Redeliver(e) \/ \E w \in Workers : Handle(w, e)
  \/ \E w \in Workers : WorkerFails(w) \/ DeadLetter(w)
  \/ \E j \in Jobs : JobStep(j) \/ JobFails(j)

Spec == Init /\ [][Next]_vars

\* Calls return, the consumer delivers every event until it is finished, the
\* repair ticks, and reindex is run once.
Fairness ==
  /\ \A s \in Syncers : WF_vars(SyncStep(s))
  /\ \A e \in Events : WF_vars(\E w \in Workers : Handle(w, e))
  /\ \A j \in Jobs : WF_vars(JobStep(j))

FairSpec == Spec /\ Fairness

-----------------------------------------------------------------------------
(* What makes the projection right.                                        *)

\* Every change of a row happens once and raises the version by one.
Changes(r) ==
  1 + (IF r.embedding THEN 1 ELSE 0) + (IF r.deleted THEN 1 ELSE 0)

\* Types; the version of a row counts its changes, so concurrent indexers store
\* one embedding and concurrent deletes one deletion (indexer.go:126-131).
TypeOK ==
  /\ row \in [Posts -> Row]
  /\ \A p \in Posts : Exists(p) => row[p].version = Changes(row[p])
  /\ history \subseteq Posts \X Row
  /\ events \subseteq Events /\ handled \subseteq Events
  /\ tries \in [Workers -> 0..(MaxAttempts - 1)]
  /\ index \in [Indices -> [Posts -> Row]] /\ alias \in Indices
  /\ pc \in [Syncers -> {"idle", "load", "embed", "reload", "write"}]
  /\ post \in [Syncers -> Posts \cup {0}]
  /\ \A s \in Syncers : pc[s] # "idle" <=> post[s] # 0
  /\ event \in [Syncers -> Events \cup {NoEvent}]
  /\ copy \in [Syncers -> Row]
  /\ todo \in [Jobs -> SUBSET Posts]
  /\ phase \in {"off", "build", "catchup", "done", "failed"}
  /\ after \in Posts \cup {0} /\ last \in BOOLEAN
  /\ failures.n \in 0..MaxFailures /\ failures.gaveUp \subseteq Syncers
  /\ duplicates \in 0..MaxDuplicates

\* A version identifies one state of the row: a document in any index is made
\* of a row that was committed with that very version.  Were it not so, two
\* indexers could write different documents under one version and the index
\* would keep whichever came first (indexer.go:4-10).
DocsAreRows ==
  \A i \in Indices, p \in Posts :
    index[i][p].version > 0 =>
      \E h \in history : h[1] = p /\ index[i][p] = DocOf(h[2])

Synced == \A p \in Posts : index[alias][p] = DocOf(row[p])

\* "That makes the projection converge whatever the delivery order or number of
\* duplicates" (indexer.go:5): once the table stops changing the index behind
\* the alias becomes and stays a copy of it, through races of indexers, failed
\* Syncs of workers and a switch to a new index, and every live post has its
\* vector in it, although OpenAI failed (indexer.go:117-119), unless an event was
\* dead-lettered or a job ended with an error.
IndexConverges ==
  [](failures.gaveUp = {}) =>
    <>[](Synced /\ \A p \in Posts : Exists(p) /\ ~row[p].deleted => index[alias][p].embedding)
=============================================================================
