------------------------------ MODULE Backfill ------------------------------
(***************************************************************************)
(* The copy of the legacy Elasticsearch indices into PostgreSQL: Run of    *)
(* cmd/backfill/backfill.go and its eight steps, as several runs of it,    *)
(* stopped, repeated or at work at the same time, execute it.              *)
(*                                                                         *)
(* A document is what the copy looks at: its index, the row it becomes,    *)
(* the rows its foreign keys name, whether it can be read and satisfies    *)
(* the CHECKs.  A scroll is a snapshot in no particular order, so a step   *)
(* works on a set of documents.  One statement or transaction of the       *)
(* database is one step, except for copyConversation, which waits for the  *)
(* row lock in the middle.  Inserted and existing rows are counted         *)
(* together, as kept.                                                      *)
(***************************************************************************)
EXTENDS Integers, Sequences, FiniteSets

CONSTANTS
  Runs,                \* backfill processes
  Docs, Kind,          \* legacy documents, and the index each is in
  Row, Refs,           \* the row a document becomes, the rows that row references
  Readable, Legal,     \* documents with their required fields; that satisfy the CHECKs
  OutboxPending, Deleted, \* posts whose event the old outbox still holds; deleted posts
  Depth,               \* Comment.Depth
  Conv, SentAt,        \* conversation (in id order) and time of a message, 0: none
  Late                 \* messages that may reach the old store after a run has started

Steps == <<"users", "follows", "posts", "likes", "shares", "comments", "messages",
           "notifications">>

DocsOf(k) == {d \in Docs : Kind[d] = k}
PostRows == {Row[d] : d \in DocsOf("posts")}
Convs == {Conv[d] : d \in DocsOf("messages")}

NoRun == "nobody"

ASSUME DocsAssumption ==
  /\ Docs \subseteq Nat /\ IsFiniteSet(Docs) /\ Late \subseteq DocsOf("messages")
  /\ \A d \in Docs : Depth[d] \in Int /\ SentAt[d] \in Nat
  /\ \A d \in Docs : \E k \in DOMAIN Steps : Kind[d] = Steps[k]
  /\ NoRun \notin Runs

\* The old store kept a post under its post_id, and each index has its own table.
ASSUME RowAssumption == \A d \in DocsOf("posts"), e \in Docs : Row[d] = Row[e] => d = e

\* The foreign keys of migrations/0001_init.sql point to rows of an earlier step,
\* or from a reply to its parent, which is less deep.
ASSUME RefsAssumption ==
  \A d, e \in Docs : Row[e] \in Refs[d] =>
    /\ Kind[e] # "messages"
    /\ \/ \E j, k \in DOMAIN Steps : j < k /\ Kind[e] = Steps[j] /\ Kind[d] = Steps[k]
       \/ Kind[d] = "comments" /\ Kind[e] = "comments" /\ Depth[e] < Depth[d]

VARIABLES
  legacy,    \* documents in the old store
  rows,      \* rows in PostgreSQL, except those of messages
  events,    \* events[r]: outbox rows of the post r
  count,     \* count[r]: like_count and share_count of the post r
  messages,  \* rows of messages: conv, seq and the document they came from
  lastSeq,   \* conversations.last_seq
  readSeq,   \* last_read_seq of both members
  holder,    \* holder[c]: the run whose transaction holds the row lock of c
  bpc,       \* bpc[p]: "off", "copy", "held", "recount", "ok", "clash", "failed"
  step,      \* step[p]: index in Steps
  todo,      \* todo[p]: documents of the step that are not dealt with yet
  seq0,      \* seq0[p]: last_seq as read under the lock
  outcome    \* outcome[p][d]: "unread", "read", "kept" or "rejected"

storeVars == <<rows, events, count, messages, lastSeq, readSeq>>
runVars == <<bpc, step, todo, seq0, outcome, holder>>
backfillVars == <<legacy, storeVars, runVars>>

BackfillInit ==
  /\ legacy = Docs \ Late
  /\ rows = {}
  /\ events = [r \in PostRows |-> 0]
  /\ count = [r \in PostRows |-> <<0, 0>>]
  /\ messages = {}
  /\ lastSeq = [c \in Convs |-> 0]
  /\ readSeq = [c \in Convs |-> 0]
  /\ holder = [c \in Convs |-> NoRun]
  /\ bpc = [p \in Runs |-> "off"]
  /\ step = [p \in Runs |-> 1]
  /\ todo = [p \in Runs |-> {}]
  /\ seq0 = [p \in Runs |-> 0]
  /\ outcome = [p \in Runs |-> [d \in Docs |-> "unread"]]

-----------------------------------------------------------------------------
(* Run.                                                                    *)

\* Start the scroll of step k.  Documents without their required fields are
\* rejected as they are read; a message is also checked before it is grouped.
Scan(p, k) ==
  LET read == DocsOf(Steps[k]) \cap legacy
      good == read \cap IF Steps[k] = "messages" THEN Readable \cap Legal ELSE Readable
  IN  /\ step' = [step EXCEPT ![p] = k]
      /\ todo' = [todo EXCEPT ![p] = good]
      /\ outcome' = [outcome EXCEPT ![p] =
           [d \in Docs |-> IF d \in good THEN "read"
                           ELSE IF d \in read THEN "rejected" ELSE @[d]]]

StartRun(p) ==
  /\ bpc[p] = "off"
  /\ bpc' = [bpc EXCEPT ![p] = "copy"]
  /\ Scan(p, 1)
  /\ UNCHANGED <<legacy, storeVars, seq0, holder>>

NextStep(p) ==
  /\ bpc[p] = "copy" /\ todo[p] = {}
  /\ IF step[p] < Len(Steps)
       THEN Scan(p, step[p] + 1) /\ UNCHANGED bpc
       ELSE bpc' = [bpc EXCEPT ![p] = "recount"] /\ UNCHANGED <<step, todo, outcome>>
  /\ UNCHANGED <<legacy, storeVars, seq0, holder>>

\* The document is dealt with.
Settle(p, D, how) ==
  /\ todo' = [todo EXCEPT ![p] = @ \ D]
  /\ outcome' = [outcome EXCEPT ![p] = [d \in Docs |-> IF d \in D THEN how ELSE @[d]]]
  /\ UNCHANGED <<legacy, step>>

\* Mutant: comments are not sorted by depth.
AnyOrder(p, d) == d \in todo[p]

\* Comments are inserted shallowest first.
InOrder(p, d) ==
  /\ d \in todo[p]
  /\ Kind[d] = "comments" => \A e \in todo[p] : Depth[d] <= Depth[e]

\* insert: ON CONFLICT DO NOTHING, and a violated CHECK or foreign key is a
\* rejection.
Insert(p, d) ==
  /\ bpc[p] = "copy" /\ Kind[d] \notin {"posts", "messages"} /\ InOrder(p, d)
  /\ \/ /\ d \in Legal /\ (Row[d] \in rows \/ Refs[d] \subseteq rows)
        /\ rows' = rows \cup {Row[d]}
        /\ Settle(p, {d}, "kept")
     \/ /\ d \notin Legal \/ (Row[d] \notin rows /\ ~(Refs[d] \subseteq rows))
        /\ UNCHANGED rows
        /\ Settle(p, {d}, "rejected")
  /\ UNCHANGED <<events, count, messages, lastSeq, readSeq, bpc, seq0, holder>>

\* Mutant: the event does not depend on the insert.
CarriesAlways(d) == d \in OutboxPending \ Deleted

\* RowsAffected() == 1 && OutboxStatus == legacyOutboxPending && !Deleted
Carries(d) == Row[d] \notin rows /\ d \in OutboxPending \ Deleted

\* A post and the event the old outbox never published, in one transaction.
InsertPost(p, d) ==
  /\ bpc[p] = "copy" /\ Kind[d] = "posts" /\ d \in todo[p]
  /\ rows' = rows \cup {Row[d]}
  /\ events' = IF Carries(d) THEN [events EXCEPT ![Row[d]] = @ + 1] ELSE events
  /\ Settle(p, {d}, "kept")
  /\ UNCHANGED <<count, messages, lastSeq, readSeq, bpc, seq0, holder>>

\* The process is gone, its transaction rolled back, its report with it.
Stop(p, how) ==
  /\ bpc' = [bpc EXCEPT ![p] = how]
  /\ step' = [step EXCEPT ![p] = 1]
  /\ todo' = [todo EXCEPT ![p] = {}]
  /\ seq0' = [seq0 EXCEPT ![p] = 0]
  /\ outcome' = [outcome EXCEPT ![p] = [d \in Docs |-> "unread"]]
  /\ holder' = [c \in Convs |-> IF holder[c] = p THEN NoRun ELSE holder[c]]
  /\ UNCHANGED <<legacy, storeVars>>

-----------------------------------------------------------------------------
(* messages and copyConversation.                                          *)

\* The documents of c in memory, msgs.
Msgs(p, c) == {d \in todo[p] : Kind[d] = "messages" /\ Conv[d] = c}

\* Insert the conversation unless it is there, and read last_seq FOR NO KEY
\* UPDATE: another transaction on c is waited for.
LockConversation(p, c) ==
  /\ bpc[p] = "copy" /\ Msgs(p, c) # {} /\ \A b \in Convs : b < c => Msgs(p, b) = {}
  /\ holder[c] = NoRun
  /\ holder' = [holder EXCEPT ![c] = p]
  /\ seq0' = [seq0 EXCEPT ![p] = lastSeq[c]]
  /\ bpc' = [bpc EXCEPT ![p] = "held"]
  /\ UNCHANGED <<legacy, storeVars, step, todo, outcome>>

\* Mutant: in the order of their ids.
EarlierById(d, e) == d < e

Earlier(d, e) == SentAt[d] < SentAt[e] \/ (SentAt[d] = SentAt[e] /\ d < e)

Copied(c) == {m.doc : m \in {n \in messages : n.conv = c}}

\* Number what is not copied yet by time, after last_seq, and count everything
\* as read.  If the last of it has no time (lastAt.IsZero), or nothing is new,
\* last_seq stays.  A number that is taken is refused by the primary key.
CopyConversation(p, c) ==
  LET new == Msgs(p, c) \ Copied(c)
      num(d) == seq0[p] + Cardinality({e \in new : Earlier(e, d)}) + 1
      top(was) == IF \A d \in new : SentAt[d] = 0 THEN was ELSE seq0[p] + Cardinality(new)
      taken == \E m \in messages, d \in new : m.conv = c /\ m.seq = num(d)
  IN  /\ bpc[p] = "held" /\ holder[c] = p
      /\ \/ /\ ~taken
            /\ messages' = messages \cup {[conv |-> c, seq |-> num(d), doc |-> d] : d \in new}
            /\ lastSeq' = [lastSeq EXCEPT ![c] = top(@)]
            /\ readSeq' = [readSeq EXCEPT ![c] = top(@)]
            /\ holder' = [holder EXCEPT ![c] = NoRun]
            /\ seq0' = [seq0 EXCEPT ![p] = 0]
            /\ bpc' = [bpc EXCEPT ![p] = "copy"]
            /\ Settle(p, Msgs(p, c), "kept")
            /\ UNCHANGED <<rows, events, count>>
         \/ taken /\ Stop(p, "clash")

-----------------------------------------------------------------------------
RowsOf(k, r) == {Row[d] : d \in {e \in DocsOf(k) : Row[e] \in rows /\ r \in Refs[e]}}
Recounted(r) == <<Cardinality(RowsOf("likes", r)), Cardinality(RowsOf("shares", r))>>

\* The legacy counters could drift: recount from the copied rows.
Recount(p) ==
  /\ bpc[p] = "recount"
  /\ count' = [r \in PostRows |-> IF r \in rows THEN Recounted(r) ELSE count[r]]
  /\ bpc' = [bpc EXCEPT ![p] = "ok"]
  /\ UNCHANGED <<legacy, rows, events, messages, lastSeq, readSeq, step, todo, seq0,
                 outcome, holder>>

\* A scroll page, a statement or a COMMIT fails, or the process dies.  A
\* statement that took effect but was not answered is its step and then this.
BackfillFails(p) ==
  /\ bpc[p] \in {"copy", "held", "recount"}
  /\ Stop(p, "failed")

\* "Run it, check the report, run it again."
RestartBackfill(p) ==
  /\ bpc[p] \in {"failed", "ok"}
  /\ Stop(p, "off")

\* A message reaches the old store late.
LateArrival(d) ==
  /\ d \in Late \ legacy
  /\ legacy' = legacy \cup {d}
  /\ UNCHANGED <<storeVars, runVars>>

BackfillStep(p) ==
  \/ StartRun(p) \/ NextStep(p) \/ Recount(p)
  \/ \E d \in todo[p] : Insert(p, d) \/ InsertPost(p, d)
  \/ \E c \in Convs : LockConversation(p, c) \/ CopyConversation(p, c)

-----------------------------------------------------------------------------
(* What makes the copy correct.                                            *)

Stored(d) ==
  IF Kind[d] = "messages" THEN d \in Copied(Conv[d]) ELSE Row[d] \in rows

\* The report of a run that succeeded is true and the copy is complete: each
\* document that the run read is counted once (docs/MIGRATION.md:54-55), what
\* is counted as kept is there, and what was rejected is unreadable, violates a
\* CHECK or references a row that is still not there: no reply is lost because
\* it came before its parent.  The counts are those of the rows.
CopyComplete ==
  \A p \in Runs : bpc[p] = "ok" =>
    /\ \A d \in Docs : d \notin Late => outcome[p][d] # "unread"
    /\ \A d \in Docs :
         /\ outcome[p][d] # "read"
         /\ outcome[p][d] = "kept" => Stored(d)
         /\ outcome[p][d] = "rejected" =>
              d \notin Readable \cap Legal \/ ~(Refs[d] \subseteq rows)
    /\ \A r \in PostRows \cap rows : count[r] = Recounted(r)

\* No event is lost in the move and none is sent twice (backfill.go:205-206): a
\* copied post has exactly one outbox row if the old outbox still held its event
\* and the post is not deleted, and none otherwise, through repeated and
\* concurrent runs and transactions whose COMMIT was not answered.
CarriedOnce ==
  \A d \in DocsOf("posts") :
    events[Row[d]] = IF Row[d] \in rows /\ d \in OutboxPending \ Deleted THEN 1 ELSE 0

\* A conversation is numbered from 1 without gaps, each message once, by time
\* (backfill.go:313-315) except for a message that reached the old store late,
\* which is appended (TestBackfillMessagesContinueAfterNewTraffic); all of it is
\* read.  Left out are conversations of messages without created_at only, whose
\* last_seq is not set (backfill.go:394).
HistoryByTime ==
  \A c \in Convs :
    LET h == {m \in messages : m.conv = c}
    IN  (\E m \in h : SentAt[m.doc] # 0) =>
        /\ {m.seq : m \in h} = 1..lastSeq[c]
        /\ Cardinality(h) = lastSeq[c] /\ Cardinality(Copied(c)) = lastSeq[c]
        /\ \A m, n \in h : m.seq < n.seq => SentAt[m.doc] <= SentAt[n.doc] \/ n.doc \in Late
        /\ readSeq[c] = lastSeq[c]
=============================================================================
