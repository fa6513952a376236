------------------------------ MODULE Messages ------------------------------
(***************************************************************************)
(* One direct conversation: SendMessage, GetMessages and MarkRead of       *)
(* services/message/service/message.go with the tables of                  *)
(* migrations/0001_init.sql.  One step per statement that can wait or see  *)
(* another transaction's effects; a transaction's writes become visible    *)
(* at Commit (PostgreSQL, READ COMMITTED).                                 *)
(*                                                                         *)
(* A client makes one logical send and repeats it, with the same           *)
(* Idempotency-Key or without one, when it does not get an answer.         *)
(***************************************************************************)
EXTENDS Integers, FiniteSets

CONSTANTS
  Users,     \* the two members
  Clients, Sender, Key, Content,  \* each client's send: Sender[c], Key[c], Content[c]
  NoKey,     \* Key[c] = NoKey: sent without an Idempotency-Key
  Marking,   \* the members that call MarkRead
  Reading,   \* a member's client pages through the conversation
  Limit,     \* page size of GetMessages
  MaxTries,  \* bound: attempts of one client
  MaxClock   \* bound: clock ticks

ASSUME SendAssumption == Sender \in [Clients -> Users]
ASSUME BoundsAssumption ==
  /\ Limit \in Nat \ {0} /\ MaxTries \in Nat /\ MaxClock \in Nat
  /\ Marking \subseteq Users /\ Reading \in BOOLEAN

Free == "free"
ASSUME FreeAssumption == Free \notin Clients

VARIABLES
  messages,  \* committed rows of messages
  exists,    \* the rows of conversations and conversation_members are committed
  lastSeq, lastAt,  \* conversations.last_seq, last_message_at
  read,      \* conversation_members.last_read_seq
  lock,      \* the client whose transaction holds the conversation row
  clock,     \* clock_timestamp()
  pc, began, \* a client's step and its transaction's start time
  draft,     \* the message its transaction inserted
  tries,
  answer,    \* seq the client was told (0: none yet)
  snap,      \* MarkRead of a user: the last_seq its statement saw (-1: none running)
  want,      \* the seq that MarkRead was given
  top, low,  \* the reader's cursors: after_seq and before_seq (low = 0: start reached)
  seen       \* messages the reader received

tableVars == <<messages, exists, lastSeq, lastAt, read>>
clientVars == <<pc, began, draft, tries, answer>>
markVars == <<snap, want>>
readerVars == <<top, low, seen>>
vars == <<tableVars, lock, clock, clientVars, markVars, readerVars>>

NoDraft == [seq |-> 0, client |-> Free, at |-> 0]

Init ==
  /\ messages = {} /\ exists = FALSE /\ lastSeq = 0 /\ lastAt = 0
  /\ read = [u \in Users |-> 0]
  /\ lock = Free /\ clock = 0
  /\ pc = [c \in Clients |-> "idle"] /\ began = [c \in Clients |-> 0]
  /\ draft = [c \in Clients |-> NoDraft]
  /\ tries = [c \in Clients |-> 0] /\ answer = [c \in Clients |-> 0]
  /\ snap = [u \in Users |-> -1] /\ want = [u \in Users |-> 0]
  /\ top = 0 /\ low = 0 /\ seen = {}

Goto(c, s) == pc' = [pc EXCEPT ![c] = s]

-----------------------------------------------------------------------------
(* SendMessage.                                                            *)

\* The request passed validation; BEGIN.
Send(c) ==
  /\ pc[c] = "idle" /\ answer[c] = 0 /\ tries[c] < MaxTries
  /\ tries' = [tries EXCEPT ![c] = @ + 1]
  /\ began' = [began EXCEPT ![c] = clock]
  /\ Goto(c, "open")
  /\ UNCHANGED <<tableVars, lock, clock, draft, answer, markVars, readerVars>>

\* INSERT conversation ON CONFLICT DO NOTHING: waits for a transaction that is
\* inserting the same row; who inserts it also holds it.
OpenConversation(c) ==
  /\ pc[c] = "open"
  /\ IF exists THEN UNCHANGED lock ELSE lock = Free /\ lock' = c
  /\ Goto(c, "lock")
  /\ UNCHANGED <<tableVars, clock, began, draft, tries, answer, markVars, readerVars>>

\* SELECT last_seq ... FOR NO KEY UPDATE.
LockConversation(c) ==
  /\ pc[c] = "lock" /\ lock \in {Free, c}
  /\ lock' = c
  /\ Goto(c, "check")
  /\ UNCHANGED <<tableVars, clock, began, draft, tries, answer, markVars, readerVars>>

\* The transaction ends and the caller is told seq (0: an error).
EndTx(c, seq) ==
  /\ lock' = IF lock = c THEN Free ELSE lock
  /\ answer' = [answer EXCEPT ![c] = seq]
  /\ draft' = [draft EXCEPT ![c] = NoDraft]
  /\ Goto(c, "idle")

Earlier(c) ==
  {m \in messages : Key[c] # NoKey /\ Sender[m.client] = Sender[c] /\ Key[m.client] = Key[c]}

\* Mutant: the key is not looked up.
FindEarlierNever(c) ==
  /\ pc[c] = "check"
  /\ Goto(c, "insert")
  /\ UNCHANGED <<tableVars, lock, clock, began, draft, tries, answer, markVars, readerVars>>

\* Mutant: the stored message is replayed for any content.
FindEarlierAnyContent(c) ==
  /\ pc[c] = "check"
  /\ \/ Earlier(c) = {} /\ Goto(c, "insert") /\ UNCHANGED <<lock, answer, draft>>
     \/ \E m \in Earlier(c) : EndTx(c, m.seq)
  /\ UNCHANGED <<tableVars, clock, began, tries, markVars, readerVars>>

\* The client_msg_id lookup under the lock: replay, ErrKeyReused, or go on.
FindEarlier(c) ==
  /\ pc[c] = "check"
  /\ \/ Earlier(c) = {} /\ Goto(c, "insert") /\ UNCHANGED <<lock, answer, draft>>
     \/ \E m \in Earlier(c) : EndTx(c, IF Content[m.client] = Content[c] THEN m.seq ELSE 0)
  /\ UNCHANGED <<tableVars, clock, began, tries, markVars, readerVars>>

\* Mutant: now() is the transaction's start time.
TxStart(c) == began[c]

\* clock_timestamp()
Timestamp(c) == clock

\* INSERT message, UPDATE conversations, UPDATE conversation_members.
InsertMessage(c) ==
  /\ pc[c] = "insert"
  /\ draft' = [draft EXCEPT ![c] = [seq |-> lastSeq + 1, client |-> c, at |-> Timestamp(c)]]
  /\ Goto(c, "commit")
  /\ UNCHANGED <<tableVars, lock, clock, began, tries, answer, markVars, readerVars>>

\* COMMIT; its answer, or the response to the client, may be lost.
Commit(c) ==
  /\ pc[c] = "commit"
  /\ messages' = messages \cup {draft[c]}
  /\ exists' = TRUE
  /\ lastSeq' = draft[c].seq /\ lastAt' = draft[c].at
  /\ read' = [read EXCEPT ![Sender[c]] = draft[c].seq]
  /\ \E seq \in {draft[c].seq, 0} : EndTx(c, seq)
  /\ UNCHANGED <<clock, began, tries, markVars, readerVars>>

\* A statement fails, the client disconnects (the request's context ends the
\* transaction) or the process dies before COMMIT.
Rollback(c) ==
  /\ pc[c] \in {"open", "lock", "check", "insert", "commit"}
  /\ EndTx(c, 0)
  /\ UNCHANGED <<tableVars, clock, began, tries, markVars, readerVars>>

-----------------------------------------------------------------------------
(* MarkRead: an UPDATE that reads last_seq when it starts and may then wait *)
(* for a sender that has updated the member row.                            *)

MarkReadStart(u, seq) ==
  /\ exists /\ snap[u] = -1
  /\ snap' = [snap EXCEPT ![u] = lastSeq] /\ want' = [want EXCEPT ![u] = seq]
  /\ UNCHANGED <<tableVars, lock, clock, clientVars, readerVars>>

LeastOf(a, b) == IF a <= b THEN a ELSE b
GreatestOf(a, b) == IF a >= b THEN a ELSE b

\* Mutant: the position is set, whatever it was.
MarkReadNoGreatest(u) ==
  /\ snap[u] # -1
  /\ read' = [read EXCEPT ![u] = LeastOf(want[u], snap[u])]
  /\ snap' = [snap EXCEPT ![u] = -1] /\ want' = [want EXCEPT ![u] = 0]
  /\ UNCHANGED <<messages, exists, lastSeq, lastAt, lock, clock, clientVars, readerVars>>

MarkRead(u) ==
  /\ snap[u] # -1
  /\ \A c \in Clients : pc[c] # "commit"
  /\ read' = [read EXCEPT ![u] = GreatestOf(@, LeastOf(want[u], snap[u]))]
  /\ snap' = [snap EXCEPT ![u] = -1] /\ want' = [want EXCEPT ![u] = 0]
  /\ UNCHANGED <<messages, exists, lastSeq, lastAt, lock, clock, clientVars, readerVars>>

-----------------------------------------------------------------------------
(* GetMessages, and a client that follows its cursors.                     *)

\* The Limit messages of ms with the highest, or the lowest, seq.
Newest(ms) == {m \in ms : Cardinality({n \in ms : n.seq > m.seq}) < Limit}
Oldest(ms) == {m \in ms : Cardinality({n \in ms : n.seq < m.seq}) < Limit}

\* Mutant: the page after a cursor holds the newest messages.
AfterIsNewest(seq) == Newest({m \in messages : m.seq > seq})

\* after_seq = seq > 0: oldest first.
After(seq) == Oldest({m \in messages : m.seq > seq})

\* before_seq = seq: a page, with next_before_seq 0 when nothing is left.
Before(seq) ==
  LET page == Newest({m \in messages : m.seq < seq})
  IN  [page |-> page,
       next |-> IF \E m \in messages : m.seq < seq /\ m \notin page
                  THEN CHOOSE s \in {m.seq : m \in page} : \A m \in page : s <= m.seq
                  ELSE 0]

\* The highest seq of a page, or the cursor that was given.
EndOf(page, seq) ==
  IF page = {} THEN seq
  ELSE CHOOSE s \in {m.seq : m \in page} : \A m \in page : m.seq <= s

\* No cursor, which is also what after_seq = 0 means: the newest page.
OpenChat ==
  LET r == Before(lastSeq + 1)
  IN  /\ Reading /\ top = 0
      /\ seen' = r.page /\ low' = r.next /\ top' = EndOf(r.page, 0)
      /\ UNCHANGED <<tableVars, lock, clock, clientVars, markVars>>

Poll ==
  /\ top > 0
  /\ seen' = seen \cup After(top)
  /\ top' = EndOf(After(top), top)
  /\ UNCHANGED <<tableVars, lock, clock, clientVars, markVars, low>>

ScrollBack ==
  /\ low > 0
  /\ seen' = seen \cup Before(low).page
  /\ low' = Before(low).next
  /\ UNCHANGED <<tableVars, lock, clock, clientVars, markVars, top>>

Tick ==
  /\ clock < MaxClock
  /\ clock' = clock + 1
  /\ UNCHANGED <<tableVars, lock, clientVars, markVars, readerVars>>

-----------------------------------------------------------------------------
TxStep(c) ==
  \/ OpenConversation(c) \/ LockConversation(c) \/ FindEarlier(c)
  \/ InsertMessage(c) \/ Commit(c)

\* A user may name any seq: one it has seen, an old one, or one too high.
Next ==
  \/ \E c \in Clients : Send(c) \/ TxStep(c) \/ Rollback(c)
  \/ \E u \in Marking : MarkRead(u) \/ \E seq \in 1..(lastSeq + 1) : MarkReadStart(u, seq)
  \/ OpenChat \/ Poll \/ ScrollBack
  \/ Tick

Spec == Init /\ [][Next]_vars

-----------------------------------------------------------------------------
(* What makes the conversation right.                                      *)

Message == [seq : Nat, client : Clients \cup {Free}, at : Nat]

\* Types; a member has never read past the last message, so no unread count in
\* ListConversations is negative (message.go:299).
TypeOK ==
  /\ messages \subseteq Message /\ exists \in BOOLEAN
  /\ lastSeq \in Nat /\ lastAt \in Nat
  /\ read \in [Users -> Nat] /\ \A u \in Users : read[u] <= lastSeq
  /\ lock \in Clients \cup {Free} /\ clock \in Nat
  /\ pc \in [Clients -> {"idle", "open", "lock", "check", "insert", "commit"}]
  /\ began \in [Clients -> Nat] /\ draft \in [Clients -> Message]
  /\ tries \in [Clients -> 0..MaxTries] /\ answer \in [Clients -> Nat]
  /\ snap \in [Users -> Nat \cup {-1}] /\ want \in [Users -> Nat]
  /\ top \in Nat /\ low \in Nat /\ seen \subseteq Message

\* "gap-free and increases in commit order" (0001_init.sql:157-158): concurrent
\* senders, rollbacks and lost answers leave exactly the seqs 1..last_seq, each
\* used once, and created_at never contradicts them although a transaction that
\* began first may commit last (message.go:135-138).
SeqIsTimeline ==
  /\ {m.seq : m \in messages} = 1..lastSeq
  /\ \A m, n \in messages : /\ m.seq = n.seq => m = n
                            /\ m.seq < n.seq => m.at <= n.at

\* However often a client repeats a send, and however its attempts overlap, its
\* key stores one message (message.go:64-66).
OncePerKey ==
  \A m, n \in messages :
    ( /\ Key[m.client] # NoKey /\ Key[m.client] = Key[n.client]
      /\ Sender[m.client] = Sender[n.client] ) => m = n

\* The seq a client is told is a message of its own sender with its content.
AnswerIsStored ==
  \A c \in Clients : answer[c] > 0 =>
    \E m \in messages :
      m.seq = answer[c] /\ Sender[m.client] = Sender[c] /\ Content[m.client] = Content[c]

\* A client that pages back and polls forward with the cursors it is given has
\* every message between them: no message becomes visible behind its cursor.
NothingMissed ==
  top > 0 => seen = {m \in messages : low <= m.seq /\ m.seq <= top}

\* "The read position only moves forward" (message.go:317-318), although a send
\* sets the sender's position without looking at it, and never past the last
\* message, so no unread count of the inbox is negative (message.go:299).
ReadForward == [][\A u \in Users : read[u] <= read'[u] /\ read'[u] <= lastSeq']_vars
=============================================================================
