--------------------------- MODULE MessagesProofs ---------------------------
(***************************************************************************)
(* The conversation is right for every set of clients, every assignment of *)
(* senders, keys and contents, every page size and any number of retries.  *)
(*                                                                         *)
(* The argument has two layers.  SendInv is about the writers: who passed  *)
(* FOR NO KEY UPDATE holds the conversation row (Locked), so what it read  *)
(* under the lock (last_seq, the absence of its key) is still true when it *)
(* commits (Drafted, Fresh).  ReaderInv is about the reader: a page is an  *)
(* interval of the timeline next to its cursor, so what it has seen is the *)
(* interval between its two cursors.                                       *)
(***************************************************************************)
EXTENDS Messages, FiniteSetTheorems, TLAPS

\* The type invariant without the reader's part.
SendTypes ==
  /\ messages \subseteq Message /\ exists \in BOOLEAN
  /\ lastSeq \in Nat /\ lastAt \in Nat
  /\ read \in [Users -> Nat] /\ \A u \in Users : read[u] <= lastSeq
  /\ lock \in Clients \cup {Free} /\ clock \in Nat
  /\ pc \in [Clients -> {"idle", "open", "lock", "check", "insert", "commit"}]
  /\ began \in [Clients -> Nat] /\ draft \in [Clients -> Message]
  /\ tries \in [Clients -> 0..MaxTries] /\ answer \in [Clients -> Nat]
  /\ snap \in [Users -> Nat \cup {-1}] /\ want \in [Users -> Nat]

\* Who is past LockConversation holds the row: at most one client is.
Locked == \A c \in Clients : pc[c] \in {"check", "insert", "commit"} => lock = c

\* Every stored message was sent by a client, not after last_message_at.
Stored ==
  /\ IsFiniteSet(messages) /\ lastAt <= clock
  /\ \A m \in messages : m.client \in Clients /\ m.at <= lastAt

\* An uncommitted message continues the timeline that its lock froze.
Drafted ==
  \A c \in Clients : pc[c] = "commit" =>
    /\ draft[c].seq = lastSeq + 1 /\ draft[c].client = c
    /\ lastAt <= draft[c].at /\ draft[c].at <= clock

\* The key that FindEarlier did not find is still not stored.
Fresh == \A c \in Clients : pc[c] \in {"insert", "commit"} => Earlier(c) = {}

\* MarkRead's snapshot of last_seq is not ahead of it.
Snapped == \A u \in Users : snap[u] <= lastSeq

SendInv ==
  /\ SendTypes /\ Locked /\ Stored /\ Drafted /\ Fresh /\ Snapped
  /\ SeqIsTimeline /\ OncePerKey /\ AnswerIsStored

LEMMA SendInit == Init => SendInv
<1> SUFFICES ASSUME Init PROVE SendInv
    OBVIOUS
<1>1. SendTypes
      <2>1. NoDraft \in Message
            BY DEF NoDraft, Message
      <2>2. draft \in [Clients -> Message] /\ tries \in [Clients -> 0..MaxTries]
            BY <2>1, BoundsAssumption DEF BoundsAssumption, Init
      <2>3. /\ messages \subseteq Message /\ exists \in BOOLEAN /\ lastSeq \in Nat /\ lastAt \in Nat
            /\ lock \in Clients \cup {Free} /\ clock \in Nat
            BY DEF Init
      <2>4. read \in [Users -> Nat] /\ \A u \in Users : read[u] <= lastSeq
            BY DEF Init
      <2>5. /\ pc \in [Clients -> {"idle", "open", "lock", "check", "insert", "commit"}]
            /\ began \in [Clients -> Nat] /\ answer \in [Clients -> Nat]
            BY DEF Init
      <2>6. snap \in [Users -> Nat \cup {-1}] /\ want \in [Users -> Nat]
            BY DEF Init
      <2> QED BY <2>2, <2>3, <2>4, <2>5, <2>6 DEF SendTypes
<1>2. Stored
      BY FS_EmptySet DEF Init, Stored
<1>3. Locked /\ Drafted /\ Fresh /\ Snapped
      BY DEF Init, Locked, Drafted, Fresh, Snapped
<1>4. SeqIsTimeline /\ OncePerKey /\ AnswerIsStored
      BY DEF Init, SeqIsTimeline, OncePerKey, AnswerIsStored
<1> QED BY <1>1, <1>2, <1>3, <1>4 DEF SendInv

\* A step that leaves the tables and the drafts alone: who moves past the lock
\* takes it, who moves past the lookup found nothing, answers stay.
LEMMA QuietStep ==
  ASSUME SendInv, SendTypes', Locked', Snapped',
         UNCHANGED <<messages, lastSeq, lastAt>>, clock <= clock',
         \A c \in Clients : pc'[c] = "commit" => pc[c] = "commit" /\ draft'[c] = draft[c],
         \A c \in Clients : pc'[c] = "insert" => pc[c] = "insert" \/ Earlier(c) = {},
         AnswerIsStored'
  PROVE  SendInv'
<1>1. Stored'
      BY DEF SendInv, Stored, SendTypes
<1>2. Drafted'
      <2> SUFFICES ASSUME NEW c \in Clients, pc'[c] = "commit"
                   PROVE  /\ draft'[c].seq = lastSeq' + 1 /\ draft'[c].client = c
                          /\ lastAt' <= draft'[c].at /\ draft'[c].at <= clock'
          BY DEF Drafted
      <2>1. pc[c] = "commit" /\ draft'[c] = draft[c]
            OBVIOUS
      <2>2. draft[c].at \in Nat
            BY DEF SendInv, SendTypes, Message
      <2> QED BY <2>1, <2>2 DEF SendInv, Drafted, SendTypes
<1>3. Fresh'
      BY DEF SendInv, Fresh, Earlier
<1>4. SeqIsTimeline' /\ OncePerKey'
      BY DEF SendInv, SeqIsTimeline, OncePerKey
<1> QED BY <1>1, <1>2, <1>3, <1>4 DEF SendInv

\* EndTx releases the row and forgets the draft.
LEMMA EndTxStep ==
  ASSUME SendInv, NEW c \in Clients, NEW seq \in Nat, EndTx(c, seq),
         UNCHANGED <<tableVars, clock, began, tries, markVars>>,
         pc[c] # "idle",
         seq > 0 => \E m \in messages :
           m.seq = seq /\ Sender[m.client] = Sender[c] /\ Content[m.client] = Content[c]
  PROVE  SendInv'
<1>1. SendTypes'
      BY DEF EndTx, Goto, SendInv, SendTypes, tableVars, markVars, Message, NoDraft
<1>2. \A d \in Clients : d # c => pc'[d] = pc[d] /\ draft'[d] = draft[d] /\ answer'[d] = answer[d]
      BY DEF EndTx, Goto, SendInv, SendTypes
<1>3. pc'[c] = "idle" /\ answer'[c] = seq
      BY DEF EndTx, Goto, SendInv, SendTypes
<1>4. Locked'
      BY <1>2, <1>3 DEF EndTx, SendInv, Locked
<1>5. Snapped'
      BY DEF SendInv, Snapped, tableVars, markVars
<1>6. AnswerIsStored'
      BY <1>2, <1>3 DEF SendInv, AnswerIsStored, tableVars
<1>7. UNCHANGED <<messages, lastSeq, lastAt>> /\ clock <= clock'
      BY DEF tableVars, SendInv, SendTypes
<1>8. /\ \A d \in Clients : pc'[d] = "commit" => pc[d] = "commit" /\ draft'[d] = draft[d]
      /\ \A d \in Clients : pc'[d] = "insert" => pc[d] = "insert" \/ Earlier(d) = {}
      BY <1>2, <1>3
<1> QED BY <1>1, <1>4, <1>5, <1>6, <1>7, <1>8, QuietStep

\* Commit appends the next seq to the timeline, with a key that is not stored.
LEMMA CommitStep == ASSUME SendInv, NEW c \in Clients, Commit(c) PROVE SendInv'
<1> DEFINE d == draft[c]
<1>1. /\ d \in Message /\ d.seq = lastSeq + 1 /\ d.client = c
      /\ lastAt <= d.at /\ d.at <= clock /\ d.seq \in Nat /\ d.at \in Nat
      BY DEF Commit, SendInv, SendTypes, Drafted, Message
<1>2. /\ messages' = messages \cup {d} /\ lastSeq' = d.seq /\ lastAt' = d.at
      /\ read' = [read EXCEPT ![Sender[c]] = d.seq] /\ UNCHANGED <<clock, began, tries, snap, want>>
      BY DEF Commit, markVars
<1>3. PICK s \in {d.seq, 0} : EndTx(c, s)
      BY DEF Commit
<1>4. \A e \in Clients : e # c => pc'[e] = pc[e] /\ draft'[e] = draft[e] /\ answer'[e] = answer[e]
      BY <1>3 DEF EndTx, Goto, SendInv, SendTypes
<1>5. pc'[c] = "idle" /\ answer'[c] = s
      BY <1>3 DEF EndTx, Goto, SendInv, SendTypes
<1>6. \A e \in Clients : pc'[e] \notin {"check", "insert", "commit"}
      <2>1. lock = c
            BY DEF Commit, SendInv, Locked
      <2> QED BY <1>4, <1>5, <2>1 DEF SendInv, Locked
<1>7. SendTypes'
      <2>1. /\ messages' \subseteq Message /\ exists' \in BOOLEAN /\ lastSeq' \in Nat /\ lastAt' \in Nat
            BY <1>1, <1>2 DEF Commit, SendInv, SendTypes
      <2>2. read' \in [Users -> Nat] /\ \A u \in Users : read'[u] <= lastSeq'
            BY <1>1, <1>2, SendAssumption DEF SendInv, SendTypes
      <2>3. /\ lock' \in Clients \cup {Free}
            /\ pc' \in [Clients -> {"idle", "open", "lock", "check", "insert", "commit"}]
            /\ draft' \in [Clients -> Message] /\ answer' \in [Clients -> Nat]
            BY <1>1, <1>3 DEF EndTx, Goto, SendInv, SendTypes, Message, NoDraft
      <2> QED BY <1>2, <2>1, <2>2, <2>3 DEF SendInv, SendTypes
<1>8. Locked' /\ Drafted' /\ Fresh'
      BY <1>6 DEF Locked, Drafted, Fresh
<1>9. Stored'
      <2>1. IsFiniteSet(messages')
            BY <1>2, FS_AddElement DEF SendInv, Stored
      <2>2. \A m \in messages : m.at \in Nat /\ m.at <= lastAt
            BY DEF SendInv, Stored, SendTypes, Message
      <2> QED BY <1>1, <1>2, <2>1, <2>2 DEF SendInv, Stored, SendTypes
<1>10. Snapped'
      BY <1>1, <1>2 DEF SendInv, Snapped, SendTypes
<1>11. SeqIsTimeline'
      <2>1. \A m \in messages : m.seq \in 1..lastSeq /\ m.at \in Nat /\ m.at <= lastAt
            BY DEF SendInv, SeqIsTimeline, Stored, SendTypes, Message
      <2>2. {m.seq : m \in messages'} = 1..lastSeq'
            <3>1. {m.seq : m \in messages'} = {m.seq : m \in messages} \cup {d.seq}
                  BY <1>2
            <3>2. {m.seq : m \in messages} = 1..lastSeq
                  BY DEF SendInv, SeqIsTimeline
            <3>3. 1..(lastSeq + 1) = (1..lastSeq) \cup {lastSeq + 1}
                  BY DEF SendInv, SendTypes
            <3> QED BY <1>1, <1>2, <3>1, <3>2, <3>3
      <2>3. ASSUME NEW m \in messages', NEW n \in messages'
            PROVE  /\ m.seq = n.seq => m = n
                   /\ m.seq < n.seq => m.at <= n.at
            <3>1. CASE m \in messages /\ n \in messages
                  BY <3>1 DEF SendInv, SeqIsTimeline
            <3>2. CASE m \in messages /\ n = d
                  BY <1>1, <2>1, <3>2 DEF SendInv, SendTypes
            <3>3. CASE m = d /\ n \in messages
                  BY <1>1, <2>1, <3>3 DEF SendInv, SendTypes
            <3>4. CASE m = d /\ n = d
                  BY <1>1, <3>4
            <3> QED BY <1>2, <3>1, <3>2, <3>3, <3>4
      <2> QED BY <2>2, <2>3 DEF SeqIsTimeline
<1>12. OncePerKey'
      <2>1. Earlier(c) = {}
            BY DEF Commit, SendInv, Fresh
      <2>2. \A m \in messages : Key[c] # NoKey => ~(Sender[m.client] = Sender[c] /\ Key[m.client] = Key[c])
            BY <2>1 DEF Earlier
      <2> QED BY <1>1, <1>2, <2>2 DEF SendInv, OncePerKey
<1>13. AnswerIsStored'
      <2> SUFFICES ASSUME NEW e \in Clients, answer'[e] > 0
                   PROVE  \E m \in messages' : /\ m.seq = answer'[e] /\ Sender[m.client] = Sender[e]
                                               /\ Content[m.client] = Content[e]
          BY DEF AnswerIsStored
      <2>1. CASE e = c
            BY <1>1, <1>2, <1>5, <2>1
      <2>2. CASE e # c
            BY <1>2, <1>4, <2>2 DEF SendInv, AnswerIsStored
      <2> QED BY <2>1, <2>2
<1> QED BY <1>7, <1>8, <1>9, <1>10, <1>11, <1>12, <1>13 DEF SendInv

\* Send, OpenConversation, LockConversation and InsertMessage: one client moves.
LEMMA ClientMoves ==
  ASSUME SendInv, NEW c \in Clients,
         Send(c) \/ OpenConversation(c) \/ LockConversation(c) \/ InsertMessage(c)
  PROVE  SendInv'
<1>1. /\ UNCHANGED <<messages, exists, lastSeq, lastAt, read, clock, answer, snap, want>>
      /\ clock <= clock'
      BY DEF Send, OpenConversation, LockConversation, InsertMessage, tableVars, markVars,
             SendInv, SendTypes
<1>2. Snapped' /\ AnswerIsStored'
      BY <1>1 DEF SendInv, Snapped, AnswerIsStored
<1>3. \A d \in Clients : d # c => pc'[d] = pc[d]
      BY DEF Send, OpenConversation, LockConversation, InsertMessage, Goto, SendInv, SendTypes
<1>4. CASE Send(c)
      <2>1. SendTypes'
            BY <1>1, <1>4, BoundsAssumption DEF BoundsAssumption, Send, Goto, SendInv, SendTypes
      <2>2. pc'[c] = "open" /\ UNCHANGED <<lock, draft>>
            BY <1>4 DEF Send, Goto, SendInv, SendTypes
      <2>3. Locked'
            BY <1>3, <2>2 DEF SendInv, Locked
      <2> QED BY <1>1, <1>2, <1>3, <2>1, <2>2, <2>3, QuietStep
<1>5. CASE OpenConversation(c)
      <2>1. SendTypes'
            BY <1>1, <1>5 DEF OpenConversation, Goto, SendInv, SendTypes
      <2>2. pc'[c] = "lock" /\ UNCHANGED draft /\ (lock' = lock \/ (lock = Free /\ lock' = c))
            BY <1>5 DEF OpenConversation, Goto, SendInv, SendTypes
      <2>3. Locked'
            BY <1>3, <2>2, FreeAssumption DEF FreeAssumption, SendInv, Locked
      <2> QED BY <1>1, <1>2, <1>3, <2>1, <2>2, <2>3, QuietStep
<1>6. CASE LockConversation(c)
      <2>1. SendTypes'
            BY <1>1, <1>6 DEF LockConversation, Goto, SendInv, SendTypes
      <2>2. pc'[c] = "check" /\ UNCHANGED draft /\ lock \in {Free, c} /\ lock' = c
            BY <1>6 DEF LockConversation, Goto, SendInv, SendTypes
      <2>3. Locked'
            BY <1>3, <2>2, FreeAssumption DEF FreeAssumption, SendInv, Locked
      <2> QED BY <1>1, <1>2, <1>3, <2>1, <2>2, <2>3, QuietStep
<1>7. CASE InsertMessage(c)
      <2> DEFINE d == [seq |-> lastSeq + 1, client |-> c, at |-> clock]
      <2>1. /\ d \in Message /\ pc[c] = "insert" /\ pc'[c] = "commit"
            /\ draft' = [draft EXCEPT ![c] = d] /\ UNCHANGED <<lock, began, tries>>
            /\ pc' = [pc EXCEPT ![c] = "commit"]
            BY <1>7 DEF InsertMessage, Timestamp, Goto, SendInv, SendTypes, Message
      <2>2. SendTypes'
            BY <1>1, <2>1 DEF SendInv, SendTypes
      <2>3. Locked' /\ Fresh' /\ Stored'
            BY <1>1, <1>3, <2>1 DEF SendInv, Locked, Fresh, Earlier, Stored
      <2>4. Drafted'
            <3> SUFFICES ASSUME NEW e \in Clients, pc'[e] = "commit"
                         PROVE  /\ draft'[e].seq = lastSeq' + 1 /\ draft'[e].client = e
                                /\ lastAt' <= draft'[e].at /\ draft'[e].at <= clock'
                BY DEF Drafted
            <3>1. CASE e = c
                  BY <1>1, <2>1, <3>1 DEF SendInv, SendTypes, Stored
            <3>2. CASE e # c
                  BY <1>1, <1>3, <2>1, <3>2 DEF SendInv, SendTypes, Drafted
            <3> QED BY <3>1, <3>2
      <2>5. SeqIsTimeline' /\ OncePerKey'
            BY <1>1 DEF SendInv, SeqIsTimeline, OncePerKey
      <2> QED BY <1>2, <2>2, <2>3, <2>4, <2>5 DEF SendInv
<1> QED BY <1>4, <1>5, <1>6, <1>7

\* FindEarlier goes on only when the key is not stored; a replay answers with a
\* message of the same sender and content.
LEMMA FindEarlierStep == ASSUME SendInv, NEW c \in Clients, FindEarlier(c) PROVE SendInv'
<1>1. pc[c] = "check" /\ UNCHANGED <<tableVars, clock, began, tries, markVars>>
      BY DEF FindEarlier
<1>2. CASE Earlier(c) = {} /\ Goto(c, "insert") /\ UNCHANGED <<lock, answer, draft>>
      <2>1. SendTypes' /\ pc' = [pc EXCEPT ![c] = "insert"]
            BY <1>1, <1>2 DEF Goto, SendInv, SendTypes, tableVars, markVars
      <2>2. /\ pc'[c] = "insert" /\ \A d \in Clients : d # c => pc'[d] = pc[d]
            /\ UNCHANGED <<messages, lastSeq, lastAt, snap>> /\ clock <= clock'
            BY <1>1, <2>1 DEF SendInv, SendTypes, tableVars, markVars
      <2>3. Locked' /\ Snapped' /\ AnswerIsStored'
            BY <1>1, <1>2, <2>2 DEF SendInv, Locked, Snapped, AnswerIsStored
      <2> QED BY <1>2, <2>1, <2>2, <2>3, QuietStep
<1>3. CASE \E m \in Earlier(c) : EndTx(c, IF Content[m.client] = Content[c] THEN m.seq ELSE 0)
      <2>1. PICK m \in Earlier(c) : EndTx(c, IF Content[m.client] = Content[c] THEN m.seq ELSE 0)
            BY <1>3
      <2>2. m \in messages /\ Sender[m.client] = Sender[c] /\ m.seq \in Nat
            BY DEF Earlier, SendInv, SendTypes, Message
      <2>3. CASE Content[m.client] = Content[c]
            BY <1>1, <2>1, <2>2, <2>3, EndTxStep
      <2>4. CASE Content[m.client] # Content[c]
            BY <1>1, <2>1, <2>4, EndTxStep
      <2> QED BY <2>3, <2>4
<1> QED BY <1>2, <1>3 DEF FindEarlier

LEMMA MarkReadStep ==
  ASSUME SendInv, NEW u \in Marking, NEW seq \in Nat, MarkRead(u) \/ MarkReadStart(u, seq)
  PROVE  SendInv'
<1>1. UNCHANGED <<messages, exists, lastSeq, lastAt, lock, clock, pc, began, draft, tries, answer>>
      BY DEF MarkRead, MarkReadStart, tableVars, clientVars
<1>2. u \in Users
      BY BoundsAssumption DEF BoundsAssumption
<1>3. SendTypes' /\ Snapped'
      <2>1. CASE MarkRead(u)
            <3> DEFINE r == GreatestOf(read[u], LeastOf(want[u], snap[u]))
            <3>1. r \in Nat /\ r <= lastSeq
                  BY <1>2, <2>1 DEF MarkRead, GreatestOf, LeastOf, SendInv, SendTypes, Snapped
            <3>2. read' = [read EXCEPT ![u] = r]
                  BY <1>2, <2>1 DEF MarkRead, SendInv, SendTypes
            <3>3. read' \in [Users -> Nat] /\ \A v \in Users : read'[v] <= lastSeq
                  BY <3>1, <3>2 DEF SendInv, SendTypes
            <3>4. snap' = [snap EXCEPT ![u] = -1] /\ want' = [want EXCEPT ![u] = 0]
                  BY <2>1 DEF MarkRead
            <3>5. snap' \in [Users -> Nat \cup {-1}] /\ want' \in [Users -> Nat]
                  BY <3>4 DEF SendInv, SendTypes
            <3>6. Snapped'
                  BY <1>1, <3>4 DEF SendInv, SendTypes, Snapped
            <3> QED BY <1>1, <3>3, <3>5, <3>6 DEF SendInv, SendTypes
      <2>2. CASE MarkReadStart(u, seq)
            <3>1. /\ snap' = [snap EXCEPT ![u] = lastSeq] /\ want' = [want EXCEPT ![u] = seq]
                  /\ UNCHANGED read
                  BY <2>2 DEF MarkReadStart, tableVars
            <3>2. snap' \in [Users -> Nat \cup {-1}] /\ want' \in [Users -> Nat]
                  BY <3>1 DEF SendInv, SendTypes
            <3>3. Snapped'
                  BY <1>1, <3>1 DEF SendInv, SendTypes, Snapped
            <3> QED BY <1>1, <3>1, <3>2, <3>3 DEF SendInv, SendTypes
      <2> QED BY <2>1, <2>2
<1>4. Locked' /\ AnswerIsStored' /\ clock <= clock'
      BY <1>1 DEF SendInv, SendTypes, Locked, AnswerIsStored
<1> QED BY <1>1, <1>3, <1>4, QuietStep

\* A step that moves at most the clock and the reader.
LEMMA ReaderMoves ==
  ASSUME SendInv, UNCHANGED <<tableVars, lock, clientVars, markVars>>,
         clock' \in Nat, clock <= clock'
  PROVE  SendInv'
<1>1. SendTypes' /\ Locked' /\ Snapped' /\ AnswerIsStored'
      BY DEF SendInv, SendTypes, Locked, Snapped, AnswerIsStored, tableVars, clientVars, markVars
<1> QED BY <1>1, QuietStep DEF tableVars, clientVars

LEMMA SendNext == SendInv /\ [Next]_vars => SendInv'
<1> SUFFICES ASSUME SendInv, [Next]_vars PROVE SendInv'
    OBVIOUS
<1>1. ASSUME NEW c \in Clients, Send(c) \/ TxStep(c) PROVE SendInv'
      BY <1>1, ClientMoves, FindEarlierStep, CommitStep DEF TxStep
<1>2. ASSUME NEW c \in Clients, Rollback(c) PROVE SendInv'
      <2>1. EndTx(c, 0) /\ pc[c] # "idle" /\ UNCHANGED <<tableVars, clock, began, tries, markVars>>
            BY <1>2 DEF Rollback
      <2> QED BY <2>1, EndTxStep
<1>3. ASSUME NEW u \in Marking, MarkRead(u) \/ \E seq \in 1..(lastSeq + 1) : MarkReadStart(u, seq)
      PROVE  SendInv'
      <2>1. 1..(lastSeq + 1) \subseteq Nat
            BY DEF SendInv, SendTypes
      <2> QED BY <1>3, <2>1, MarkReadStep
<1>4. CASE OpenChat \/ Poll \/ ScrollBack \/ Tick \/ UNCHANGED vars
      BY <1>4, ReaderMoves
         DEF OpenChat, Poll, ScrollBack, Tick, vars, SendInv, SendTypes
<1> QED BY <1>1, <1>2, <1>3, <1>4 DEF Next

LEMMA SendSafe == Spec => []SendInv
<1>1. Init => SendInv
      BY SendInit
<1>2. SendInv /\ [Next]_vars => SendInv'
      BY SendNext
<1> QED BY <1>1, <1>2, PTL DEF Spec

-----------------------------------------------------------------------------
(* The pages of GetMessages.                                               *)

\* A set of naturals has a least element, and a greatest one when it is bounded.
LEMMA LeastExists ==
  ASSUME NEW S \in SUBSET Nat, S # {}
  PROVE  \E s \in S : \A t \in S : s <= t
<1> DEFINE Less == {p \in Nat \X Nat : p[1] < p[2]}
<1>1. IsWellFoundedOn(Less, Nat)
      BY NatLessThanWellFounded, Zenon DEF OpToRel
<1> HIDE DEF Less
<1>2. PICK s \in S : \A t \in S : <<t, s>> \notin Less
      BY <1>1, WFMin
<1>3. ASSUME NEW t \in S, t < s PROVE FALSE
      <2>1. <<t, s>> \in Nat \X Nat /\ <<t, s>>[1] = t /\ <<t, s>>[2] = s
            OBVIOUS
      <2>2. <<t, s>> \in Less
            BY <1>3, <2>1, Zenon DEF Less
      <2> QED BY <1>2, <2>2
<1> QED BY <1>3

LEMMA GreatestExists ==
  ASSUME NEW S \in SUBSET Nat, S # {}, NEW b \in Nat, \A s \in S : s <= b
  PROVE  \E s \in S : \A t \in S : t <= s
<1> DEFINE D == {b - s : s \in S}
<1>1. D \in SUBSET Nat /\ D # {}
      <2>1. ASSUME NEW s \in S PROVE b - s \in Nat
            OBVIOUS
      <2>2. D # {}
            OBVIOUS
      <2> QED BY <2>1, <2>2
<1>2. PICK d \in D : \A e \in D : d <= e
      BY <1>1, LeastExists
<1>3. PICK s \in S : d = b - s
      OBVIOUS
<1>4. ASSUME NEW t \in S PROVE t <= s
      <2>1. b - t \in D
            OBVIOUS
      <2>2. b - s <= b - t
            BY <1>2, <1>3, <2>1
      <2> QED BY <2>2
<1> QED BY <1>4

\* The newest page contains, with a message, every newer one.
LEMMA NewestIsClosed ==
  ASSUME NEW ms, IsFiniteSet(ms), ms \subseteq Message,
         NEW m \in Newest(ms), NEW n \in ms, m.seq <= n.seq
  PROVE  n \in Newest(ms)
<1> DEFINE A == {k \in ms : k.seq > n.seq}
           B == {k \in ms : k.seq > m.seq}
<1>1. B \in SUBSET ms /\ A \in SUBSET B
      BY DEF Newest, Message
<1>2. IsFiniteSet(B) /\ Cardinality(B) \in Nat /\ Cardinality(B) < Limit
      BY <1>1, FS_Subset, FS_CardinalityType DEF Newest
<1>3. IsFiniteSet(A) /\ Cardinality(A) \in Nat /\ Cardinality(A) <= Cardinality(B)
      BY <1>1, <1>2, FS_Subset, FS_CardinalityType
<1>4. Cardinality(A) < Limit
      BY <1>2, <1>3, BoundsAssumption DEF BoundsAssumption
<1> QED BY <1>4 DEF Newest

\* The oldest page contains, with a message, every older one.
LEMMA OldestIsClosed ==
  ASSUME NEW ms, IsFiniteSet(ms), ms \subseteq Message,
         NEW m \in Oldest(ms), NEW n \in ms, n.seq <= m.seq
  PROVE  n \in Oldest(ms)
<1> DEFINE A == {k \in ms : k.seq < n.seq}
           B == {k \in ms : k.seq < m.seq}
<1>1. B \in SUBSET ms /\ A \in SUBSET B
      BY DEF Oldest, Message
<1>2. IsFiniteSet(B) /\ Cardinality(B) \in Nat /\ Cardinality(B) < Limit
      BY <1>1, FS_Subset, FS_CardinalityType DEF Oldest
<1>3. IsFiniteSet(A) /\ Cardinality(A) \in Nat /\ Cardinality(A) <= Cardinality(B)
      BY <1>1, <1>2, FS_Subset, FS_CardinalityType
<1>4. Cardinality(A) < Limit
      BY <1>2, <1>3, BoundsAssumption DEF BoundsAssumption
<1> QED BY <1>4 DEF Oldest

\* A page of a conversation that has messages is not empty.
LEMMA NewestNotEmpty ==
  ASSUME NEW ms, ms \subseteq Message, ms # {}, NEW b \in Nat, \A m \in ms : m.seq <= b
  PROVE  Newest(ms) # {}
<1> DEFINE S == {m.seq : m \in ms}
<1>1. S \in SUBSET Nat /\ S # {} /\ \A s \in S : s <= b
      BY DEF Message
<1>2. PICK s \in S : \A t \in S : t <= s
      BY <1>1, GreatestExists
<1>3. PICK m \in ms : m.seq = s
      OBVIOUS
<1>4. {n \in ms : n.seq > m.seq} = {}
      BY <1>1, <1>2, <1>3
<1>5. Cardinality({n \in ms : n.seq > m.seq}) < Limit
      BY <1>4, FS_EmptySet, BoundsAssumption DEF BoundsAssumption
<1> QED BY <1>5 DEF Newest

\* A page before a cursor is the interval from next_before_seq up to the cursor.
LEMMA BeforeIsInterval ==
  ASSUME SendInv, NEW seq \in Nat
  PROVE  /\ Before(seq).next \in Nat
         /\ Before(seq).next = 0 \/ Before(seq).next < seq
         /\ Before(seq).next <= lastSeq
         /\ Before(seq).page = {m \in messages : Before(seq).next <= m.seq /\ m.seq < seq}
<1> DEFINE ms == {m \in messages : m.seq < seq}
           page == Newest(ms)
           next == IF \E m \in messages : m.seq < seq /\ m \notin page
                     THEN CHOOSE s \in {m.seq : m \in page} : \A m \in page : s <= m.seq
                     ELSE 0
<1>1. Before(seq).page = page /\ Before(seq).next = next
      BY DEF Before
<1>2. /\ IsFiniteSet(ms) /\ ms \subseteq Message /\ page \subseteq ms
      /\ \A m \in messages : m.seq \in Nat /\ m.seq <= lastSeq
      BY FS_Subset DEF SendInv, Stored, SendTypes, SeqIsTimeline, Message, Newest
<1>3. CASE \E m \in messages : m.seq < seq /\ m \notin page
      <2> DEFINE S == {m.seq : m \in page}
      <2>1. page # {}
            BY <1>2, <1>3, NewestNotEmpty DEF SendInv, SendTypes
      <2>2. S \in SUBSET Nat /\ S # {}
            BY <1>2, <2>1
      <2>3. \E s \in S : \A t \in S : s <= t
            BY <2>2, LeastExists
      <2>4. next \in S /\ \A m \in page : next <= m.seq
            BY <1>3, <2>3
      <2>5. PICK k \in page : k.seq = next
            BY <2>4
      <2>6. \A n \in ms : next <= n.seq => n \in page
            BY <1>2, <2>5, NewestIsClosed
      <2>7. page = {m \in messages : next <= m.seq /\ m.seq < seq}
            BY <1>2, <2>4, <2>6
      <2>8. next \in Nat /\ next < seq /\ next <= lastSeq
            BY <1>2, <2>2, <2>5
      <2> QED BY <1>1, <2>7, <2>8
<1>4. CASE ~ \E m \in messages : m.seq < seq /\ m \notin page
      <2>1. next = 0 /\ page = ms
            BY <1>2, <1>4
      <2>2. ms = {m \in messages : 0 <= m.seq /\ m.seq < seq}
            BY <1>2
      <2> QED BY <1>1, <2>1, <2>2 DEF SendInv, SendTypes
<1> QED BY <1>3, <1>4

\* A page after a cursor is the interval from the cursor to the page's end.
LEMMA AfterIsInterval ==
  ASSUME SendInv, NEW seq \in Nat, seq <= lastSeq
  PROVE  /\ EndOf(After(seq), seq) \in seq..lastSeq
         /\ After(seq) = {m \in messages : seq < m.seq /\ m.seq <= EndOf(After(seq), seq)}
<1> DEFINE ms == {m \in messages : m.seq > seq}
           page == Oldest(ms)
           end == EndOf(page, seq)
<1>1. After(seq) = page
      BY DEF After
<1>2. /\ IsFiniteSet(ms) /\ ms \subseteq Message /\ page \subseteq ms
      /\ \A m \in messages : m.seq \in Nat /\ m.seq <= lastSeq
      BY FS_Subset DEF SendInv, Stored, SendTypes, SeqIsTimeline, Message, Oldest
<1>3. CASE page = {}
      <2>1. end = seq
            BY <1>3 DEF EndOf
      <2>2. {m \in messages : seq < m.seq /\ m.seq <= seq} = {}
            BY <1>2
      <2>3. end \in seq..lastSeq
            BY <2>1 DEF SendInv, SendTypes
      <2> QED BY <1>1, <1>3, <2>1, <2>2, <2>3
<1>4. CASE page # {}
      <2> DEFINE S == {m.seq : m \in page}
      <2>1. S \in SUBSET Nat /\ S # {} /\ \A s \in S : s <= lastSeq
            BY <1>2, <1>4
      <2>2. \E s \in S : \A t \in S : t <= s
            BY <2>1, GreatestExists DEF SendInv, SendTypes
      <2>3. end \in S /\ \A m \in page : m.seq <= end
            BY <1>4, <2>2 DEF EndOf
      <2>4. PICK k \in page : k.seq = end
            BY <2>3
      <2>5. \A n \in ms : n.seq <= end => n \in page
            BY <1>2, <2>4, OldestIsClosed
      <2>6. page = {m \in messages : seq < m.seq /\ m.seq <= end}
            BY <1>2, <2>3, <2>5
      <2>7. end \in seq..lastSeq
            BY <1>2, <2>4 DEF SendInv, SendTypes
      <2> QED BY <1>1, <2>6, <2>7
<1> QED BY <1>3, <1>4

\* The first page ends at the last message.
LEMMA FirstPageEnds ==
  ASSUME SendInv
  PROVE  EndOf(Before(lastSeq + 1).page, 0) = lastSeq
<1> DEFINE page == Before(lastSeq + 1).page
           next == Before(lastSeq + 1).next
<1>1. /\ lastSeq \in Nat /\ next \in Nat /\ next <= lastSeq
      /\ page = {m \in messages : next <= m.seq /\ m.seq < lastSeq + 1}
      BY BeforeIsInterval DEF SendInv, SendTypes
<1>2. \A m \in page : m.seq \in 1..lastSeq
      BY <1>1 DEF SendInv, SeqIsTimeline
<1>3. CASE page = {}
      <2>1. lastSeq = 0
            <3> SUFFICES ASSUME lastSeq # 0 PROVE FALSE
                OBVIOUS
            <3>1. PICK m \in messages : m.seq = lastSeq
                  BY <1>1 DEF SendInv, SeqIsTimeline
            <3> QED BY <1>1, <1>3, <3>1
      <2> QED BY <1>3, <2>1 DEF EndOf
<1>4. CASE page # {}
      <2>1. lastSeq \in 1..lastSeq
            BY <1>1, <1>2, <1>4
      <2>2. PICK m \in messages : m.seq = lastSeq
            BY <2>1 DEF SendInv, SeqIsTimeline
      <2>3. m \in page
            BY <1>1, <2>2
      <2> DEFINE S == {k.seq : k \in page}
                 end == CHOOSE s \in S : \A k \in page : k.seq <= s
      <2>4. \E s \in S : \A k \in page : k.seq <= s
            BY <1>2, <2>2, <2>3
      <2>5. end \in S /\ \A k \in page : k.seq <= end
            BY <2>4
      <2>6. end = lastSeq
            BY <1>1, <1>2, <2>2, <2>3, <2>5
      <2> QED BY <1>4, <2>6 DEF EndOf
<1> QED BY <1>3, <1>4

-----------------------------------------------------------------------------
(* The reader.                                                             *)

\* What the reader has seen lies between its cursors, which lie in the timeline.
ReaderInv ==
  /\ top \in Nat /\ low \in Nat /\ seen \subseteq messages
  /\ low <= top /\ top <= lastSeq
  /\ NothingMissed

\* A step of a writer: a message that becomes visible is newer than the cursor.
LEMMA WriterStep ==
  ASSUME SendInv, SendInv', ReaderInv, UNCHANGED readerVars,
         messages \subseteq messages', lastSeq <= lastSeq',
         \A m \in messages' : m \in messages \/ m.seq > lastSeq
  PROVE  ReaderInv'
<1>1. top' \in Nat /\ low' \in Nat /\ seen' \subseteq messages' /\ low' <= top' /\ top' <= lastSeq'
      BY DEF ReaderInv, readerVars, SendInv, SendTypes
<1>2. ASSUME top > 0 PROVE {m \in messages' : low <= m.seq /\ m.seq <= top} = seen
      <2>1. \A m \in messages' : m.seq \in Nat
            BY DEF SendInv, SendTypes, Message
      <2>2. \A m \in messages' : m.seq <= top => m \in messages
            BY <2>1 DEF ReaderInv, SendInv, SendTypes
      <2>3. seen = {m \in messages : low <= m.seq /\ m.seq <= top}
            BY <1>2 DEF ReaderInv, NothingMissed
      <2> QED BY <2>2, <2>3
<1>3. NothingMissed'
      BY <1>2 DEF NothingMissed, readerVars
<1> QED BY <1>1, <1>3 DEF ReaderInv

LEMMA ReaderNext == SendInv /\ SendInv' /\ ReaderInv /\ [Next]_vars => ReaderInv'
<1> SUFFICES ASSUME SendInv, SendInv', ReaderInv, [Next]_vars PROVE ReaderInv'
    OBVIOUS
<1> USE DEF ReaderInv
<1>1. ASSUME NEW c \in Clients, Commit(c) PROVE ReaderInv'
      <2>1. draft[c].seq = lastSeq + 1 /\ lastSeq \in Nat
            BY <1>1 DEF Commit, SendInv, SendTypes, Drafted
      <2> QED BY <1>1, <2>1, WriterStep DEF Commit
<1>2. CASE UNCHANGED <<messages, lastSeq, readerVars>>
      <2>1. lastSeq <= lastSeq'
            BY <1>2 DEF SendInv, SendTypes
      <2> QED BY <1>2, <2>1, WriterStep
<1>3. ASSUME NEW c \in Clients, Send(c) \/ TxStep(c) \/ Rollback(c) PROVE ReaderInv'
      <2>1. CASE Commit(c)
            BY <1>1, <2>1
      <2>2. CASE Send(c) \/ OpenConversation(c) \/ LockConversation(c) \/ FindEarlier(c)
                 \/ InsertMessage(c) \/ Rollback(c)
            <3>1. UNCHANGED <<messages, lastSeq, readerVars>>
                  BY <2>2 DEF Send, OpenConversation, LockConversation, FindEarlier,
                              InsertMessage, Rollback, tableVars
            <3> QED BY <1>2, <3>1
      <2> QED BY <1>3, <2>1, <2>2 DEF TxStep
<1>4. ASSUME NEW u \in Marking, MarkRead(u) \/ \E seq \in 1..(lastSeq + 1) : MarkReadStart(u, seq)
      PROVE  ReaderInv'
      BY <1>2, <1>4 DEF MarkRead, MarkReadStart, tableVars
<1>5. CASE Tick \/ UNCHANGED vars
      BY <1>2, <1>5 DEF Tick, vars, tableVars
<1>6. lastSeq \in Nat /\ \A m \in messages : m.seq \in 1..lastSeq
      BY DEF SendInv, SendTypes, SeqIsTimeline
<1>7. CASE OpenChat
      <2> DEFINE r == Before(lastSeq + 1)
      <2>1. /\ r.next \in Nat /\ r.next <= lastSeq
            /\ r.page = {m \in messages : r.next <= m.seq /\ m.seq < lastSeq + 1}
            BY <1>6, BeforeIsInterval
      <2>2. EndOf(r.page, 0) = lastSeq
            BY FirstPageEnds
      <2>3. /\ UNCHANGED <<messages, lastSeq>> /\ seen' = r.page /\ low' = r.next
            /\ top' = lastSeq
            BY <1>7, <2>2 DEF OpenChat, tableVars
      <2> HIDE DEF r
      <2>4. NothingMissed'
            BY <1>6, <2>1, <2>3 DEF NothingMissed
      <2> QED BY <1>6, <2>1, <2>3, <2>4
<1>8. CASE Poll
      <2> DEFINE end == EndOf(After(top), top)
      <2>1. /\ end \in top..lastSeq
            /\ After(top) = {m \in messages : top < m.seq /\ m.seq <= end}
            BY AfterIsInterval
      <2>2. /\ UNCHANGED <<messages, lastSeq, low>> /\ top > 0
            /\ seen' = seen \cup After(top) /\ top' = end
            BY <1>8 DEF Poll, tableVars
      <2> HIDE DEF end
      <2>3. seen = {m \in messages : low <= m.seq /\ m.seq <= top}
            BY <2>2 DEF NothingMissed
      <2>4. seen' = {m \in messages : low <= m.seq /\ m.seq <= end}
            BY <1>6, <2>1, <2>2, <2>3
      <2> QED BY <1>6, <2>1, <2>2, <2>4 DEF NothingMissed
<1>9. CASE ScrollBack
      <2> DEFINE r == Before(low)
      <2>1. /\ r.next \in Nat /\ (r.next = 0 \/ r.next < low)
            /\ r.page = {m \in messages : r.next <= m.seq /\ m.seq < low}
            BY BeforeIsInterval
      <2>2. /\ UNCHANGED <<messages, lastSeq, top>> /\ low > 0
            /\ seen' = seen \cup r.page /\ low' = r.next
            BY <1>9 DEF ScrollBack, tableVars
      <2> HIDE DEF r
      <2>3. seen = {m \in messages : low <= m.seq /\ m.seq <= top}
            BY <2>2 DEF NothingMissed
      <2>4. seen' = {m \in messages : r.next <= m.seq /\ m.seq <= top}
            BY <1>6, <2>1, <2>2, <2>3
      <2> QED BY <1>6, <2>1, <2>2, <2>4 DEF NothingMissed
<1> QED BY <1>3, <1>4, <1>5, <1>7, <1>8, <1>9 DEF Next

LEMMA ReaderSafe == Spec => []ReaderInv
<1>1. Init => ReaderInv
      BY DEF Init, ReaderInv, NothingMissed
<1>2. SendInv /\ SendInv' /\ ReaderInv /\ [Next]_vars => ReaderInv'
      BY ReaderNext
<1> QED BY <1>1, <1>2, SendSafe, PTL DEF Spec

-----------------------------------------------------------------------------
(* The results.                                                            *)

\* The variables keep their types, and no member has read past the last message.
THEOREM TypeCorrect == Spec => []TypeOK
<1>1. SendInv /\ ReaderInv => TypeOK
      BY DEF SendInv, SendTypes, ReaderInv, TypeOK
<1> QED BY <1>1, SendSafe, ReaderSafe, PTL

\* Whatever the senders' interleaving, rollbacks and lost answers, the committed
\* messages carry the seqs 1..last_seq once each, in created_at order.
THEOREM SeqIsTimelineHolds == Spec => []SeqIsTimeline
<1>1. SendInv => SeqIsTimeline
      BY DEF SendInv
<1> QED BY <1>1, SendSafe, PTL

\* A sender's Idempotency-Key stores at most one message.
THEOREM OncePerKeyHolds == Spec => []OncePerKey
<1>1. SendInv => OncePerKey
      BY DEF SendInv
<1> QED BY <1>1, SendSafe, PTL

\* The seq a client is told, fresh or replayed, is its sender's message with its
\* content.
THEOREM AnswerIsStoredHolds == Spec => []AnswerIsStored
<1>1. SendInv => AnswerIsStored
      BY DEF SendInv
<1> QED BY <1>1, SendSafe, PTL

\* A reader that follows the cursors of GetMessages misses no message between them,
\* for every page size.
THEOREM NothingMissedHolds == Spec => []NothingMissed
<1>1. ReaderInv => NothingMissed
      BY DEF ReaderInv
<1> QED BY <1>1, ReaderSafe, PTL

\* A read position only moves forward, and never past the last message, although
\* SendMessage overwrites the sender's and MarkRead clamps to a stale last_seq.
THEOREM ReadForwardHolds == Spec => ReadForward
<1>1. SendInv /\ SendInv' /\ [Next]_vars
        => [\A u \in Users : read[u] <= read'[u] /\ read'[u] <= lastSeq']_vars
      <2> SUFFICES ASSUME SendInv, SendInv', [Next]_vars, NEW u \in Users
                   PROVE  read[u] <= read'[u] /\ read'[u] <= lastSeq'
          OBVIOUS
      <2>1. read[u] \in Nat /\ read'[u] \in Nat /\ read'[u] <= lastSeq' /\ read[u] <= lastSeq
            BY DEF SendInv, SendTypes
      <2>2. CASE UNCHANGED read
            BY <2>1, <2>2
      <2>3. ASSUME NEW c \in Clients, Commit(c) PROVE read[u] <= read'[u]
            <3>1. /\ draft[c].seq = lastSeq + 1 /\ lastSeq \in Nat
                  /\ read' = [read EXCEPT ![Sender[c]] = draft[c].seq]
                  BY <2>3 DEF Commit, SendInv, SendTypes, Drafted
            <3> QED BY <2>1, <3>1 DEF SendInv, SendTypes
      <2>4. ASSUME NEW v \in Users, MarkRead(v) PROVE read[u] <= read'[u]
            <3>1. read' = [read EXCEPT ![v] = GreatestOf(@, LeastOf(want[v], snap[v]))]
                  BY <2>4 DEF MarkRead
            <3>2. want[v] \in Nat /\ snap[v] \in Int /\ read[v] \in Nat
                  BY DEF SendInv, SendTypes
            <3>3. read[v] <= GreatestOf(read[v], LeastOf(want[v], snap[v]))
                  BY <3>2 DEF GreatestOf, LeastOf
            <3> QED BY <2>1, <3>1, <3>3 DEF SendInv, SendTypes
      <2>5. CASE \E c \in Clients : Send(c) \/ TxStep(c) \/ Rollback(c)
            <3> PICK c \in Clients : Send(c) \/ TxStep(c) \/ Rollback(c)
                BY <2>5
            <3> QED BY <2>1, <2>2, <2>3
                    DEF TxStep, Send, OpenConversation, LockConversation, FindEarlier,
                        InsertMessage, Rollback, tableVars
      <2>6. CASE \E v \in Marking : MarkRead(v) \/ \E seq \in 1..(lastSeq + 1) : MarkReadStart(v, seq)
            BY <2>1, <2>2, <2>4, <2>6, BoundsAssumption
               DEF BoundsAssumption, MarkReadStart, tableVars
      <2>7. CASE OpenChat \/ Poll \/ ScrollBack \/ Tick \/ UNCHANGED vars
            BY <2>1, <2>2, <2>7 DEF OpenChat, Poll, ScrollBack, Tick, vars, tableVars
      <2> QED BY <2>1, <2>5, <2>6, <2>7 DEF Next
<1> QED BY <1>1, SendSafe, PTL DEF Spec, ReadForward
=============================================================================
