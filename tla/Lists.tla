------------------------------- MODULE Lists --------------------------------
(***************************************************************************)
(* The lists that are paged by a keyset on one table, and the writes that  *)
(* change them meanwhile:                                                  *)
(*   "comments"  ListComments, AddComment (services/post/service/          *)
(*               comments.go), oldest first;                               *)
(*   "follows"   Followers and Following, AddFollow, RemoveFollow          *)
(*               (shared/socialgraph, services/social/service/follow.go),  *)
(*               newest first;                                             *)
(*   "inbox"     ListConversations, SendMessage (services/message/service/ *)
(*               message.go), most recently active first.                  *)
(* One client reads one of them, page after page.                          *)
(*                                                                         *)
(* Time is what the database's clock shows: a write takes its time when it *)
(* starts and becomes visible when it commits, so writes become visible    *)
(* out of time order; a write that starts after another one committed has  *)
(* a later time.  A cursor is the key itself: Encode and Decode of         *)
(* shared/pagecursor lose nothing of it.  A page that fails is asked for   *)
(* again and changes nothing.                                              *)
(***************************************************************************)
EXTENDS Integers, FiniteSets

CONSTANTS
  Lists,     \* the lists to read
  Items,     \* ids of comments, users or conversations, in their order
  Parent,    \* Parent[i]: the comment i replies to, 0: none
  PageSize,  \* limit, after pagecursor.Limit
  MaxClock   \* MaxClock[l], bound: writes to l are started until then

ASSUME ItemsAssumption ==
  /\ Items \subseteq Nat \ {0} /\ Parent \in [Items -> Items \cup {0}]
  /\ PageSize \in Nat \ {0} /\ MaxClock \in [Lists -> Nat]

VARIABLES
  list,      \* the list that is read
  live,      \* the post of the comments is not deleted
  clock,
  key,       \* key[i]: created_at or last_message_at of i, 0: not in the list
  writing,   \* writing[i]: time of the open write of i, 0: none
  late,      \* history: items that became visible after one behind them had
  lpc,       \* the client: "first", "idle", "query", "end", "gone"
  after,     \* its cursor, a position
  listed,    \* listed[i]: how often i was returned
  expected   \* history: what the client has a right to see

contentVars == <<live, clock, key, writing, late>>
clientVars == <<lpc, after, listed, expected>>
listVars == <<list, contentVars, clientVars>>

NoPosition == <<0, 0>>
Members == {i \in Items : key[i] # 0}
Pos(i) == <<key[i], i>>

ListInit ==
  /\ list \in Lists
  /\ live = TRUE /\ clock = 1
  /\ key = [i \in Items |-> 0] /\ writing = [i \in Items |-> 0] /\ late = {}
  /\ lpc = "first" /\ after = NoPosition
  /\ listed = [i \in Items |-> 0] /\ expected = {}

Lower(a, b) == a[1] < b[1] \/ (a[1] = b[1] /\ a[2] < b[2])

\* Mutant: ordered by id.
PrecedesById(a, b) == IF list = "comments" THEN a[2] < b[2] ELSE b[2] < a[2]

\* ORDER BY of the three queries.
Precedes(a, b) == IF list = "comments" THEN Lower(a, b) ELSE Lower(b, a)

-----------------------------------------------------------------------------
(* The writers.                                                            *)

\* AddComment on a live post, to a comment that is there; AddFollow of a user
\* who is not followed; SendMessage in any conversation, under its row lock.
StartWrite(i) ==
  /\ clock <= MaxClock[list] /\ writing[i] = 0
  /\ list = "comments" => live /\ key[i] = 0 /\ (Parent[i] = 0 \/ Parent[i] \in Members)
  /\ list = "follows" => key[i] = 0
  /\ writing' = [writing EXCEPT ![i] = clock]
  /\ UNCHANGED <<list, live, clock, key, late, clientVars>>

\* An item that moves is no longer where the client would have met it.
Commit(i) ==
  /\ writing[i] # 0
  /\ key' = [key EXCEPT ![i] = writing[i]]
  /\ late' = IF \E j \in Members : Lower(<<writing[i], i>>, Pos(j))
               THEN late \cup {i} ELSE late
  /\ writing' = [writing EXCEPT ![i] = 0]
  /\ clock' = clock + 1
  /\ expected' = expected \ {i}
  /\ UNCHANGED <<list, live, lpc, after, listed>>

Rollback(i) ==
  /\ writing[i] # 0
  /\ writing' = [writing EXCEPT ![i] = 0]
  /\ UNCHANGED <<list, live, clock, key, late, clientVars>>

RemoveFollow(i) ==
  /\ list = "follows" /\ i \in Members
  /\ key' = [key EXCEPT ![i] = 0]
  /\ expected' = expected \ {i}
  /\ UNCHANGED <<list, live, clock, writing, late, lpc, after, listed>>

HidePost ==
  /\ list = "comments" /\ live
  /\ live' = FALSE
  /\ UNCHANGED <<list, clock, key, writing, late, clientVars>>

-----------------------------------------------------------------------------
(* The client.                                                             *)

\* postOwner, for comments only.
CheckPost ==
  /\ lpc \in {"first", "idle"}
  /\ lpc' = IF list = "comments" /\ ~live THEN "gone" ELSE "query"
  /\ UNCHANGED <<list, contentVars, after, listed, expected>>

\* Mutant: the cursor is the time alone.
BehindTime(c) == {i \in Members : c # NoPosition => Precedes(<<c[1], 0>>, <<key[i], 0>>)}

\* (created_at, id) beyond the cursor.
Behind(c) == {i \in Members : c # NoPosition => Precedes(c, Pos(i))}

First(n, S) == {i \in S : Cardinality({j \in S : Precedes(Pos(j), Pos(i))}) < n}

\* One query for limit + 1 rows; the extra one tells that there is a next page.
QueryPage ==
  LET got == First(PageSize + 1, Behind(after))
      items == First(PageSize, got)
  IN  /\ lpc = "query"
      /\ listed' = [i \in Items |-> IF i \in items THEN listed[i] + 1 ELSE listed[i]]
      /\ \/ /\ got = items
            /\ lpc' = "end" /\ UNCHANGED after
         \/ /\ got # items
            /\ lpc' = "idle"
            /\ \E i \in items : /\ \A j \in items : j = i \/ Precedes(Pos(j), Pos(i))
                                /\ after' = Pos(i)
      /\ expected' = IF list = "comments" THEN expected \cup (Members \ late)
                     ELSE IF after = NoPosition THEN Members ELSE expected
      /\ UNCHANGED <<list, contentVars>>

ListNext ==
  \/ \E i \in Items : StartWrite(i) \/ Commit(i) \/ Rollback(i) \/ RemoveFollow(i)
  \/ HidePost \/ CheckPost \/ QueryPage

ListSpec == ListInit /\ [][ListNext]_listVars

-----------------------------------------------------------------------------
(* What makes a list right.                                                *)

\* "OFFSET ... repeats or skips items" (pagecursor.go:3-6) and the keyset does
\* not: nothing is returned twice, also when it is unfollowed and followed, or
\* moves to the top of the inbox, between two pages; and what was in the list on
\* the first page and has not moved or left, or is a comment that was there when
\* some page was read, has been returned once the cursor is past it.  Left out
\* are comments that became visible after a later one (late): for them the key
\* of the list is not the order of the commits.
ListedOnce ==
  \A i \in Items :
    /\ listed[i] <= 1
    /\ i \in expected /\ listed[i] = 0 =>
         lpc # "end" /\ (after # NoPosition => Precedes(after, Pos(i)))

\* "In the order they were written" (comments.go:74): a reply is returned after
\* the comment it answers or next to it on the same page, never without it, as
\* long as that comment did not become visible late.
RepliesFollow ==
  list = "comments" => \A i \in Items :
    listed[i] > 0 /\ Parent[i] # 0 =>
      /\ Lower(Pos(Parent[i]), Pos(i))
      /\ listed[Parent[i]] > 0 \/ Parent[i] \in late
=============================================================================
