--------------------------- MODULE Notifications ----------------------------
(***************************************************************************)
(* The notification worker: HandlePostLiked of services/notification/      *)
(* worker/notification_worker.go as the handler of the event loop of       *)
(* Consumer, on the topic post.liked with its dead-letter topic            *)
(* (services/notification/main.go).                                        *)
(*                                                                         *)
(* The id of a notification is made of the post and the liker, so an event *)
(* that was published twice, and the event of a like that was taken back   *)
(* and given again, have the id of the first one.                          *)
(***************************************************************************)
EXTENDS Consumer

CONSTANTS
  Id,    \* Id[o]: notification_id of the event at offset o
  Event  \* Event[o]: "like", "self" (the owner's own like) or "bad" (not a
         \* PostLikedEvent)

ASSUME EventAssumption == Event \in [Offsets -> {"like", "self", "bad"}]

VARIABLES
  notice,  \* notice[i]: the row of the table: "none", "unread", "read"
  parked   \* offsets published to the dead-letter topic

tableVars == <<notice, parked>>
notifyVars == <<vars, tableVars>>

Ids == {Id[o] : o \in Offsets}

NotifyInit ==
  /\ Init
  /\ notice = [i \in Ids |-> "none"]
  /\ parked = {}

-----------------------------------------------------------------------------
(* The handler.                                                            *)

\* Mutant: ON CONFLICT DO UPDATE.
Upsert(i) == notice' = [notice EXCEPT ![i] = "unread"]

\* INSERT ... ON CONFLICT DO NOTHING.
Insert(i) == notice' = IF notice[i] = "none" THEN [notice EXCEPT ![i] = "unread"] ELSE notice

\* Mutant: the error of the insert is logged and not returned.
HandlePostLikedAnyway(w) ==
  /\ HandleOk(w) /\ Event[cur[w]] # "bad"
  /\ (Event[cur[w]] = "like" /\ Insert(Id[cur[w]])) \/ UNCHANGED notice
  /\ UNCHANGED parked

HandlePostLiked(w) ==
  /\ HandleOk(w)
  /\ \/ Event[cur[w]] = "self" /\ UNCHANGED notice
     \/ Event[cur[w]] = "like" /\ Insert(Id[cur[w]])
  /\ UNCHANGED parked

\* The value cannot be read; or the insert fails, or its answer is lost.
HandleFails(w) ==
  /\ HandleErr(w)
  /\ \/ Event[cur[w]] # "self" /\ UNCHANGED notice
     \/ Event[cur[w]] = "like" /\ Insert(Id[cur[w]])
  /\ UNCHANGED parked

Park(w) ==
  /\ DlqOk(w)
  /\ parked' = parked \cup {cur[w]}
  /\ UNCHANGED notice

\* Another instance of the worker has the partition.
OtherNotifies ==
  LET o == committed + 1
  IN  /\ OtherHandles
      /\ \/ Event[o] = "self" /\ UNCHANGED <<notice, parked>>
         \/ Event[o] = "like" /\ Insert(Id[o]) /\ UNCHANGED parked
         \/ Event[o] # "self" /\ parked' = parked \cup {o} /\ UNCHANGED notice

\* The owner reads the notification: no endpoint of this repository does it, the
\* column is there for it.
UserReads(i) ==
  /\ notice[i] = "unread"
  /\ notice' = [notice EXCEPT ![i] = "read"]
  /\ UNCHANGED <<vars, parked>>

\* The rest of the loop.
ConsumerOnly ==
  /\ \/ LoopStep \/ CommitStep
     \/ \E w \in Workers : Take(w) \/ DlqErr(w) \/ Done(w)
     \/ Cancel \/ Crash \/ Restart \/ Revoke \/ Assign
  /\ UNCHANGED tableVars

NotifyNext ==
  \/ ConsumerOnly
  \/ \E w \in Workers : HandlePostLiked(w) \/ HandleFails(w) \/ Park(w)
  \/ OtherNotifies
  \/ \E i \in Ids : UserReads(i)

\* As Consumer's Fairness, of this handler.
NotifySpec ==
  /\ NotifyInit /\ [][NotifyNext]_notifyVars
  /\ LoopFairness
  /\ \A w \in Workers : SF_notifyVars(HandlePostLiked(w) \/ Park(w))

-----------------------------------------------------------------------------
(* What makes the worker correct.                                          *)

\* A like whose event is committed, and so never delivered again, has its
\* notification, unless the owner liked the post or the event is in the
\* dead-letter topic: through failed and unanswered inserts, retries, crashes
\* and rebalances no like is lost.
CommittedIsNotified ==
  \A o \in 1..committed : Event[o] = "like" => notice[Id[o]] # "none" \/ o \in parked

\* "A redelivered event neither notifies twice nor marks a read notification
\* unread" (notification_worker.go:26-27), however often and from wherever it
\* comes: once read, a notification stays read.
ReadStaysRead == [][\A i \in Ids : notice[i] = "read" => notice'[i] = "read"]_notifyVars
=============================================================================
