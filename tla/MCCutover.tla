----------------------------- MODULE MCCutover ------------------------------
(* A small legacy store with the anomalies of legacyStore() in             *)
(* cmd/backfill/backfill_test.go.                                          *)
EXTENDS Cutover

CONSTANTS migrate, copy1, copy2

\* The migrate job brings an edited second file.
TwoImages == [j \in Jobs |-> IF j = migrate THEN <<1, 3>> ELSE <<1, 2>>]

Store == <<
  \* a user without a password, a self-follow, a notification
  [kind |-> "users", row |-> "broken", refs |-> {}],
  [kind |-> "follows", row |-> "self", refs |-> {}],
  [kind |-> "notifications", row |-> "n", refs |-> {}],
  \* posts: event still pending; pending and deleted
  [kind |-> "posts", row |-> "p", refs |-> {}],
  [kind |-> "posts", row |-> "q", refs |-> {}],
  \* a like stored twice, and one on a post that is gone; a share
  [kind |-> "likes", row |-> "l", refs |-> {"p"}],
  [kind |-> "likes", row |-> "l", refs |-> {"p"}],
  [kind |-> "likes", row |-> "orphan", refs |-> {"gone"}],
  [kind |-> "shares", row |-> "s", refs |-> {"q"}],
  \* a reply and its parent
  [kind |-> "comments", row |-> "reply", refs |-> {"p", "top"}],
  [kind |-> "comments", row |-> "top", refs |-> {"p"}],
  \* two conversations; the third message of the first comes late
  [kind |-> "messages", row |-> "m1", refs |-> {}],
  [kind |-> "messages", row |-> "m2", refs |-> {}],
  [kind |-> "messages", row |-> "m3", refs |-> {}],
  [kind |-> "messages", row |-> "m4", refs |-> {}] >>

AllDocs == DOMAIN Store
KindOf == [d \in AllDocs |-> Store[d].kind]
RowFor == [d \in AllDocs |-> Store[d].row]
RefsOf == [d \in AllDocs |-> Store[d].refs]
ReadableDocs == AllDocs \ {1}
LegalDocs == AllDocs \ {2}
PendingPosts == {4, 5}
DeletedPosts == {5}
DepthOf == [d \in AllDocs |-> IF d = 10 THEN 1 ELSE 0]
ConvOf == [d \in AllDocs |-> IF d = 15 THEN 2 ELSE 1]
\* The first message is the latest, the late one the earliest; the second
\* conversation has no times.
TimeOf == [d \in AllDocs |-> IF d = 15 THEN 0 ELSE 20 - d]
LateDocs == {14}
=============================================================================
