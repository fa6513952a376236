-------------------------- MODULE MCNotifications ---------------------------
(* Constants for model checking Notifications: two posts, one worker each;  *)
(* the first post is liked by another user and by its owner.                *)
EXTENDS Notifications

CONSTANTS w1, w2

TwoWorkers == {w1, w2}
ByPost == [o \in Offsets |-> IF o = 2 THEN "post2" ELSE "post1"]
ByHash == [o \in Offsets |-> IF o = 2 THEN w2 ELSE w1]
EveryKind == [o \in Offsets |-> IF o = 1 THEN "like" ELSE IF o = 2 THEN "bad" ELSE "self"]
ByPostAndLiker == [o \in Offsets |-> o]
=============================================================================
