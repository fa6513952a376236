------------------------------ MODULE MCFanOut ------------------------------
(* Values for the constants of FanOut, to be used by the .cfg files.       *)
EXTENDS FanOut

CONSTANT w1
ThreeUsers == {1, 2, 3}
\* 1 and 2 follow from the start, since the same time: two backfilled rows.
TwoFollow == <<1, 1, 0>>
OneWorker == {w1}
TwoPosts == {1, 2}
\* The second post has no CreatedAt.
OneDated == <<2, 0>>
=============================================================================
