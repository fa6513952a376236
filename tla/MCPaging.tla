----------------------------- MODULE MCPaging -------------------------------
(* Constants for model checking Paging.                                    *)
EXTENDS Paging

CONSTANTS ann, star

FivePosts == 1..5
\* The two oldest posts have no created_at, the next two share a second with what
\* the worker's clock says, the newest has one of its own.
Ties == <<0, 0, 1, 1, 2>>
StarWroteThree == [p \in Posts |-> IF p <= 3 THEN star ELSE ann]
Both == {ann, star}
Star == {star}
Newest == {5}
\* The first comment, in the order of the ids, replies to the second, so the
\* third can overtake the second one when both are being written.
ReplyToSecond == [i \in Items |-> IF i = 1 THEN 2 ELSE 0]
Clocks == [l \in Lists |-> IF l = "comments" THEN 5 ELSE 3]
=============================================================================
