----------------------------- MODULE MCHomeFeed -----------------------------
(* Values for the constants of HomeFeed, to be used by the .cfg files.     *)
EXTENDS HomeFeed

CONSTANTS ann, star
FourPosts == 1..4
\* The two newest posts share their second.
NewestTied == [p \in Posts |-> IF p <= 2 THEN p ELSE 3]
AnnWroteAll == [p \in Posts |-> ann]
Both == {ann, star}
Star == {star}
Newest == {4}
=============================================================================
