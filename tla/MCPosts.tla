------------------------------- MODULE MCPosts -------------------------------
(* Constants for model checking Posts.                                      *)
EXTENDS Posts

CONSTANTS p1, p2, k1, k2, i1
TwoPosts == {p1, p2}
TwoCleaners == {k1, k2}
OneInstance == {i1}
=============================================================================
