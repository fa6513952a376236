------------------------------ MODULE MCCounter ------------------------------
(* Constants for model checking Counter.                                    *)
EXTENDS Counter

CONSTANTS u1, u2, u3, f1, f2, r1
ThreeUsers == {u1, u2, u3}
TwoFlushers == {f1, f2}
OneReconciler == {r1}
=============================================================================
