--------------------------- MODULE MCIdempotency ---------------------------
(* Constants for model checking Idempotency.                                *)
EXTENDS Idempotency

CONSTANTS a1, a2, a3
Three == {a1, a2, a3}
OneOtherBody == [r \in Three |-> IF r = a3 THEN "c" ELSE "b"]
=============================================================================
