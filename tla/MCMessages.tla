----------------------------- MODULE MCMessages -----------------------------
(* Constants for model checking Messages: two sends of alice that share a   *)
(* key, the second with another text, and a send of bob without a key; each *)
(* is repeated when it is not answered.                                     *)
EXTENDS Messages

CONSTANTS alice, bob, c1, c2, c3
TwoUsers == {alice, bob}
ThreeClients == {c1, c2, c3}
BySender == [c \in ThreeClients |-> IF c = c3 THEN bob ELSE alice]
ByKey == [c \in ThreeClients |-> IF c = c3 THEN "none" ELSE "k"]
OtherText == [c \in ThreeClients |-> IF c = c2 THEN "bye" ELSE "hello"]
=============================================================================
