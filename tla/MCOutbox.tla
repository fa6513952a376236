------------------------------ MODULE MCOutbox ------------------------------
(* Constants for model checking Outbox.                                    *)
EXTENDS Outbox, TLC

Perms == Permutations(Relays)

TwoEvents == 1..2
=============================================================================
