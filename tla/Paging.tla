------------------------------- MODULE Paging -------------------------------
(***************************************************************************)
(* A client of the public API pages through one of its list endpoints: the *)
(* home feed (HomeFeed, list = "home") or one of the keyset lists (Lists). *)
(***************************************************************************)
EXTENDS HomeFeed, Lists

PagingInit == Init /\ ListInit

ReadsHome == list = "home" /\ Next /\ UNCHANGED listVars
ReadsList == list # "home" /\ ListNext /\ UNCHANGED vars

PagingSpec == PagingInit /\ [][ReadsHome \/ ReadsList]_<<vars, listVars>>
=============================================================================
