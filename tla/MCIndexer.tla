------------------------------ MODULE MCIndexer ------------------------------
(* Constants for model checking Indexer: one post, three callers of Sync.   *)
EXTENDS Indexer

CONSTANTS w1
OneWorker == {w1}
BothJobs == {"repair", "reindex"}
OldPosts == {1}
=============================================================================
