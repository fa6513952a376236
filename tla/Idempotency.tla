----------------------------- MODULE Idempotency -----------------------------
(***************************************************************************)
(* Retries of one POST with one Idempotency-Key: Begin, Complete and       *)
(* Release of shared/idempotency/idempotency.go around the handler         *)
(* function, as withIdempotency of services/post/handler/post.go calls     *)
(* them.  One step per Redis call and one for the handler function.        *)
(*                                                                         *)
(* A request is one HTTP attempt; the attempts of a client share the key   *)
(* and reach any instance, one after the other or at the same time.        *)
(***************************************************************************)
EXTENDS Naturals, FiniteSets

CONSTANTS
  Attempts, Body,   \* the attempts, and the fingerprint of each one's body
  MaxKeyFailures,   \* bound: failures, and results that expire
  MaxPosts          \* bound: posts stored for one body

ASSUME KeyBoundsAssumption == MaxKeyFailures \in Nat /\ MaxPosts \in Nat

\* After these the key does not protect: Redis took no claim or no result, the
\* post is stored although the handler reports an error, the handler outlives
\* LockTTL, the process dies before the result is recorded, ResultTTL has passed.
Unprotecting == {"claim", "store", "fnLost", "slow", "crashUnrecorded", "resultExpired"}

\* After these it does.  "crash": the process dies at any other step.
Harmless == {"get", "fn", "release", "crash"}

Bodies == {Body[r] : r \in Attempts}
NoPost == <<"", 0>>
Absent == [state |-> "absent", fp |-> "", post |-> NoPost]

VARIABLES
  entry,       \* the Redis value under the key
  step,        \* step of a request
  guarded,     \* Begin gave the request the claim
  status,      \* what fn returned to it: "", "ok", "failed"
  post,        \* the post_id fn returned to it
  posts,       \* stored posts: <<body, n>> is the n-th with that body
  reply,       \* the response: kind and the post it names
  keyFailures  \* history: how many failures, and the unprotecting kinds

keyVars == <<entry, step, guarded, status, post, posts, reply, keyFailures>>

NoReply == [kind |-> "none", post |-> NoPost]

KeyInit ==
  /\ entry = Absent
  /\ step = [r \in Attempts |-> "new"]
  /\ guarded = [r \in Attempts |-> FALSE]
  /\ status = [r \in Attempts |-> ""]
  /\ post = [r \in Attempts |-> NoPost]
  /\ posts = {}
  /\ reply = [r \in Attempts |-> NoReply]
  /\ keyFailures = [n |-> 0, kinds |-> {}]

KeyFails(kind) ==
  /\ kind \in Unprotecting \cup Harmless /\ keyFailures.n < MaxKeyFailures
  /\ keyFailures' = [n |-> keyFailures.n + 1,
                     kinds |-> keyFailures.kinds \cup ({kind} \cap Unprotecting)]

StepTo(r, s) == step' = [step EXCEPT ![r] = s]

Answer(r, kind, p) ==
  /\ reply' = [reply EXCEPT ![r] = [kind |-> kind, post |-> p]]
  /\ StepTo(r, "end")

-----------------------------------------------------------------------------
(* Begin.                                                                  *)

\* Mutant: SET instead of SET NX.
ClaimAlways(r) ==
  /\ step[r] = "new"
  /\ entry' = [state |-> "running", fp |-> Body[r], post |-> NoPost]
  /\ guarded' = [guarded EXCEPT ![r] = TRUE]
  /\ StepTo(r, "fn")
  /\ UNCHANGED <<status, post, posts, reply, keyFailures>>

\* SET NX of the claim.  Without Redis the request is served unprotected.
Claim(r) ==
  /\ step[r] = "new"
  /\ \/ /\ entry = Absent
        /\ entry' = [state |-> "running", fp |-> Body[r], post |-> NoPost]
        /\ guarded' = [guarded EXCEPT ![r] = TRUE]
        /\ StepTo(r, "fn") /\ UNCHANGED keyFailures
     \/ entry # Absent /\ StepTo(r, "get") /\ UNCHANGED <<entry, guarded, keyFailures>>
     \/ KeyFails("claim") /\ StepTo(r, "fn") /\ UNCHANGED <<entry, guarded>>
  /\ UNCHANGED <<status, post, posts, reply>>

\* Mutant: the fingerprint is not compared.
GetAnyBody(r) ==
  /\ step[r] = "get"
  /\ IF entry.state = "done" THEN Answer(r, "replay", entry.post) ELSE Answer(r, "409", NoPost)
  /\ UNCHANGED <<entry, guarded, status, post, posts, keyFailures>>

\* GET of the other request's entry, which may have expired meanwhile.
Get(r) ==
  /\ step[r] = "get"
  /\ \/ UNCHANGED keyFailures
        /\ \/ entry = Absent /\ Answer(r, "409", NoPost)
           \/ entry # Absent /\ entry.fp # Body[r] /\ Answer(r, "422", NoPost)
           \/ entry.state = "done" /\ entry.fp = Body[r] /\ Answer(r, "replay", entry.post)
           \/ entry.state = "running" /\ entry.fp = Body[r] /\ Answer(r, "409", NoPost)
     \/ KeyFails("get") /\ Answer(r, "409", NoPost)
  /\ UNCHANGED <<entry, guarded, status, post, posts>>

-----------------------------------------------------------------------------
(* The handler function and what is recorded of it.                        *)

\* fn stores a post with a fresh post_id.
SavePost(r) ==
  LET n == Cardinality({p \in posts : p[1] = Body[r]}) + 1
  IN  /\ n <= MaxPosts
      /\ posts' = posts \cup {<<Body[r], n>>}
      /\ post' = [post EXCEPT ![r] = <<Body[r], n>>]

Run(r) ==
  /\ step[r] = "fn"
  /\ \/ SavePost(r) /\ status' = [status EXCEPT ![r] = "ok"] /\ UNCHANGED keyFailures
     \/ KeyFails("fn") /\ status' = [status EXCEPT ![r] = "failed"] /\ UNCHANGED <<post, posts>>
     \/ KeyFails("fnLost") /\ status' = [status EXCEPT ![r] = "failed"] /\ SavePost(r)
  /\ StepTo(r, IF guarded[r] THEN "record" ELSE "respond")
  /\ UNCHANGED <<entry, guarded, reply>>

\* 2xx: SET of the response, whatever is under the key now.
Complete(r) ==
  /\ step[r] = "record" /\ status[r] = "ok"
  /\ \/ entry' = [state |-> "done", fp |-> Body[r], post |-> post[r]] /\ UNCHANGED keyFailures
     \/ KeyFails("store") /\ UNCHANGED entry
  /\ StepTo(r, "respond")
  /\ UNCHANGED <<guarded, status, post, posts, reply>>

\* Otherwise: DEL of the key, whoever claims it now.
Release(r) ==
  /\ step[r] = "record" /\ status[r] = "failed"
  /\ \/ entry' = Absent /\ UNCHANGED keyFailures
     \/ KeyFails("release") /\ UNCHANGED entry
  /\ StepTo(r, "respond")
  /\ UNCHANGED <<guarded, status, post, posts, reply>>

Respond(r) ==
  /\ step[r] = "respond"
  /\ IF status[r] = "ok" THEN Answer(r, "201", post[r]) ELSE Answer(r, "500", NoPost)
  /\ UNCHANGED <<entry, guarded, status, post, posts, keyFailures>>

Crash(r) ==
  /\ step[r] # "end"
  /\ KeyFails(IF step[r] = "record" THEN "crashUnrecorded" ELSE "crash")
  /\ Answer(r, "lost", NoPost)
  /\ UNCHANGED <<entry, guarded, status, post, posts>>

\* Mutant: the claim is stored without an expiry.
ExpireNever == FALSE /\ UNCHANGED keyVars

\* LockTTL passes, which should exceed the handler function.
Working == \E r \in Attempts : guarded[r] /\ step[r] \in {"fn", "record"}

Expire ==
  /\ entry.state = "running"
  /\ IF Working THEN KeyFails("slow") ELSE UNCHANGED keyFailures
  /\ entry' = Absent
  /\ UNCHANGED <<step, guarded, status, post, posts, reply>>

\* ResultTTL passes (24 hours by default): a retry that comes later finds the key
\* free and is served as a new request.
ExpireResult ==
  /\ entry.state = "done"
  /\ KeyFails("resultExpired")
  /\ entry' = Absent
  /\ UNCHANGED <<step, guarded, status, post, posts, reply>>

-----------------------------------------------------------------------------
AttemptStep(r) ==
  Claim(r) \/ Get(r) \/ Run(r) \/ Complete(r) \/ Release(r) \/ Respond(r)

\* The client tries again with the same key: the attempt starts over.
Retry(r) ==
  /\ step[r] = "end" /\ reply[r].kind \in {"409", "500", "lost"}
  /\ StepTo(r, "new")
  /\ guarded' = [guarded EXCEPT ![r] = FALSE]
  /\ status' = [status EXCEPT ![r] = ""] /\ post' = [post EXCEPT ![r] = NoPost]
  /\ reply' = [reply EXCEPT ![r] = NoReply]
  /\ UNCHANGED <<entry, posts, keyFailures>>

KeyNext ==
  \/ \E r \in Attempts : AttemptStep(r) \/ Crash(r) \/ Retry(r)
  \/ Expire \/ ExpireResult

KeySpec == KeyInit /\ [][KeyNext]_keyVars

\* Requests run to their end, claims expire, clients retry.  Nothing is assumed
\* of results: one may expire before the next retry or outlive them all.
KeyFairness ==
  /\ \A r \in Attempts : WF_keyVars(AttemptStep(r)) /\ WF_keyVars(Retry(r))
  /\ WF_keyVars(Expire)

KeyFairSpec == KeySpec /\ KeyFairness

-----------------------------------------------------------------------------
(* What a client can rely on.                                              *)

\* "withIdempotency runs fn at most once per (user, Idempotency-Key header)"
\* (post.go:49), counting the runs that store a post: attempts that race, fail,
\* crash and are repeated leave at most one post under the key, until ResultTTL
\* has passed since the answer was recorded, and unless one of the failures
\* happened after which the key does not protect.
AtMostOnce == keyFailures.kinds = {} => Cardinality(posts) <= 1

\* A success that a client is told, first hand or replayed, names a stored post
\* of its own body: a failed attempt is never replayed, nor the result of
\* another request under the same key (idempotency.go:8-12).
RepliesAreTrue ==
  \A r \in Attempts : reply[r].kind \in {"201", "replay"} =>
    reply[r].post \in posts /\ reply[r].post[1] = Body[r]

\* A client that retries gets a final answer: neither a crashed attempt nor a
\* failed call leaves the key claimed for ever (idempotency.go:56-57).
Settled == \A r \in Attempts : step[r] = "end" /\ reply[r].kind \in {"201", "replay", "422"}
EveryRetrySettles == <>Settled
=============================================================================
