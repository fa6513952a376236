--------------------------- MODULE CutoverProofs ----------------------------
(***************************************************************************)
(* Proofs about the cut-over, for any jobs, any number of migration files  *)
(* and images that agree or not, any legacy store, and any number of       *)
(* failures and repeated runs.                                             *)
(***************************************************************************)
EXTENDS Cutover, FiniteSetTheorems, TLAPS

-----------------------------------------------------------------------------
(* Migrate.                                                                *)

MigrateTypes ==
  /\ lock \in Jobs \cup {NoJob}
  /\ table \in [1..Files -> Nat]
  /\ log \in Seq(1..Files)
  /\ mpc \in [Jobs -> {"off", "lock", "read", "apply", "done", "refused", "clash", "failed"}]
  /\ seen \in [Jobs -> [1..Files -> Nat]]
  /\ at \in [Jobs -> Nat \ {0}]

\* Between its SELECT and its last transaction a job holds the advisory lock.
Alone == \A j \in Jobs : mpc[j] \in {"read", "apply"} => lock = j

\* The loop has compared or applied what is below at[j]; of the rest, what the
\* job read is still what the table holds.
Loop ==
  \A j \in Jobs :
    /\ mpc[j] # "apply" => at[j] = 1
    /\ mpc[j] = "apply" =>
         \A v \in 1..Files : /\ v < at[j] => table[v] = Image[j][v]
                             /\ v >= at[j] => seen[j][v] = table[v]

\* What is applied is a prefix of the files, in their order.
Prefix ==
  /\ \A i \in 1..Len(log) : log[i] = i
  /\ \A v \in 1..Files : table[v] # NotApplied <=> v <= Len(log)

Matches == \A j \in Jobs : mpc[j] = "done" => table = Image[j]

SchemaInv == MigrateTypes /\ Alone /\ Loop /\ Prefix /\ Matches

LEMMA Checksums ==
  /\ Files \in Nat /\ NoJob \notin Jobs
  /\ \A j \in Jobs : /\ Image[j] \in [1..Files -> Nat]
                     /\ \A v \in 1..Files : Image[j][v] \in Nat /\ Image[j][v] # 0
  BY ImageAssumption DEF ImageAssumption, NotApplied

LEMMA SchemaInit == MigrateInit => SchemaInv
  <1> SUFFICES ASSUME MigrateInit PROVE SchemaInv
    OBVIOUS
  <1> USE ImageAssumption DEF ImageAssumption, MigrateInit, Empty, NotApplied
  <1>1. MigrateTypes
    BY DEF MigrateTypes
  <1>2. Alone /\ Loop /\ Matches
    BY DEF Alone, Loop, Matches
  <1>3. Prefix
    BY DEF Prefix
  <1>4. QED
    BY <1>1, <1>2, <1>3 DEF SchemaInv

\* A job that returns, and so loses the lock, disturbs nobody.
LEMMA ReturnKeepsSchema ==
  ASSUME SchemaInv, NEW j \in Jobs,
         NEW o \in {"off", "done", "refused", "clash", "failed"},
         Return(j, o), UNCHANGED <<table, log>>,
         o = "done" => table = Image[j]
  PROVE  SchemaInv'
  <1> USE ImageAssumption DEF ImageAssumption, SchemaInv, Return, Empty, NotApplied
  <1>1. MigrateTypes'
    <2>1. lock' \in Jobs \cup {NoJob}
      BY DEF MigrateTypes
    <2>2. seen' \in [Jobs -> [1..Files -> Nat]] /\ at' \in [Jobs -> Nat \ {0}]
      BY SMTT(30) DEF MigrateTypes
    <2>3. mpc' \in [Jobs -> {"off", "lock", "read", "apply", "done", "refused", "clash", "failed"}]
      BY DEF MigrateTypes
    <2>4. QED
      BY <2>1, <2>2, <2>3 DEF MigrateTypes
  <1>2. Alone'
    BY DEF Alone, MigrateTypes
  <1>3. Loop'
    BY DEF Loop, MigrateTypes
  <1>4. Prefix'
    BY DEF Prefix
  <1>5. Matches'
    BY DEF Matches, MigrateTypes
  <1>6. QED
    BY <1>1, <1>2, <1>3, <1>4, <1>5

\* The transaction of a file whose row is not there yet.
LEMMA ApplyKeepsSchema ==
  ASSUME SchemaInv, NEW j \in Jobs, mpc[j] = "apply", at[j] <= Files,
         table[at[j]] = NotApplied,
         table' = [table EXCEPT ![at[j]] = Image[j][at[j]]],
         log' = Append(log, at[j]),
         at' = [at EXCEPT ![j] = at[j] + 1],
         UNCHANGED <<lock, mpc, seen>>
  PROVE  SchemaInv'
  <1> USE DEF SchemaInv, NotApplied
  <1> DEFINE v == at[j]
  <1>0. at[j] \in Nat \ {0} /\ at[j] + 1 \in Nat \ {0} /\ Files \in Nat
    BY Checksums, SMTT(30) DEF MigrateTypes
  <1>1. v \in 1..Files /\ Image[j][v] \in Nat /\ Image[j][v] # 0
    BY <1>0, Checksums
  <1> HIDE DEF v
  <1>2. MigrateTypes'
    <2>1. table' \in [1..Files -> Nat] /\ log' \in Seq(1..Files)
      BY <1>1 DEF MigrateTypes, v
    <2>2. at' \in [Jobs -> Nat \ {0}]
      BY <1>0 DEF MigrateTypes
    <2>3. QED
      BY <2>1, <2>2 DEF MigrateTypes
  <1>3. Alone'
    BY DEF Alone
  <1>4. \A i \in Jobs : i # j => mpc[i] # "apply"
    BY DEF Alone
  <1>5. Loop'
    <2>1. \A i \in Jobs : i # j => mpc'[i] # "apply" /\ at'[i] = 1
      BY <1>4 DEF Loop, MigrateTypes
    <2>2. mpc'[j] = "apply" /\ at'[j] = v + 1 /\ seen' = seen
      BY <1>0 DEF MigrateTypes, v
    <2>3. \A u \in 1..Files : table'[u] = IF u = v THEN Image[j][v] ELSE table[u]
      BY DEF MigrateTypes, v
    <2>4. \A u \in 1..Files : /\ u < v => table[u] = Image[j][u]
                              /\ u >= v => seen[j][u] = table[u]
      BY DEF Loop, v
    <2>5. \A u \in 1..Files : /\ u < at'[j] => table'[u] = Image[j][u]
                              /\ u >= at'[j] => seen'[j][u] = table'[u]
      BY <1>1, <2>2, <2>3, <2>4
    <2>6. QED
      BY <2>1, <2>2, <2>5 DEF Loop
  <1>6. \A u \in 1..Files : u < v => table[u] # 0
    BY <1>1, Checksums DEF Loop, v
  <1>7. Len(log) \in Nat /\ Len(log) + 1 = v
    <2>1. Len(log) \in Nat /\ Len(log) < v
      BY <1>1 DEF Prefix, MigrateTypes, v
    <2>2. CASE v = 1
      BY <2>1, <2>2
    <2>3. CASE v # 1
      <3>1. v - 1 \in 1..Files /\ v - 1 < v
        BY <1>0, <1>1, <2>3
      <3>2. v - 1 <= Len(log)
        BY <3>1, <1>6 DEF Prefix
      <3>3. QED
        BY <3>1, <3>2, <2>1, <1>1
    <2>4. QED
      BY <2>2, <2>3
  <1>8. Prefix'
    <2>1. Len(log') = v /\ \A i \in 1..v : log'[i] = i
      BY <1>1, <1>7 DEF Prefix, MigrateTypes, v
    <2>2. \A u \in 1..Files : table'[u] # 0 <=> u <= v
      BY <1>1, <1>7 DEF Prefix, MigrateTypes, v
    <2>3. QED
      BY <2>1, <2>2 DEF Prefix
  <1>9. Matches'
    BY <1>1, Checksums DEF Matches, v
  <1>10. QED
    BY <1>2, <1>3, <1>5, <1>8, <1>9

LEMMA MigrateKeepsSchema ==
  ASSUME SchemaInv, NEW j \in Jobs, MigrateStep(j)
  PROVE  SchemaInv'
  <1> USE DEF SchemaInv, NotApplied
  <1>1. CASE StartMigrate(j)
    <2> USE <1>1 DEF StartMigrate
    <2>1. MigrateTypes' /\ Prefix' /\ Alone'
      BY DEF MigrateTypes, Prefix, Alone
    <2>2. Loop' /\ Matches'
      BY DEF MigrateTypes, Loop, Matches
    <2>3. QED
      BY <2>1, <2>2
  <1>2. CASE TakeLock(j)
    <2> USE <1>2 DEF TakeLock
    <2>1. MigrateTypes' /\ Prefix'
      BY DEF MigrateTypes, Prefix
    <2>2. Alone'
      BY Checksums DEF MigrateTypes, Alone
    <2>3. Loop' /\ Matches'
      BY DEF MigrateTypes, Loop, Matches
    <2>4. QED
      BY <2>1, <2>2, <2>3
  <1>3. CASE ReadApplied(j)
    <2> USE <1>3 DEF ReadApplied
    <2>1. MigrateTypes' /\ Prefix'
      BY DEF MigrateTypes, Prefix
    <2>2. Alone' /\ Matches'
      BY DEF MigrateTypes, Alone, Matches
    <2>3. Loop'
      BY DEF MigrateTypes, Loop
    <2>4. QED
      BY <2>1, <2>2, <2>3
  <1>4. CASE SkipApplied(j)
    <2> USE <1>4 DEF SkipApplied
    <2>0. at[j] \in Nat \ {0} /\ at[j] + 1 \in Nat \ {0} /\ at' = [at EXCEPT ![j] = at[j] + 1]
      BY DEF MigrateTypes
    <2>1. at' \in [Jobs -> Nat \ {0}]
      BY <2>0 DEF MigrateTypes
    <2>2. MigrateTypes' /\ Prefix'
      BY <2>1 DEF MigrateTypes, Prefix
    <2>3. Alone' /\ Matches'
      BY DEF MigrateTypes, Alone, Matches
    <2>4. table[at[j]] = Image[j][at[j]]
      BY <2>0 DEF Loop
    <2>5. Loop'
      <3> SUFFICES ASSUME NEW i \in Jobs
                   PROVE  /\ mpc'[i] # "apply" => at'[i] = 1
                          /\ mpc'[i] = "apply" =>
                               \A v \in 1..Files :
                                 /\ v < at'[i] => table'[v] = Image[i][v]
                                 /\ v >= at'[i] => seen'[i][v] = table'[v]
        BY DEF Loop
      <3>1. CASE i # j
        BY <3>1, <2>0 DEF Loop, MigrateTypes
      <3>2. CASE i = j
        BY <3>2, <2>0, <2>4 DEF Loop, MigrateTypes
      <3>3. QED
        BY <3>1, <3>2
    <2>6. QED
      BY <2>2, <2>3, <2>5
  <1>5. CASE RefuseEdited(j)
    BY <1>5, ReturnKeepsSchema DEF RefuseEdited
  <1>6. CASE ApplyFile(j)
    BY <1>6, ApplyKeepsSchema, ReturnKeepsSchema DEF ApplyFile
  <1>7. CASE FinishMigrate(j)
    <2>1. \A v \in 1..Files : table[v] = Image[j][v]
      <3>1. mpc[j] = "apply" /\ at[j] > Files
        BY <1>7 DEF FinishMigrate
      <3>2. at[j] \in Nat /\ Files \in Nat
        BY Checksums DEF MigrateTypes
      <3>3. \A v \in 1..Files : v < at[j]
        BY <3>1, <3>2
      <3>4. QED
        BY <3>1, <3>3 DEF Loop
    <2>2. table = Image[j]
      <3>1. table \in [1..Files -> Nat] /\ Image[j] \in [1..Files -> Nat]
        BY Checksums DEF MigrateTypes
      <3>2. table = [v \in 1..Files |-> table[v]]
        BY ONLY <3>1
      <3>3. Image[j] = [v \in 1..Files |-> Image[j][v]]
        BY ONLY <3>1
      <3>4. QED
        BY ONLY <2>1, <3>2, <3>3
    <2>3. QED
      BY <1>7, <2>2, ReturnKeepsSchema DEF FinishMigrate
  <1>8. QED
    BY <1>1, <1>2, <1>3, <1>4, <1>5, <1>6, <1>7 DEF MigrateStep

LEMMA SchemaUnchanged == SchemaInv /\ UNCHANGED migrateVars => SchemaInv'
  BY DEF migrateVars, SchemaInv, MigrateTypes, Alone, Loop, Prefix, Matches

LEMMA RestartKeepsSchema ==
  ASSUME SchemaInv, NEW j \in Jobs, RestartMigrate(j) \/ MigrateFails(j)
  PROVE  SchemaInv'
  BY ReturnKeepsSchema DEF RestartMigrate, MigrateFails

\* However many jobs migrate at once, die in between or bring an edited file,
\* every file is applied once and in order, and a job that got past Migrate
\* runs on exactly the schema of its image (Migrate, migrate.go:51-120).
THEOREM SchemaMatchesCodeHolds == Spec => []SchemaMatchesCode
  <1>1. Init => SchemaInv
    BY SchemaInit DEF Init
  <1>2. SchemaInv /\ [Next]_vars => SchemaInv'
    <2> SUFFICES ASSUME SchemaInv, [Next]_vars PROVE SchemaInv'
      OBVIOUS
    <2>1. ASSUME NEW j \in Jobs, Migrating(j) PROVE SchemaInv'
      BY <2>1, MigrateKeepsSchema DEF Migrating
    <2>2. ASSUME NEW j \in Jobs, Fails(j) PROVE SchemaInv'
      BY <2>2, RestartKeepsSchema, SchemaUnchanged DEF Fails
    <2>3. ASSUME NEW j \in Jobs, Retry(j) \/ RunAgain(j) PROVE SchemaInv'
      BY <2>3, RestartKeepsSchema DEF Retry, RunAgain, StartAgain
    <2>4. ASSUME NEW p \in Runs, Copying(p) PROVE SchemaInv'
      BY <2>4, SchemaUnchanged DEF Copying
    <2>5. ASSUME NEW d \in Late, Arrive(d) PROVE SchemaInv'
      BY <2>5, SchemaUnchanged DEF Arrive
    <2>6. CASE UNCHANGED vars
      BY <2>6, SchemaUnchanged DEF vars
    <2>7. QED
      BY <2>1, <2>2, <2>3, <2>4, <2>5, <2>6 DEF Next
  <1>3. SchemaInv => SchemaMatchesCode
    BY DEF SchemaInv, Prefix, Matches, SchemaMatchesCode, MigrateTypes
  <1>4. QED
    BY <1>1, <1>2, <1>3, PTL DEF Spec

-----------------------------------------------------------------------------
(* The backfill: what a run reports.                                       *)

CopyTypes ==
  /\ legacy \subseteq Docs /\ Docs \ Late \subseteq legacy
  /\ bpc \in [Runs -> {"off", "copy", "held", "recount", "ok", "clash", "failed"}]
  /\ step \in [Runs -> 1..8]
  /\ todo \in [Runs -> SUBSET Docs]
  /\ outcome \in [Runs -> [Docs -> {"unread", "read", "kept", "rejected"}]]

\* A run that is not at work has no report.
Idle(p) ==
  bpc[p] \in {"off", "failed", "clash"} =>
    step[p] = 1 /\ todo[p] = {} /\ \A d \in Docs : outcome[p][d] = "unread"

\* The report speaks of the steps up to the current one, and of all of them at
\* the end; what is not dealt with is in memory.
Report(p) ==
  /\ \A d \in Docs : outcome[p][d] = "read" <=> d \in todo[p]
  /\ \A d \in todo[p] : d \in Readable /\ Kind[d] = Steps[step[p]]
  /\ \A k \in 1..8 : k > step[p] => \A d \in DocsOf(Steps[k]) : outcome[p][d] = "unread"
  /\ bpc[p] \in {"copy", "held", "recount", "ok"} =>
       \A k \in 1..8 : k <= step[p] =>
         \A d \in DocsOf(Steps[k]) : d \notin Late => outcome[p][d] # "unread"
  /\ bpc[p] \in {"recount", "ok"} => step[p] = 8 /\ todo[p] = {}

KeptIsThere(p) == \A d \in Docs : outcome[p][d] = "kept" => Stored(d)

\* A row that d references is missing and stays missing: no document that could
\* become that row gets past the copy.
Blocked(p, d) ==
  \E r \in Refs[d] :
    /\ r \notin rows
    /\ \A e \in Docs : Row[e] = r =>
         \/ e \notin Readable
         \/ e \notin Legal /\ Kind[e] # "posts"
         \/ outcome[p][e] = "rejected"

RejectedForGood(p) ==
  \A d \in Docs : outcome[p][d] = "rejected" /\ d \in Readable =>
    Kind[d] # "posts" /\ (d \in Legal => Kind[d] # "messages" /\ Blocked(p, d))

RunInv(p) == Idle(p) /\ Report(p) /\ KeptIsThere(p) /\ RejectedForGood(p)

\* Once a run is through, the counts it writes stay true.
CountsTrue ==
  (\E p \in Runs : bpc[p] = "ok") => \A r \in PostRows \cap rows : count[r] = Recounted(r)

CopyInv == CopyTypes /\ (\A p \in Runs : RunInv(p)) /\ CountsTrue

LEMMA StepsFacts ==
  /\ DOMAIN Steps = 1..8 /\ Len(Steps) = 8
  /\ \A j, k \in 1..8 : Steps[j] = Steps[k] => j = k
  /\ \A k \in 1..8 : Steps[k] = "messages" <=> k = 7
  BY DEF Steps

LEMMA DocsFacts ==
  /\ Docs \subseteq Nat /\ Late \subseteq Docs /\ NoRun \notin Runs
  /\ \A d \in Late : Kind[d] = "messages"
  /\ \A d \in Docs : Depth[d] \in Int /\ SentAt[d] \in Nat
  /\ \A d \in Docs : \E k \in 1..8 : Kind[d] = Steps[k]
  BY DocsAssumption, StepsFacts DEF DocsAssumption, DocsOf

LEMMA CopyInit == BackfillInit => CopyInv
  <1> SUFFICES ASSUME BackfillInit PROVE CopyInv
    OBVIOUS
  <1> USE DEF BackfillInit
  <1>1. CopyTypes
    BY DocsFacts DEF CopyTypes
  <1>2. ASSUME NEW p \in Runs PROVE RunInv(p)
    <2>1. bpc[p] = "off" /\ step[p] = 1 /\ todo[p] = {} /\ \A d \in Docs : outcome[p][d] = "unread"
      OBVIOUS
    <2>2. QED
      BY <2>1 DEF RunInv, Idle, Report, KeptIsThere, RejectedForGood, DocsOf
  <1>3. CountsTrue
    BY DEF CountsTrue
  <1>4. QED
    BY <1>1, <1>2, <1>3 DEF CopyInv

\* The documents whose insert the database would accept now.
Insertable(e) == e \in Readable /\ (Kind[e] = "posts" \/ (e \in Legal /\ Refs[e] \subseteq rows))

\* A step only adds rows, and only those of such documents.
RowsGrow ==
  /\ rows \subseteq rows'
  /\ \A r \in rows' \ rows : \E e \in Docs : Row[e] = r /\ Kind[e] # "messages" /\ Insertable(e)

\* What blocks a rejected document is itself blocked: nobody can insert it.
LEMMA BlockedStays ==
  ASSUME NEW q \in Runs, RejectedForGood(q), RowsGrow,
         \A e \in Docs : outcome[q][e] = "rejected" => outcome'[q][e] = "rejected",
         NEW d \in Docs, Blocked(q, d)
  PROVE  Blocked(q, d)'
  <1>1. PICK r \in Refs[d] :
          /\ r \notin rows
          /\ \A e \in Docs : Row[e] = r =>
               \/ e \notin Readable
               \/ e \notin Legal /\ Kind[e] # "posts"
               \/ outcome[q][e] = "rejected"
    BY DEF Blocked
  <1>2. r \notin rows'
    <2> SUFFICES ASSUME r \in rows' PROVE FALSE
      OBVIOUS
    <2>1. PICK e \in Docs : Row[e] = r /\ Insertable(e)
      BY <1>1 DEF RowsGrow
    <2>2. outcome[q][e] = "rejected" /\ e \in Readable
      BY <1>1, <2>1 DEF Insertable
    <2>3. Kind[e] # "posts" /\ e \in Legal /\ Refs[e] \subseteq rows
      BY <2>1, <2>2 DEF Insertable, RejectedForGood
    <2>4. Blocked(q, e)
      BY <2>2, <2>3 DEF RejectedForGood
    <2>5. QED
      BY <2>3, <2>4 DEF Blocked
  <1>3. QED
    BY <1>1, <1>2 DEF Blocked

LEMMA StoredStays ==
  ASSUME NEW d \in Docs, Stored(d), rows \subseteq rows', messages \subseteq messages'
  PROVE  Stored(d)'
  BY DEF Stored, Copied

\* The steps of one run leave the reports of the others true.
LEMMA OthersKeep ==
  ASSUME NEW q \in Runs, RunInv(q), RowsGrow, messages \subseteq messages',
         bpc'[q] = bpc[q], step'[q] = step[q], todo'[q] = todo[q], outcome'[q] = outcome[q]
  PROVE  RunInv(q)'
  <1>1. Idle(q)' /\ Report(q)'
    BY DEF RunInv, Idle, Report, DocsOf
  <1>2. KeptIsThere(q)'
    BY StoredStays DEF RunInv, KeptIsThere, RowsGrow
  <1>3. RejectedForGood(q)'
    BY BlockedStays DEF RunInv, RejectedForGood
  <1>4. QED
    BY <1>1, <1>2, <1>3 DEF RunInv

\* When one run has been through all documents, no insert adds a row.
LEMMA Frozen ==
  ASSUME CopyInv, NEW p \in Runs, bpc[p] \in {"recount", "ok"}, RowsGrow
  PROVE  rows' = rows
  <1> SUFFICES ASSUME NEW r \in rows' \ rows PROVE FALSE
    BY DEF RowsGrow
  <1>1. PICK e \in Docs : Row[e] = r /\ Kind[e] # "messages" /\ Insertable(e)
    BY DEF RowsGrow
  <1>2. RunInv(p)
    BY DEF CopyInv
  <1>3. step[p] = 8 /\ todo[p] = {}
    BY <1>2 DEF RunInv, Report
  <1>4. PICK k \in 1..8 : Kind[e] = Steps[k]
    BY DocsFacts
  <1>5. outcome[p][e] # "unread"
    BY <1>1, <1>2, <1>3, <1>4, DocsFacts DEF RunInv, Report, DocsOf
  <1>6. outcome[p][e] # "read"
    BY <1>2, <1>3 DEF RunInv, Report
  <1>7. outcome[p][e] # "kept"
    BY <1>1, <1>2 DEF RunInv, KeptIsThere, Stored
  <1>8. outcome[p][e] = "rejected"
    BY <1>5, <1>6, <1>7 DEF CopyInv, CopyTypes
  <1>9. QED
    BY <1>1, <1>2, <1>8 DEF RunInv, RejectedForGood, Insertable, Blocked

\* A step of run p that adds rows and messages and does not recount.
LEMMA OneRunMoves ==
  ASSUME CopyInv, NEW p \in Runs, CopyTypes', RunInv(p)', RowsGrow,
         messages \subseteq messages', count' = count, bpc'[p] # "ok",
         \A q \in Runs : q # p =>
           /\ bpc'[q] = bpc[q] /\ step'[q] = step[q] /\ todo'[q] = todo[q]
           /\ outcome'[q] = outcome[q]
  PROVE  CopyInv'
  <1>1. ASSUME NEW q \in Runs PROVE RunInv(q)'
    <2>1. CASE q = p
      BY <2>1
    <2>2. CASE q # p
      BY <2>2, OthersKeep DEF CopyInv
    <2>3. QED
      BY <2>1, <2>2
  <1>2. CountsTrue'
    <2> SUFFICES ASSUME NEW q \in Runs, bpc'[q] = "ok",
                        NEW r \in PostRows, r \in rows'
                 PROVE  count'[r] = Recounted(r)'
      BY DEF CountsTrue, PostRows, DocsOf
    <2>1. bpc[q] = "ok"
      OBVIOUS
    <2>2. rows' = rows
      BY <2>1, Frozen
    <2>3. QED
      BY <2>1, <2>2 DEF CopyInv, CountsTrue, Recounted, RowsOf, DocsOf
  <1>3. QED
    BY <1>1, <1>2 DEF CopyInv

LEMMA ScanKeepsCopy ==
  ASSUME CopyInv, NEW p \in Runs, NEW k \in 1..8, Scan(p, k),
         UNCHANGED <<legacy, rows, messages, count>>,
         bpc' = [bpc EXCEPT ![p] = "copy"],
         todo[p] = {}, \/ bpc[p] = "off" /\ k = 1
                       \/ bpc[p] = "copy" /\ k = step[p] + 1
  PROVE  CopyInv'
  <1> DEFINE read == DocsOf(Steps[k]) \cap legacy
             good == read \cap (IF Steps[k] = "messages" THEN Readable \cap Legal ELSE Readable)
  <1>1. RunInv(p) /\ CopyTypes
    BY DEF CopyInv
  <1>2. read \subseteq Docs /\ good \subseteq read
    BY DEF DocsOf
  <1>3. \A d \in good : d \in Readable /\ Kind[d] = Steps[k]
    BY DEF DocsOf
  <1>4. \A d \in Docs : outcome'[p][d] = IF d \in good THEN "read"
                                        ELSE IF d \in read THEN "rejected" ELSE outcome[p][d]
    BY <1>1 DEF Scan, CopyTypes
  <1>5. /\ bpc'[p] = "copy" /\ step'[p] = k /\ todo'[p] = good
        /\ \A q \in Runs : q # p =>
             /\ bpc'[q] = bpc[q] /\ step'[q] = step[q] /\ todo'[q] = todo[q]
             /\ outcome'[q] = outcome[q]
    BY <1>1 DEF Scan, CopyTypes
  <1>6. CopyTypes'
    <2>1. todo' \in [Runs -> SUBSET Docs] /\ step' \in [Runs -> 1..8]
      BY <1>1, <1>2 DEF Scan, CopyTypes
    <2>2. outcome' \in [Runs -> [Docs -> {"unread", "read", "kept", "rejected"}]]
      BY <1>1 DEF Scan, CopyTypes
    <2>3. QED
      BY <1>1, <2>1, <2>2 DEF CopyTypes
  <1>7. RowsGrow
    BY DEF RowsGrow
  <1>8. \A d \in read : outcome[p][d] = "unread"
    <2> SUFFICES ASSUME NEW d \in read PROVE outcome[p][d] = "unread"
      OBVIOUS
    <2>1. CASE bpc[p] = "off"
      BY <1>1, <1>2, <2>1 DEF RunInv, Idle
    <2>2. CASE k = step[p] + 1
      BY <1>1, <2>2 DEF RunInv, Report, CopyTypes
    <2>3. QED
      BY <2>1, <2>2
  <1>9. \A d \in Docs : d \notin read => outcome[p][d] # "read"
    BY <1>1 DEF RunInv, Report
  <1> HIDE DEF read, good
  <1>10. Report(p)'
    <2>1. \A d \in Docs : outcome'[p][d] = "read" <=> d \in todo'[p]
      BY <1>2, <1>4, <1>5, <1>9
    <2>2. \A d \in todo'[p] : d \in Readable /\ Kind[d] = Steps[step'[p]]
      BY <1>3, <1>5
    <2>3. ASSUME NEW j \in 1..8, j > k, NEW d \in DocsOf(Steps[j])
          PROVE  outcome'[p][d] = "unread"
      <3>1. d \in Docs /\ Kind[d] = Steps[j] /\ Kind[d] # Steps[k]
        BY <2>3, StepsFacts DEF DocsOf
      <3>2. d \notin read
        BY <3>1 DEF read, DocsOf
      <3>3. outcome[p][d] = "unread"
        BY <1>1, <2>3, <3>1 DEF RunInv, Idle, Report, CopyTypes
      <3>4. QED
        BY <1>2, <1>4, <3>1, <3>2, <3>3
    <2>4. ASSUME NEW j \in 1..8, j <= k, NEW d \in DocsOf(Steps[j]), d \notin Late
          PROVE  outcome'[p][d] # "unread"
      <3>1. d \in Docs
        BY DEF DocsOf
      <3>2. CASE j = k
        <4>1. d \in read
          BY <1>1, <2>4, <3>1, <3>2 DEF read, CopyTypes
        <4>2. QED
          BY <1>4, <3>1, <4>1
      <3>3. CASE j # k
        <4>1. bpc[p] = "copy" /\ j <= step[p]
          BY <1>1, <2>4, <3>3 DEF CopyTypes
        <4>2. outcome[p][d] # "unread"
          BY <1>1, <2>4, <4>1 DEF RunInv, Report
        <4>3. QED
          BY <1>4, <3>1, <4>2
      <3>4. QED
        BY <3>2, <3>3
    <2>5. QED
      BY <1>5, <2>1, <2>2, <2>3, <2>4 DEF Report, DocsOf
  <1>11. KeptIsThere(p)'
    <2> SUFFICES ASSUME NEW d \in Docs, outcome'[p][d] = "kept" PROVE Stored(d)'
      BY DEF KeptIsThere
    <2>1. outcome[p][d] = "kept"
      BY <1>4
    <2>2. QED
      BY <1>1, <2>1, StoredStays DEF RunInv, KeptIsThere
  <1>12. RejectedForGood(p)'
    <2> SUFFICES ASSUME NEW d \in Docs, outcome'[p][d] = "rejected", d \in Readable
                 PROVE  Kind[d] # "posts" /\ (d \in Legal => Kind[d] # "messages" /\ Blocked(p, d)')
      BY DEF RejectedForGood
    <2>1. \A e \in Docs : outcome[p][e] = "rejected" => outcome'[p][e] = "rejected"
      BY <1>2, <1>4, <1>8
    <2>2. CASE d \in read
      <3>1. d \notin good
        BY <1>4, <2>2
      <3>2. Steps[k] = "messages" /\ d \notin Legal
        BY <2>2, <3>1 DEF good
      <3>3. Kind[d] = "messages"
        BY <2>2, <3>2 DEF read, DocsOf
      <3>4. QED
        BY <3>2, <3>3
    <2>3. CASE d \notin read
      <3>1. outcome[p][d] = "rejected"
        BY <1>2, <1>4, <2>3
      <3>2. QED
        BY <1>1, <1>7, <2>1, <3>1, BlockedStays DEF RunInv, RejectedForGood
    <2>4. QED
      BY <2>2, <2>3
  <1>13. RunInv(p)'
    BY <1>5, <1>10, <1>11, <1>12 DEF RunInv, Idle
  <1>14. QED
    BY <1>5, <1>6, <1>7, <1>13, OneRunMoves

\* A run that stops, for whatever reason, leaves what it stored.
LEMMA StopKeepsCopy ==
  ASSUME CopyInv, NEW p \in Runs, NEW how \in {"off", "clash", "failed"}, Stop(p, how)
  PROVE  CopyInv'
  <1>1. RunInv(p) /\ CopyTypes
    BY DEF CopyInv
  <1>2. /\ bpc'[p] = how /\ step'[p] = 1 /\ todo'[p] = {}
        /\ \A d \in Docs : outcome'[p][d] = "unread"
        /\ \A q \in Runs : q # p =>
             /\ bpc'[q] = bpc[q] /\ step'[q] = step[q] /\ todo'[q] = todo[q]
             /\ outcome'[q] = outcome[q]
    BY <1>1 DEF Stop, CopyTypes
  <1>3. CopyTypes'
    <2>1. todo' \in [Runs -> SUBSET Docs] /\ step' \in [Runs -> 1..8]
      BY <1>1 DEF Stop, CopyTypes
    <2>2. outcome' \in [Runs -> [Docs -> {"unread", "read", "kept", "rejected"}]]
      BY <1>1 DEF Stop, CopyTypes
    <2>3. QED
      BY <1>1, <2>1, <2>2 DEF Stop, CopyTypes
  <1>4. RunInv(p)'
    BY <1>2 DEF RunInv, Idle, Report, KeptIsThere, RejectedForGood, DocsOf
  <1>5. RowsGrow /\ messages \subseteq messages' /\ count' = count
    BY DEF RowsGrow, Stop, storeVars
  <1>6. QED
    BY <1>2, <1>3, <1>4, <1>5, OneRunMoves

\* Documents are dealt with: stored, or rejected for good.
LEMMA SettleKeepsCopy ==
  ASSUME CopyInv, NEW p \in Runs, NEW D \in SUBSET todo[p], NEW how \in {"kept", "rejected"},
         Settle(p, D, how), bpc[p] \in {"copy", "held"}, bpc' = [bpc EXCEPT ![p] = "copy"],
         count' = count, RowsGrow, messages \subseteq messages',
         how = "kept" => \A d \in D : Stored(d)',
         how = "rejected" =>
           \A d \in D : /\ Kind[d] # "posts"
                        /\ d \in Legal => Kind[d] # "messages" /\ Blocked(p, d)
  PROVE  CopyInv'
  <1>1. RunInv(p) /\ CopyTypes
    BY DEF CopyInv
  <1>2. D \subseteq Docs
    BY <1>1 DEF CopyTypes
  <1>3. \A d \in Docs : outcome'[p][d] = IF d \in D THEN how ELSE outcome[p][d]
    BY <1>1 DEF Settle, CopyTypes
  <1>4. /\ bpc'[p] = "copy" /\ step' = step /\ todo'[p] = todo[p] \ D
        /\ \A q \in Runs : q # p =>
             /\ bpc'[q] = bpc[q] /\ step'[q] = step[q] /\ todo'[q] = todo[q]
             /\ outcome'[q] = outcome[q]
    BY <1>1 DEF Settle, CopyTypes
  <1>5. CopyTypes'
    <2>1. todo' \in [Runs -> SUBSET Docs] /\ step' \in [Runs -> 1..8]
      BY <1>1, <1>2 DEF Settle, CopyTypes
    <2>2. outcome' \in [Runs -> [Docs -> {"unread", "read", "kept", "rejected"}]]
      BY <1>1 DEF Settle, CopyTypes
    <2>3. QED
      BY <1>1, <2>1, <2>2 DEF Settle, CopyTypes
  <1>6. \A d \in Docs : outcome[p][d] = "read" <=> d \in todo[p]
    BY <1>1 DEF RunInv, Report
  <1>7. Report(p)'
    <2>1. \A d \in Docs : outcome'[p][d] = "read" <=> d \in todo'[p]
      BY <1>3, <1>4, <1>6
    <2>2. \A d \in todo'[p] : d \in Readable /\ Kind[d] = Steps[step'[p]]
      BY <1>1, <1>4 DEF RunInv, Report
    <2>3. ASSUME NEW j \in 1..8, j > step'[p], NEW d \in DocsOf(Steps[j])
          PROVE  outcome'[p][d] = "unread"
      BY <1>1, <1>3, <1>4, <1>6, <2>3 DEF RunInv, Report, DocsOf
    <2>4. ASSUME NEW j \in 1..8, j <= step'[p], NEW d \in DocsOf(Steps[j]), d \notin Late
          PROVE  outcome'[p][d] # "unread"
      BY <1>1, <1>3, <1>4, <2>4 DEF RunInv, Report, DocsOf
    <2>5. QED
      BY <1>4, <2>1, <2>2, <2>3, <2>4 DEF Report, DocsOf
  <1>8. KeptIsThere(p)'
    <2> SUFFICES ASSUME NEW d \in Docs, outcome'[p][d] = "kept" PROVE Stored(d)'
      BY DEF KeptIsThere
    <2>1. CASE d \in D
      BY <1>3, <2>1
    <2>2. CASE d \notin D
      BY <1>1, <1>3, <2>2, StoredStays DEF RunInv, KeptIsThere, RowsGrow
    <2>3. QED
      BY <2>1, <2>2
  <1>9. RejectedForGood(p)'
    <2> SUFFICES ASSUME NEW d \in Docs, outcome'[p][d] = "rejected", d \in Readable
                 PROVE  Kind[d] # "posts" /\ (d \in Legal => Kind[d] # "messages" /\ Blocked(p, d)')
      BY DEF RejectedForGood
    <2>1. \A e \in Docs : outcome[p][e] = "rejected" => outcome'[p][e] = "rejected"
      BY <1>3, <1>6
    <2>2. Kind[d] # "posts" /\ (d \in Legal => Kind[d] # "messages" /\ Blocked(p, d))
      BY <1>1, <1>3 DEF RunInv, RejectedForGood
    <2>3. QED
      BY <1>1, <2>1, <2>2, BlockedStays DEF RunInv
  <1>10. RunInv(p)'
    BY <1>4, <1>7, <1>8, <1>9 DEF RunInv, Idle
  <1>11. QED
    BY <1>4, <1>5, <1>10, OneRunMoves

\* A document is rejected for a row that p has looked for already: it comes in
\* an earlier step or, for a reply, at a smaller depth.
LEMMA RejectionIsFinal ==
  ASSUME CopyInv, NEW p \in Runs, bpc[p] = "copy", NEW d \in todo[p], InOrder(p, d),
         ~(Refs[d] \subseteq rows)
  PROVE  Blocked(p, d)
  <1>1. RunInv(p) /\ CopyTypes /\ d \in Docs
    BY DEF CopyInv, CopyTypes
  <1>2. PICK r \in Refs[d] : r \notin rows
    OBVIOUS
  <1>3. ASSUME NEW e \in Docs, Row[e] = r PROVE outcome[p][e] = "rejected"
    <2>1. /\ Kind[e] # "messages"
          /\ \/ \E j, k \in 1..8 : j < k /\ Kind[e] = Steps[j] /\ Kind[d] = Steps[k]
             \/ Kind[d] = "comments" /\ Kind[e] = "comments" /\ Depth[e] < Depth[d]
      BY <1>1, <1>2, <1>3, RefsAssumption, StepsFacts DEF RefsAssumption
    <2>2. Kind[d] = Steps[step[p]] /\ step[p] \in 1..8
      BY <1>1 DEF RunInv, Report, CopyTypes
    <2>3. outcome[p][e] # "kept"
      BY <1>1, <1>2, <1>3, <2>1 DEF RunInv, KeptIsThere, Stored
    <2>4. e \notin Late
      BY <2>1, DocsFacts
    <2>5. CASE \E j, k \in 1..8 : j < k /\ Kind[e] = Steps[j] /\ Kind[d] = Steps[k]
      <3>1. PICK j \in 1..8 : j < step[p] /\ Kind[e] = Steps[j]
        BY <2>2, <2>5, StepsFacts
      <3>2. outcome[p][e] # "unread"
        BY <1>1, <2>4, <3>1, <2>2 DEF RunInv, Report, DocsOf
      <3>3. Kind[e] # Steps[step[p]]
        BY <2>2, <3>1, StepsFacts
      <3>4. outcome[p][e] # "read"
        BY <1>1, <3>3 DEF RunInv, Report
      <3>5. QED
        BY <1>1, <2>3, <3>2, <3>4 DEF CopyTypes
    <2>6. CASE Kind[d] = "comments" /\ Kind[e] = "comments" /\ Depth[e] < Depth[d]
      <3>1. e \in DocsOf(Steps[step[p]]) /\ step[p] <= step[p]
        BY <2>2, <2>6 DEF DocsOf
      <3>2. outcome[p][e] # "unread"
        BY <1>1, <2>2, <2>4, <3>1 DEF RunInv, Report
      <3>3. e \notin todo[p]
        BY <1>1, <2>6, DocsFacts DEF InOrder
      <3>4. QED
        BY <1>1, <2>3, <3>2, <3>3 DEF RunInv, Report, CopyTypes
    <2>7. QED
      BY <2>1, <2>5, <2>6
  <1>4. QED
    BY <1>2, <1>3 DEF Blocked

LEMMA InsertKeepsCopy ==
  ASSUME CopyInv, NEW p \in Runs, NEW d \in todo[p], Insert(p, d)
  PROVE  CopyInv'
  <1>1. RunInv(p) /\ CopyTypes /\ d \in Docs /\ d \in Readable
    BY DEF CopyInv, CopyTypes, RunInv, Report
  <1>2. /\ bpc[p] = "copy" /\ bpc' = [bpc EXCEPT ![p] = "copy"]
        /\ count' = count /\ messages' = messages /\ {d} \in SUBSET todo[p]
        /\ Kind[d] # "posts" /\ Kind[d] # "messages" /\ InOrder(p, d)
    BY <1>1 DEF Insert, CopyTypes
  <1>3. CASE /\ d \in Legal /\ (Row[d] \in rows \/ Refs[d] \subseteq rows)
             /\ rows' = rows \cup {Row[d]}
             /\ Settle(p, {d}, "kept")
    <2>1. RowsGrow
      BY <1>1, <1>2, <1>3 DEF RowsGrow, Insertable
    <2>2. Stored(d)'
      BY <1>2, <1>3 DEF Stored
    <2>3. QED
      BY <1>2, <1>3, <2>1, <2>2, SettleKeepsCopy
  <1>4. CASE /\ d \notin Legal \/ (Row[d] \notin rows /\ ~(Refs[d] \subseteq rows))
             /\ UNCHANGED rows
             /\ Settle(p, {d}, "rejected")
    <2>1. RowsGrow
      BY <1>4 DEF RowsGrow
    <2>2. d \in Legal => Blocked(p, d)
      BY <1>2, <1>4, RejectionIsFinal
    <2>3. QED
      BY <1>2, <1>4, <2>1, <2>2, SettleKeepsCopy
  <1>5. QED
    BY <1>3, <1>4 DEF Insert

LEMMA InsertPostKeepsCopy ==
  ASSUME CopyInv, NEW p \in Runs, NEW d \in todo[p], InsertPost(p, d)
  PROVE  CopyInv'
  <1>1. RunInv(p) /\ CopyTypes /\ d \in Docs /\ d \in Readable
    BY DEF CopyInv, CopyTypes, RunInv, Report
  <1>2. /\ bpc[p] = "copy" /\ bpc' = [bpc EXCEPT ![p] = "copy"]
        /\ count' = count /\ messages' = messages /\ {d} \in SUBSET todo[p]
        /\ Kind[d] = "posts" /\ rows' = rows \cup {Row[d]} /\ Settle(p, {d}, "kept")
    BY <1>1 DEF InsertPost, CopyTypes
  <1>3. RowsGrow /\ Stored(d)'
    BY <1>1, <1>2 DEF RowsGrow, Insertable, Stored
  <1>4. QED
    BY <1>2, <1>3, SettleKeepsCopy

LEMMA ConversationKeepsCopy ==
  ASSUME CopyInv, NEW p \in Runs, NEW c \in Convs,
         LockConversation(p, c) \/ CopyConversation(p, c)
  PROVE  CopyInv'
  <1>1. RunInv(p) /\ CopyTypes
    BY DEF CopyInv
  <1>2. CASE LockConversation(p, c)
    <2>1. /\ bpc[p] = "copy" /\ bpc' = [bpc EXCEPT ![p] = "held"]
          /\ UNCHANGED <<legacy, rows, messages, count, step, todo, outcome>>
      BY <1>2 DEF LockConversation, storeVars
    <2>2. CopyTypes' /\ bpc'[p] = "held" /\ \A q \in Runs : q # p => bpc'[q] = bpc[q]
      BY <1>1, <2>1 DEF CopyTypes
    <2>3. RowsGrow
      BY <2>1 DEF RowsGrow
    <2>4. RunInv(p)'
      BY <1>1, <2>1, <2>2 DEF RunInv, Idle, Report, KeptIsThere, Stored, Copied,
                              RejectedForGood, Blocked, DocsOf
    <2>5. QED
      BY <2>1, <2>2, <2>3, <2>4, OneRunMoves
  <1>3. CASE CopyConversation(p, c)
    <2> DEFINE new == Msgs(p, c) \ Copied(c)
               num(d) == seq0[p] + Cardinality({e \in new : Earlier(e, d)}) + 1
    <2>1. CASE /\ messages' = messages \cup {[conv |-> c, seq |-> num(d), doc |-> d] : d \in new}
               /\ bpc' = [bpc EXCEPT ![p] = "copy"]
               /\ Settle(p, Msgs(p, c), "kept")
               /\ UNCHANGED <<rows, events, count>>
      <3>1. bpc[p] = "held" /\ Msgs(p, c) \in SUBSET todo[p]
        BY <1>3 DEF CopyConversation, Msgs
      <3>2. RowsGrow /\ messages \subseteq messages'
        BY <2>1 DEF RowsGrow
      <3>3. ASSUME NEW d \in Msgs(p, c) PROVE Stored(d)'
        <4>1. Kind[d] = "messages" /\ Conv[d] = c
          BY DEF Msgs
        <4>2. CASE d \in new
          <5>1. [conv |-> c, seq |-> num(d), doc |-> d] \in messages'
            BY <2>1, <4>2
          <5>2. QED
            BY <4>1, <5>1 DEF Stored, Copied
        <4>3. CASE d \in Copied(c)
          BY <3>2, <4>1, <4>3 DEF Stored, Copied
        <4>4. QED
          BY <4>2, <4>3
      <3>4. QED
        BY <2>1, <3>1, <3>2, <3>3, SettleKeepsCopy
    <2>2. CASE Stop(p, "clash")
      BY <2>2, StopKeepsCopy
    <2>3. QED
      BY <1>3, <2>1, <2>2 DEF CopyConversation
  <1>4. QED
    BY <1>2, <1>3

LEMMA RecountKeepsCopy ==
  ASSUME CopyInv, NEW p \in Runs, Recount(p)
  PROVE  CopyInv'
  <1> USE DEF Recount
  <1>1. CopyTypes'
    BY DEF CopyInv, CopyTypes
  <1>2. RowsGrow
    BY DEF RowsGrow
  <1>3. ASSUME NEW q \in Runs PROVE RunInv(q)'
    <2>1. CASE q # p
      BY <1>2, <2>1, OthersKeep DEF CopyInv, CopyTypes
    <2>2. CASE q = p
      BY <2>2 DEF CopyInv, CopyTypes, RunInv, Idle, Report, KeptIsThere, Stored, Copied,
                  RejectedForGood, Blocked, DocsOf
    <2>3. QED
      BY <2>1, <2>2
  <1>4. CountsTrue'
    BY DEF CountsTrue, Recounted, RowsOf, PostRows, DocsOf
  <1>5. QED
    BY <1>1, <1>3, <1>4 DEF CopyInv

LEMMA RunKeepsCopy ==
  ASSUME CopyInv, NEW p \in Runs, StartRun(p) \/ NextStep(p)
  PROVE  CopyInv'
  <1>1. RunInv(p) /\ CopyTypes
    BY DEF CopyInv
  <1>2. UNCHANGED <<legacy, rows, messages, count>>
    BY DEF StartRun, NextStep, storeVars
  <1>3. CASE StartRun(p)
    <2>1. /\ bpc[p] = "off" /\ todo[p] = {} /\ 1 \in 1..8 /\ Scan(p, 1)
          /\ bpc' = [bpc EXCEPT ![p] = "copy"]
      BY <1>1, <1>3 DEF StartRun, RunInv, Idle
    <2>2. QED
      BY <1>2, <2>1, ScanKeepsCopy
  <1>4. CASE NextStep(p) /\ step[p] < 8
    <2>1. bpc[p] = "copy" /\ todo[p] = {} /\ step[p] + 1 \in 1..8 /\ Scan(p, step[p] + 1)
      BY <1>1, <1>4, StepsFacts DEF NextStep, CopyTypes
    <2>2. bpc' = [bpc EXCEPT ![p] = "copy"]
      BY <1>1, <1>4, StepsFacts DEF NextStep, CopyTypes
    <2>3. QED
      BY <1>2, <2>1, <2>2, ScanKeepsCopy
  <1>5. CASE NextStep(p) /\ step[p] = 8
    <2>1. /\ bpc[p] = "copy" /\ todo[p] = {} /\ bpc' = [bpc EXCEPT ![p] = "recount"]
          /\ UNCHANGED <<step, todo, outcome>>
      BY <1>5, StepsFacts DEF NextStep
    <2>2. CopyTypes' /\ bpc'[p] = "recount" /\ \A q \in Runs : q # p => bpc'[q] = bpc[q]
      BY <1>1, <1>2, <2>1 DEF CopyTypes
    <2>3. RowsGrow
      BY <1>2 DEF RowsGrow
    <2>4. RunInv(p)'
      BY <1>1, <1>2, <1>5, <2>1, <2>2 DEF RunInv, Idle, Report, KeptIsThere, Stored, Copied,
                              RejectedForGood, Blocked, DocsOf
    <2>5. QED
      BY <1>2, <2>1, <2>2, <2>3, <2>4, OneRunMoves
  <1>6. QED
    BY <1>1, <1>3, <1>4, <1>5 DEF CopyTypes

LEMMA StoreKeepsCopy ==
  ASSUME CopyInv, CopyTypes', UNCHANGED storeVars, UNCHANGED runVars
  PROVE  CopyInv'
  <1>1. RowsGrow
    BY DEF RowsGrow, storeVars
  <1>2. ASSUME NEW q \in Runs PROVE RunInv(q)'
    BY <1>1, OthersKeep DEF CopyInv, storeVars, runVars
  <1>3. CountsTrue'
    <2> SUFFICES ASSUME NEW q \in Runs, bpc'[q] = "ok", NEW r \in PostRows, r \in rows'
                 PROVE  count'[r] = Recounted(r)'
      BY DEF CountsTrue, PostRows, DocsOf
    <2>1. bpc[q] = "ok" /\ r \in rows /\ count' = count /\ rows' = rows
      BY DEF storeVars, runVars
    <2>2. QED
      BY <2>1 DEF CopyInv, CountsTrue, Recounted, RowsOf, DocsOf
  <1>4. QED
    BY <1>2, <1>3 DEF CopyInv

LEMMA LateKeepsCopy ==
  ASSUME CopyInv, (\E d \in Late : LateArrival(d)) \/ UNCHANGED backfillVars
  PROVE  CopyInv'
  <1>1. CopyTypes'
    BY DocsFacts DEF LateArrival, runVars, backfillVars, CopyInv, CopyTypes
  <1>2. UNCHANGED storeVars /\ UNCHANGED runVars
    BY DEF LateArrival, backfillVars
  <1>3. QED
    BY <1>1, <1>2, StoreKeepsCopy

LEMMA StepKeepsCopy == CopyInv /\ [Next]_vars => CopyInv'
  <1> SUFFICES ASSUME CopyInv, [Next]_vars PROVE CopyInv'
    OBVIOUS
  <1>1. ASSUME NEW j \in Jobs, Migrating(j) PROVE CopyInv'
    BY <1>1, LateKeepsCopy DEF Migrating
  <1>2. ASSUME NEW j \in Jobs, Fails(j) PROVE CopyInv'
    BY <1>2, LateKeepsCopy, StopKeepsCopy DEF Fails, BackfillFails
  <1>3. ASSUME NEW j \in Jobs, Retry(j) \/ RunAgain(j) PROVE CopyInv'
    BY <1>3, LateKeepsCopy, StopKeepsCopy DEF Retry, RunAgain, StartAgain, RestartBackfill
  <1>4. ASSUME NEW p \in Runs, Copying(p) PROVE CopyInv'
    BY <1>4, RunKeepsCopy, RecountKeepsCopy, InsertKeepsCopy, InsertPostKeepsCopy,
       ConversationKeepsCopy DEF Copying, BackfillStep
  <1>5. ASSUME NEW d \in Late, Arrive(d) PROVE CopyInv'
    BY <1>5, LateKeepsCopy DEF Arrive
  <1>6. CASE UNCHANGED vars
    BY <1>6, LateKeepsCopy DEF vars
  <1>7. QED
    BY <1>1, <1>2, <1>3, <1>4, <1>5, <1>6 DEF Next

LEMMA CopyInvImpliesComplete == CopyInv => CopyComplete
  <1> SUFFICES ASSUME CopyInv, NEW p \in Runs, bpc[p] = "ok"
               PROVE  /\ \A d \in Docs : d \notin Late => outcome[p][d] # "unread"
                      /\ \A d \in Docs :
                           /\ outcome[p][d] # "read"
                           /\ outcome[p][d] = "kept" => Stored(d)
                           /\ outcome[p][d] = "rejected" =>
                                d \notin Readable \cap Legal \/ ~(Refs[d] \subseteq rows)
                      /\ \A r \in PostRows \cap rows : count[r] = Recounted(r)
    BY DEF CopyComplete
  <1>1. RunInv(p) /\ step[p] = 8 /\ todo[p] = {}
    BY DEF CopyInv, RunInv, Report
  <1>2. ASSUME NEW d \in Docs, d \notin Late PROVE outcome[p][d] # "unread"
    <2>1. PICK k \in 1..8 : Kind[d] = Steps[k]
      BY DocsFacts
    <2>2. d \in DocsOf(Steps[k]) /\ k <= step[p]
      BY <1>1, <2>1 DEF DocsOf
    <2>3. QED
      BY <1>1, <1>2, <2>2 DEF RunInv, Report
  <1>3. ASSUME NEW d \in Docs
        PROVE  /\ outcome[p][d] # "read"
               /\ outcome[p][d] = "kept" => Stored(d)
               /\ outcome[p][d] = "rejected" =>
                    d \notin Readable \cap Legal \/ ~(Refs[d] \subseteq rows)
    <2>1. outcome[p][d] # "read" /\ (outcome[p][d] = "kept" => Stored(d))
      BY <1>1 DEF RunInv, Report, KeptIsThere
    <2>2. outcome[p][d] = "rejected" =>
            d \notin Readable \cap Legal \/ ~(Refs[d] \subseteq rows)
      BY <1>1 DEF RunInv, RejectedForGood, Blocked
    <2>3. QED
      BY <2>1, <2>2
  <1>4. \A r \in PostRows \cap rows : count[r] = Recounted(r)
    BY DEF CopyInv, CountsTrue
  <1>5. QED
    BY <1>2, <1>3, <1>4

\* The report of a run that succeeded is true: every document is accounted for,
\* what is kept is stored, what is rejected can never be stored, and the counts
\* are those of the rows (Run, backfill.go:67-102; insert, backfill.go:104-155).
THEOREM CopyCompleteHolds == Spec => []CopyComplete
  <1>1. Init => CopyInv
    BY CopyInit DEF Init
  <1>2. QED
    BY <1>1, StepKeepsCopy, CopyInvImpliesComplete, PTL DEF Spec

-----------------------------------------------------------------------------
(* The events that move with the posts.                                    *)

CarriedInv == events \in [PostRows -> Nat] /\ CarriedOnce

LEMMA CarriedUnchanged ==
  ASSUME CarriedInv, events' = events,
         \A d \in DocsOf("posts") : Row[d] \in rows' <=> Row[d] \in rows
  PROVE  CarriedInv'
  BY DEF CarriedInv, CarriedOnce, PostRows, DocsOf

LEMMA InsertKeepsCarried ==
  ASSUME CopyInv, CarriedInv, NEW p \in Runs, NEW d \in todo[p],
         Insert(p, d) \/ InsertPost(p, d)
  PROVE  CarriedInv'
  <1>1. d \in Docs
    BY DEF CopyInv, CopyTypes
  <1>2. \A e \in DocsOf("posts") : Row[e] = Row[d] => e = d
    BY <1>1, RowAssumption DEF RowAssumption
  <1>3. CASE Insert(p, d)
    <2>1. d \notin DocsOf("posts") /\ events' = events
      BY <1>3 DEF Insert, DocsOf
    <2>2. rows' = rows \/ rows' = rows \cup {Row[d]}
      BY <1>3 DEF Insert
    <2>3. QED
      BY <1>2, <2>1, <2>2, CarriedUnchanged
  <1>4. CASE InsertPost(p, d)
    <2>1. /\ d \in DocsOf("posts") /\ Row[d] \in PostRows
          /\ rows' = rows \cup {Row[d]}
          /\ events' = IF Carries(d) THEN [events EXCEPT ![Row[d]] = @ + 1] ELSE events
      BY <1>1, <1>4 DEF InsertPost, DocsOf, PostRows
    <2>2. events[Row[d]] \in Nat /\ events' \in [PostRows -> Nat]
      BY <2>1 DEF CarriedInv
    <2>3. ASSUME NEW e \in DocsOf("posts")
          PROVE  events'[Row[e]] =
                   IF Row[e] \in rows' /\ e \in OutboxPending \ Deleted THEN 1 ELSE 0
      <3>1. Row[e] \in PostRows
        BY DEF PostRows
      <3>2. CASE e = d
        BY <2>1, <2>2, <3>2 DEF CarriedInv, CarriedOnce, Carries
      <3>3. CASE e # d
        <4>1. Row[e] # Row[d]
          BY <1>2, <3>3
        <4>2. events'[Row[e]] = events[Row[e]] /\ (Row[e] \in rows' <=> Row[e] \in rows)
          BY <2>1, <3>1, <4>1 DEF CarriedInv
        <4>3. QED
          BY <4>2 DEF CarriedInv, CarriedOnce
      <3>4. QED
        BY <3>2, <3>3
    <2>4. QED
      BY <2>2, <2>3 DEF CarriedInv, CarriedOnce, PostRows, DocsOf
  <1>5. QED
    BY <1>3, <1>4

LEMMA OthersKeepCarried ==
  ASSUME CarriedInv, events' = events, rows' = rows
  PROVE  CarriedInv'
  BY CarriedUnchanged

\* However often and in however many processes the copy runs, and wherever it
\* is cut short, a post takes its pending event along exactly once (posts,
\* backfill.go:205-228).
THEOREM CarriedOnceHolds == Spec => []CarriedOnce
  <1>1. Init => CopyInv /\ CarriedInv
    BY CopyInit DEF Init, BackfillInit, CarriedInv, CarriedOnce, PostRows
  <1>2. CopyInv /\ CarriedInv /\ [Next]_vars => CarriedInv'
    <2> SUFFICES ASSUME CopyInv, CarriedInv, [Next]_vars PROVE CarriedInv'
      OBVIOUS
    <2>1. ASSUME NEW j \in Jobs, Migrating(j) PROVE CarriedInv'
      BY <2>1, OthersKeepCarried DEF Migrating, backfillVars, storeVars
    <2>2. ASSUME NEW j \in Jobs, Fails(j) PROVE CarriedInv'
      BY <2>2, OthersKeepCarried DEF Fails, BackfillFails, Stop, backfillVars, storeVars
    <2>3. ASSUME NEW j \in Jobs, Retry(j) \/ RunAgain(j) PROVE CarriedInv'
      BY <2>3, OthersKeepCarried
         DEF Retry, RunAgain, StartAgain, RestartBackfill, Stop, backfillVars, storeVars
    <2>4. ASSUME NEW p \in Runs, Copying(p) PROVE CarriedInv'
      <3>1. CASE \E d \in todo[p] : Insert(p, d) \/ InsertPost(p, d)
        BY <3>1, InsertKeepsCarried
      <3>2. CASE StartRun(p) \/ NextStep(p) \/ Recount(p)
        BY <3>2, OthersKeepCarried DEF StartRun, NextStep, Recount, storeVars
      <3>3. CASE \E c \in Convs : LockConversation(p, c) \/ CopyConversation(p, c)
        <4>1. rows' = rows /\ events' = events
          BY <3>3 DEF LockConversation, CopyConversation, Stop, storeVars
        <4>2. QED
          BY <4>1, OthersKeepCarried
      <3>4. QED
        BY <2>4, <3>1, <3>2, <3>3 DEF Copying, BackfillStep
    <2>5. ASSUME NEW d \in Late, Arrive(d) PROVE CarriedInv'
      BY <2>5, OthersKeepCarried DEF Arrive, LateArrival, storeVars
    <2>6. CASE UNCHANGED vars
      BY <2>6, OthersKeepCarried DEF vars, backfillVars, storeVars
    <2>7. QED
      BY <2>1, <2>2, <2>3, <2>4, <2>5, <2>6 DEF Next
  <1>3. CarriedInv => CarriedOnce
    BY DEF CarriedInv
  <1>4. QED
    BY <1>1, <1>2, <1>3, StepKeepsCopy, PTL DEF Spec

-----------------------------------------------------------------------------
(* The history of a conversation.                                          *)

\* The messages of c that a run takes into memory.
Good(c) == {d \in DocsOf("messages") : Conv[d] = c /\ d \in Readable /\ d \in Legal}

History(c) == {m \in messages : m.conv = c}
Timed(c) == \E m \in History(c) : SentAt[m.doc] # 0

HistoryTypes ==
  /\ messages \subseteq [conv : Convs, seq : Nat \ {0}, doc : Docs]
  /\ lastSeq \in [Convs -> Nat] /\ readSeq \in [Convs -> Nat]
  /\ seq0 \in [Runs -> Nat] /\ holder \in [Convs -> Runs \cup {NoRun}]

\* last_seq, once read, is current until the transaction ends.
LastSeqLocked ==
  \A p \in Runs, c \in Convs : holder[c] = p =>
    /\ bpc[p] = "held" /\ seq0[p] = lastSeq[c]
    /\ \A b \in Convs : holder[b] = p => b = c

InMemory == \A p \in Runs : \A d \in todo[p] : Kind[d] = "messages" => d \in Legal

Filed == \A m \in messages : m.doc \in Good(m.conv)

Distinct ==
  \A m, n \in messages :
    m.doc = n.doc \/ (m.conv = n.conv /\ m.seq = n.seq) => m = n

\* The first transaction on a conversation takes all of it: only what came late
\* is copied by another one.
NoneLeft == \A c \in Convs : History(c) # {} => Good(c) \ Late \subseteq Copied(c)

ByTime(c) ==
  \A m, n \in History(c) : m.seq < n.seq => SentAt[m.doc] <= SentAt[n.doc] \/ n.doc \in Late

Numbered(c) ==
  /\ Timed(c) => /\ {m.seq : m \in History(c)} = 1..lastSeq[c]
                 /\ readSeq[c] = lastSeq[c]
                 /\ ByTime(c)
  /\ ~Timed(c) => lastSeq[c] = 0 /\ (History(c) # {} => \E m \in History(c) : m.seq = 1)

HistoryInv ==
  /\ HistoryTypes /\ LastSeqLocked /\ InMemory /\ Filed /\ Distinct /\ NoneLeft
  /\ \A c \in Convs : Numbered(c)

LEMMA EarlierOrders ==
  /\ \A d \in Docs : ~Earlier(d, d)
  /\ \A d, e \in Docs : d # e => Earlier(d, e) \/ Earlier(e, d)
  /\ \A d, e, f \in Docs : Earlier(d, e) /\ Earlier(e, f) => Earlier(d, f)
  BY DocsFacts DEF Earlier

\* The position of d in S by time, from 0.
Rank(S, d) == Cardinality({e \in S : Earlier(e, d)})

\* Positions number a set without gaps, in the order of time.
LEMMA RankNumbers ==
  ASSUME NEW S \in SUBSET Docs
  PROVE  /\ IsFiniteSet(S) /\ Cardinality(S) \in Nat
         /\ \A d \in S : Rank(S, d) \in 0..(Cardinality(S) - 1)
         /\ \A d, e \in S : Earlier(d, e) => Rank(S, d) < Rank(S, e)
         /\ \A d, e \in S : Rank(S, d) = Rank(S, e) => d = e
         /\ \A i \in 0..(Cardinality(S) - 1) : \E d \in S : Rank(S, d) = i
  <1> DEFINE Before(d) == {e \in S : Earlier(e, d)}
             n == Cardinality(S)
             f == [d \in S |-> Rank(S, d)]
  <1>1. IsFiniteSet(S) /\ n \in Nat
    BY DocsAssumption, FS_Subset, FS_CardinalityType DEF DocsAssumption
  <1>2. \A d \in S : IsFiniteSet(Before(d)) /\ Rank(S, d) = Cardinality(Before(d)) /\ Rank(S, d) \in Nat
    <2> SUFFICES ASSUME NEW d \in S
                 PROVE  IsFiniteSet(Before(d)) /\ Cardinality(Before(d)) \in Nat
      BY DEF Rank
    <2>1. Before(d) \in SUBSET S
      OBVIOUS
    <2>2. QED
      BY <1>1, <2>1, FS_Subset, FS_CardinalityType
  <1>3. ASSUME NEW d \in S PROVE Rank(S, d) \in 0..(n - 1)
    <2>1. Before(d) \in SUBSET (S \ {d})
      BY EarlierOrders
    <2>2. IsFiniteSet(S \ {d}) /\ Cardinality(S \ {d}) = n - 1
      BY <1>1, FS_RemoveElement
    <2>3. Cardinality(Before(d)) <= n - 1
      BY <2>1, <2>2, FS_Subset
    <2>4. QED
      BY <1>1, <1>2, <2>3
  <1>4. ASSUME NEW d \in S, NEW e \in S, Earlier(d, e) PROVE Rank(S, d) < Rank(S, e)
    <2>1. Before(d) \in SUBSET Before(e)
      BY <1>4, EarlierOrders
    <2>2. d \in Before(e) /\ d \notin Before(d)
      BY <1>4, EarlierOrders
    <2>3. /\ Cardinality(Before(d)) <= Cardinality(Before(e))
          /\ Cardinality(Before(e)) = Cardinality(Before(d)) => Before(e) = Before(d)
      BY <1>2, <2>1, FS_Subset
    <2>4. Cardinality(Before(d)) # Cardinality(Before(e))
      BY <2>2, <2>3
    <2>5. QED
      BY <1>2, <2>3, <2>4
  <1>5. ASSUME NEW d \in S, NEW e \in S, Rank(S, d) = Rank(S, e) PROVE d = e
    <2> HIDE DEF Before, n, f
    <2>0. Rank(S, d) \in Nat
      BY <1>2, Zenon
    <2>1. ~(Rank(S, d) < Rank(S, e)) /\ ~(Rank(S, e) < Rank(S, d))
      BY <2>0, <1>5
    <2>2. ~Earlier(d, e) /\ ~Earlier(e, d)
      BY <1>4, <2>1
    <2>3. QED
      BY <2>2, EarlierOrders
  <1>6. f \in Injection(S, 0..(n - 1))
    <2>1. f \in [S -> 0..(n - 1)]
      BY <1>3
    <2>2. \A d, e \in S : f[d] = f[e] => d = e
      BY <1>5
    <2>3. QED
      BY <2>1, <2>2 DEF Injection, IsInjective
  <1>7. IsFiniteSet(0..(n - 1)) /\ Cardinality(0..(n - 1)) = n
    <2>1. 0 \in Int /\ n - 1 \in Int
      BY <1>1
    <2>2. QED
      BY <1>1, <2>1, FS_Interval
  <1>8. f \in Surjection(S, 0..(n - 1))
    BY <1>6, <1>7, FS_Injection
  <1>9. \A i \in 0..(n - 1) : \E d \in S : Rank(S, d) = i
    BY <1>8 DEF Surjection
  <1>10. QED
    BY <1>1, <1>3, <1>4, <1>5, <1>9

LEMMA QuietKeepsHistory ==
  ASSUME HistoryInv, UNCHANGED <<messages, lastSeq, readSeq, holder, seq0>>,
         \A q \in Runs : bpc[q] = "held" => bpc'[q] = "held", InMemory'
  PROVE  HistoryInv'
  <1>1. HistoryTypes' /\ LastSeqLocked' /\ Filed' /\ Distinct'
    BY DEF HistoryInv, HistoryTypes, LastSeqLocked, Filed, Distinct, Convs, DocsOf, Good
  <1>2. NoneLeft' /\ \A c \in Convs : Numbered(c)'
    BY DEF HistoryInv, NoneLeft, Numbered, Timed, ByTime, History, Copied, Good, Convs, DocsOf
  <1>3. QED
    BY <1>1, <1>2 DEF HistoryInv, Convs, DocsOf

LEMMA StopKeepsHistory ==
  ASSUME CopyInv, HistoryInv, NEW p \in Runs, NEW how, Stop(p, how)
  PROVE  HistoryInv'
  <1>1. UNCHANGED <<messages, lastSeq, readSeq>>
    BY DEF Stop, storeVars
  <1>2. HistoryTypes' /\ Filed' /\ Distinct' /\ InMemory'
    <2>1. holder' \in [Convs -> Runs \cup {NoRun}] /\ seq0' \in [Runs -> Nat]
      BY DEF HistoryInv, HistoryTypes, Stop
    <2>2. HistoryTypes'
      BY <1>1, <2>1 DEF HistoryInv, HistoryTypes, Convs, DocsOf
    <2>3. InMemory'
      BY DEF HistoryInv, InMemory, Stop, CopyInv, CopyTypes
    <2>4. QED
      BY <1>1, <2>2, <2>3 DEF HistoryInv, Filed, Distinct, Good, DocsOf
  <1>3. LastSeqLocked'
    <2> SUFFICES ASSUME NEW q \in Runs, NEW c \in Convs, holder'[c] = q
                 PROVE  /\ bpc'[q] = "held" /\ seq0'[q] = lastSeq'[c]
                        /\ \A b \in Convs : holder'[b] = q => b = c
      BY DEF LastSeqLocked, Convs, DocsOf
    <2>1. q # p /\ holder[c] = q
      BY DocsFacts DEF Stop
    <2>2. \A b \in Convs : holder'[b] = q => holder[b] = q
      BY <2>1, DocsFacts DEF Stop
    <2>3. bpc'[q] = bpc[q] /\ seq0'[q] = seq0[q]
      BY <2>1 DEF Stop, CopyInv, CopyTypes, HistoryInv, HistoryTypes
    <2>4. QED
      BY <1>1, <2>1, <2>2, <2>3 DEF HistoryInv, LastSeqLocked
  <1>4. NoneLeft' /\ \A c \in Convs : Numbered(c)'
    BY <1>1 DEF HistoryInv, NoneLeft, Numbered, Timed, ByTime, History, Copied, Good, Convs, DocsOf
  <1>5. QED
    BY <1>2, <1>3, <1>4 DEF HistoryInv, Convs, DocsOf

LEMMA LockKeepsHistory ==
  ASSUME CopyInv, HistoryInv, NEW p \in Runs, NEW c \in Convs, LockConversation(p, c)
  PROVE  HistoryInv'
  <1>1. UNCHANGED <<messages, lastSeq, readSeq, todo>> /\ bpc[p] = "copy" /\ holder[c] = NoRun
    BY DEF LockConversation, storeVars
  <1>2. HistoryTypes' /\ Filed' /\ Distinct' /\ InMemory'
    <2>1. holder' \in [Convs -> Runs \cup {NoRun}] /\ seq0' \in [Runs -> Nat]
      BY DEF HistoryInv, HistoryTypes, LockConversation
    <2>2. HistoryTypes'
      BY <1>1, <2>1 DEF HistoryInv, HistoryTypes, Convs, DocsOf
    <2>3. QED
      BY <1>1, <2>2 DEF HistoryInv, Filed, Distinct, Good, DocsOf, InMemory
  <1>3. \A b \in Convs : holder[b] # p
    BY <1>1 DEF HistoryInv, LastSeqLocked
  <1>4. /\ holder'[c] = p /\ seq0'[p] = lastSeq[c] /\ bpc'[p] = "held"
        /\ \A b \in Convs : b # c => holder'[b] = holder[b]
        /\ \A q \in Runs : q # p => seq0'[q] = seq0[q] /\ bpc'[q] = bpc[q]
    BY DEF LockConversation, HistoryInv, HistoryTypes, CopyInv, CopyTypes
  <1>5. LastSeqLocked'
    <2> SUFFICES ASSUME NEW q \in Runs, NEW a \in Convs, holder'[a] = q
                 PROVE  /\ bpc'[q] = "held" /\ seq0'[q] = lastSeq'[a]
                        /\ \A b \in Convs : holder'[b] = q => b = a
      BY DEF LastSeqLocked, Convs, DocsOf
    <2>1. CASE q = p
      BY <1>1, <1>3, <1>4, <2>1
    <2>2. CASE q # p
      <3>1. a # c /\ holder[a] = q
        BY <1>4, <2>2
      <3>2. \A b \in Convs : holder'[b] = q => holder[b] = q
        BY <1>4, <2>2
      <3>3. QED
        BY <1>1, <1>4, <2>2, <3>1, <3>2 DEF HistoryInv, LastSeqLocked
    <2>3. QED
      BY <2>1, <2>2
  <1>6. NoneLeft' /\ \A b \in Convs : Numbered(b)'
    BY <1>1 DEF HistoryInv, NoneLeft, Numbered, Timed, ByTime, History, Copied, Good, Convs, DocsOf
  <1>7. QED
    BY <1>2, <1>5, <1>6 DEF HistoryInv, Convs, DocsOf

\* A late message carries its time.  (One without leaves lastAt zero in
\* copyConversation, and last_seq behind: backfill.go:394.)
LateTimed == \A d \in Late : SentAt[d] # 0

\* At the messages step a run has every message that is not late in memory,
\* unless it is copied.
LEMMA MessagesAtHand ==
  ASSUME CopyInv, NEW p \in Runs, NEW c \in Convs, NEW x \in todo[p], Kind[x] = "messages",
         bpc[p] = "held", NEW d \in Good(c) \ Late
  PROVE  d \in todo[p] \/ d \in Copied(c)
  <1>1. RunInv(p) /\ CopyTypes /\ d \in Docs /\ Kind[d] = "messages" /\ Conv[d] = c
    BY DEF CopyInv, Good, DocsOf
  <1>2. step[p] \in 1..8 /\ Kind[x] = Steps[step[p]]
    BY <1>1 DEF CopyTypes, RunInv, Report
  <1>3. d \in DocsOf(Steps[step[p]]) /\ step[p] <= step[p]
    BY <1>1, <1>2 DEF DocsOf
  <1>4. outcome[p][d] # "unread"
    BY <1>1, <1>2, <1>3 DEF RunInv, Report
  <1>5. outcome[p][d] # "rejected"
    BY <1>1 DEF RunInv, RejectedForGood, Good
  <1>6. CASE outcome[p][d] = "read"
    BY <1>1, <1>6 DEF RunInv, Report
  <1>7. CASE outcome[p][d] = "kept"
    BY <1>1, <1>7 DEF RunInv, KeptIsThere, Stored
  <1>8. QED
    BY <1>1, <1>4, <1>5, <1>6, <1>7 DEF CopyTypes

LEMMA CopyKeepsHistory ==
  ASSUME LateTimed, CopyInv, HistoryInv, NEW p \in Runs, NEW c \in Convs,
         CopyConversation(p, c)
  PROVE  HistoryInv'
  <1> DEFINE new == Msgs(p, c) \ Copied(c)
             n == Cardinality(new)
             L == lastSeq[c]
             num(d) == seq0[p] + Cardinality({e \in new : Earlier(e, d)}) + 1
             top(was) == IF \A d \in new : SentAt[d] = 0 THEN was ELSE seq0[p] + n
             taken == \E m \in messages, d \in new : m.conv = c /\ m.seq = num(d)
  <1>1. bpc[p] = "held" /\ holder[c] = p /\ seq0[p] = L /\ L \in Nat
    BY DEF CopyConversation, HistoryInv, LastSeqLocked, HistoryTypes
  <1>2. CASE Stop(p, "clash")
    BY <1>2, StopKeepsHistory
  <1>3. CASE /\ ~taken
             /\ messages' = messages \cup {[conv |-> c, seq |-> num(d), doc |-> d] : d \in new}
             /\ lastSeq' = [lastSeq EXCEPT ![c] = top(@)]
             /\ readSeq' = [readSeq EXCEPT ![c] = top(@)]
             /\ holder' = [holder EXCEPT ![c] = NoRun]
             /\ seq0' = [seq0 EXCEPT ![p] = 0]
             /\ bpc' = [bpc EXCEPT ![p] = "copy"]
             /\ Settle(p, Msgs(p, c), "kept")
    <2> DEFINE at0(d) == L + Rank(new, d) + 1
               msg(d) == [conv |-> c, seq |-> at0(d), doc |-> d]
    <2>1. new \in SUBSET Docs /\ \A d \in new : d \in Good(c) /\ d \in todo[p] /\ d \notin Copied(c)
                                              /\ Kind[d] = "messages" /\ Conv[d] = c
      BY DEF Msgs, CopyInv, CopyTypes, HistoryInv, InMemory, RunInv, Report, Good, DocsOf
    <2>2. \A d \in new : num(d) = at0(d)
      BY <1>1 DEF Rank
    <2>3. \A m \in messages, d \in new : m.conv = c => m.seq # at0(d)
      BY <1>3, <2>2
    <2>4. messages' = messages \cup {msg(d) : d \in new}
      BY <1>3, <2>2
    <2>5. /\ lastSeq'[c] = IF \A d \in new : SentAt[d] = 0 THEN L ELSE L + n
          /\ readSeq'[c] = IF \A d \in new : SentAt[d] = 0 THEN readSeq[c] ELSE L + n
          /\ \A b \in Convs : b # c => lastSeq'[b] = lastSeq[b] /\ readSeq'[b] = readSeq[b]
      BY <1>1, <1>3 DEF HistoryInv, HistoryTypes
    <2>6. /\ n \in Nat
          /\ \A d \in new : Rank(new, d) \in 0..(n - 1)
          /\ \A d, e \in new : Earlier(d, e) => Rank(new, d) < Rank(new, e)
          /\ \A d, e \in new : Rank(new, d) = Rank(new, e) => d = e
          /\ \A i \in 0..(n - 1) : \E d \in new : Rank(new, d) = i
      BY <2>1, RankNumbers
    <2>7. /\ HistoryTypes /\ LastSeqLocked /\ InMemory /\ Filed /\ Distinct /\ NoneLeft
          /\ \A b \in Convs : Numbered(b)
      BY DEF HistoryInv
    <2> HIDE DEF new, n, L, num, top, taken
    <2>8. \A d \in new : at0(d) \in Nat \ {0} /\ at0(d) > L
      BY <1>1, <2>6
    <2>9. HistoryTypes'
      <3>1. messages' \subseteq [conv : Convs, seq : Nat \ {0}, doc : Docs]
        BY <2>1, <2>4, <2>7, <2>8 DEF HistoryTypes
      <3>2. lastSeq' \in [Convs -> Nat] /\ readSeq' \in [Convs -> Nat]
        BY <1>1, <1>3, <2>6, <2>7 DEF HistoryTypes, top
      <3>3. seq0' \in [Runs -> Nat] /\ holder' \in [Convs -> Runs \cup {NoRun}]
        BY <1>3, <2>7 DEF HistoryTypes
      <3>4. QED
        BY <3>1, <3>2, <3>3 DEF HistoryTypes, Convs, DocsOf
    <2>10. LastSeqLocked'
      <3> SUFFICES ASSUME NEW q \in Runs, NEW a \in Convs, holder'[a] = q
                   PROVE  /\ bpc'[q] = "held" /\ seq0'[q] = lastSeq'[a]
                          /\ \A b \in Convs : holder'[b] = q => b = a
        BY DEF LastSeqLocked, Convs, DocsOf
      <3>1. /\ holder'[c] = NoRun
            /\ \A b \in Convs : b # c => holder'[b] = holder[b]
        BY <1>3, <2>7 DEF HistoryTypes
      <3>2. a # c /\ holder[a] = q
        BY <3>1, DocsFacts
      <3>3. q # p
        BY <1>1, <2>7, <3>2 DEF LastSeqLocked
      <3>4. bpc'[q] = bpc[q] /\ seq0'[q] = seq0[q] /\ lastSeq'[a] = lastSeq[a]
        BY <1>3, <2>5, <2>7, <3>2, <3>3 DEF HistoryTypes, CopyInv, CopyTypes
      <3>5. \A b \in Convs : holder'[b] = q => holder[b] = q
        BY <3>1, DocsFacts
      <3>6. QED
        BY <2>7, <3>2, <3>4, <3>5 DEF LastSeqLocked
    <2>11. InMemory'
      <3>1. \A q \in Runs : todo'[q] \subseteq todo[q]
        BY <1>3 DEF Settle, CopyInv, CopyTypes
      <3>2. QED
        BY <2>7, <3>1 DEF InMemory
    <2>12. Filed'
      <3>1. \A m \in messages' : m.doc \in Good(m.conv)
        BY <2>1, <2>4, <2>7 DEF Filed
      <3>2. QED
        BY <3>1 DEF Filed, Good, DocsOf
    <2>13. Distinct'
      <3>1. ASSUME NEW m \in messages, NEW d \in new
            PROVE  m.doc # d /\ ~(m.conv = c /\ m.seq = at0(d))
        <4>1. m.doc = d => m.conv = c
          BY <2>1, <2>7 DEF Filed, Good
        <4>2. m.doc # d
          BY <2>1, <4>1 DEF Copied
        <4>3. QED
          BY <2>3, <4>2
      <3>2. ASSUME NEW d \in new, NEW e \in new, at0(d) = at0(e)
            PROVE  d = e
        <4>1. Rank(new, d) = Rank(new, e)
          BY <1>1, <2>6, <3>2
        <4>2. QED
          BY <2>6, <4>1
      <3>3. ASSUME NEW k \in messages', NEW m \in messages',
                   k.doc = m.doc \/ (k.conv = m.conv /\ k.seq = m.seq)
            PROVE  k = m
        <4>1. CASE k \in messages /\ m \in messages
          BY <2>7, <3>3, <4>1 DEF Distinct
        <4>2. CASE k \in messages /\ m \notin messages
          BY <2>4, <3>1, <3>3, <4>2
        <4>3. CASE k \notin messages /\ m \in messages
          BY <2>4, <3>1, <3>3, <4>3
        <4>4. CASE k \notin messages /\ m \notin messages
          <5>1. PICK d \in new : k = msg(d)
            BY <2>4, <4>4
          <5>2. PICK e \in new : m = msg(e)
            BY <2>4, <4>4
          <5>3. d = e
            BY <3>2, <3>3, <5>1, <5>2
          <5>4. QED
            BY <5>1, <5>2, <5>3
        <4>5. QED
          BY <4>1, <4>2, <4>3, <4>4
      <3>4. QED
        BY <3>3 DEF Distinct
    <2>14. /\ \A b \in Convs : b # c => History(b)' = History(b) /\ Copied(b)' = Copied(b)
           /\ History(c)' = History(c) \cup {msg(d) : d \in new}
           /\ Copied(c)' = Copied(c) \cup new
      <3>1. \A d \in new : msg(d).conv = c /\ msg(d).doc = d
        OBVIOUS
      <3> HIDE DEF msg
      <3>2. ASSUME NEW b \in Convs, b # c PROVE History(b)' = History(b) /\ Copied(b)' = Copied(b)
        <4>1. {m \in messages' : m.conv = b} = {m \in messages : m.conv = b}
          BY <2>4, <3>1, <3>2
        <4>2. QED
          BY <4>1 DEF History, Copied
      <3>3. {m \in messages' : m.conv = c} = {m \in messages : m.conv = c} \cup {msg(d) : d \in new}
        BY <2>4, <3>1
      <3>4. Copied(c)' = Copied(c) \cup new
        BY <3>1, <3>3 DEF Copied
      <3>5. QED
        BY <3>2, <3>3, <3>4 DEF History
    <2>15. NoneLeft'
      <3> SUFFICES ASSUME NEW b \in Convs, History(b)' # {}, NEW d \in Good(b) \ Late
                   PROVE  d \in Copied(b)'
        BY DEF NoneLeft, Convs, Good, DocsOf
      <3>1. CASE b # c
        BY <2>7, <2>14, <3>1 DEF NoneLeft
      <3>2. CASE b = c /\ History(c) # {}
        BY <2>7, <2>14, <3>2 DEF NoneLeft
      <3>3. CASE b = c /\ History(c) = {}
        <4>1. PICK x \in new : TRUE
          BY <2>14, <3>3
        <4>2. d \in todo[p] \/ d \in Copied(c)
          BY <1>1, <2>1, <3>3, <4>1, MessagesAtHand
        <4>3. d \in Copied(c) \/ d \in new
          BY <3>3, <4>2 DEF new, Msgs, Good, DocsOf
        <4>4. QED
          BY <2>14, <3>3, <4>3
      <3>4. QED
        BY <3>1, <3>2, <3>3
    <2>16. ASSUME NEW b \in Convs, b # c PROVE Numbered(b)'
      BY <2>5, <2>7, <2>14, <2>16 DEF Numbered, Timed, ByTime
    <2>17. Numbered(c)'
      <3>1. CASE new = {}
        <4>1. History(c)' = History(c) /\ lastSeq'[c] = lastSeq[c] /\ readSeq'[c] = readSeq[c]
          BY <2>5, <2>14, <3>1 DEF L
        <4>2. QED
          BY <2>7, <4>1 DEF Numbered, Timed, ByTime
      <3>2. CASE new # {} /\ History(c) = {}
        <4>1. L = 0
          BY <2>7, <3>2 DEF Numbered, Timed, L
        <4>2. History(c)' = {msg(d) : d \in new}
          BY <2>14, <3>2
        <4>3. n > 0
          BY <2>6, <3>2
        <4>4. \E m \in History(c)' : m.seq = 1
          <5>1. PICK d \in new : Rank(new, d) = 0
            BY <2>6, <4>3
          <5>2. msg(d) \in History(c)' /\ msg(d).seq = 1
            BY <4>1, <4>2, <5>1
          <5>3. QED
            BY <5>2
        <4>5. {m.seq : m \in History(c)'} = 1..n
          <5>1. ASSUME NEW d \in new PROVE msg(d).seq \in 1..n
            BY <2>6, <4>1
          <5>2. ASSUME NEW i \in 1..n PROVE \E d \in new : msg(d).seq = i
            <6>1. PICK d \in new : Rank(new, d) = i - 1
              BY <2>6
            <6>2. QED
              BY <4>1, <6>1
          <5>3. QED
            BY <4>2, <5>1, <5>2, ZenonT(60)
        <4>6. ByTime(c)'
          <5> SUFFICES ASSUME NEW k \in History(c)', NEW m \in History(c)', k.seq < m.seq
                       PROVE  SentAt[k.doc] <= SentAt[m.doc]
            BY DEF ByTime
          <5>1. PICK d \in new : k = msg(d)
            BY <4>2
          <5>2. PICK e \in new : m = msg(e)
            BY <4>2
          <5>3. Rank(new, d) < Rank(new, e)
            BY <2>6, <4>1, <5>1, <5>2
          <5>4. d # e /\ ~Earlier(e, d)
            BY <2>6, <5>3
          <5>5. Earlier(d, e)
            BY <2>1, <5>4, EarlierOrders
          <5>6. QED
            BY <2>1, <5>1, <5>2, <5>5, DocsFacts DEF Earlier
        <4>7. Timed(c)' <=> \E d \in new : SentAt[d] # 0
          <5>1. \A d \in new : msg(d) \in History(c)' /\ msg(d).doc = d
            BY <4>2
          <5>2. \A m \in History(c)' : \E d \in new : m.doc = d
            BY <4>2
          <5>3. QED
            BY <5>1, <5>2 DEF Timed
        <4>8. QED
          BY <2>5, <4>1, <4>2, <4>4, <4>5, <4>6, <4>7, <2>6 DEF Numbered
      <3>3. CASE new # {} /\ History(c) # {}
        <4>1. \A d \in new : d \in Late /\ SentAt[d] # 0
          BY <2>1, <2>7, <3>3 DEF NoneLeft, LateTimed
        <4>2. n > 0
          BY <2>6, <3>3
        <4>3. Timed(c)
          <5> SUFFICES ASSUME ~Timed(c) PROVE FALSE
            OBVIOUS
          <5>1. L = 0 /\ \E m \in History(c) : m.seq = 1
            BY <2>7, <3>3 DEF Numbered, L
          <5>2. PICK d \in new : Rank(new, d) = 0
            BY <2>6, <4>2
          <5>3. at0(d) = 1
            BY <5>1, <5>2
          <5>4. QED
            BY <2>3, <5>1, <5>3 DEF History
        <4>4. {m.seq : m \in History(c)} = 1..L /\ readSeq[c] = L /\ ByTime(c)
          BY <2>7, <4>3 DEF Numbered, L
        <4>5. lastSeq'[c] = L + n /\ readSeq'[c] = L + n
          BY <2>5, <3>3, <4>1
        <4>6. {m.seq : m \in History(c)'} = 1..(L + n)
          <5>1. ASSUME NEW m \in History(c)' PROVE m.seq \in 1..(L + n)
            <6>1. CASE m \in History(c)
              BY <1>1, <2>6, <4>4, <6>1
            <6>2. CASE m \notin History(c)
              <7>1. PICK d \in new : m = msg(d)
                BY <2>14, <6>2
              <7>2. QED
                BY <1>1, <2>6, <7>1
            <6>3. QED
              BY <6>1, <6>2
          <5>2. ASSUME NEW i \in 1..(L + n) PROVE \E m \in History(c)' : m.seq = i
            <6>1. CASE i <= L
              BY <1>1, <2>14, <4>4, <6>1
            <6>2. CASE i > L
              <7>1. i - L - 1 \in 0..(n - 1)
                BY <1>1, <2>6, <6>2
              <7>2. PICK d \in new : Rank(new, d) = i - L - 1
                BY <2>6, <7>1
              <7>3. msg(d) \in History(c)' /\ msg(d).seq = i
                BY <1>1, <2>14, <7>2
              <7>4. QED
                BY <7>3
            <6>3. QED
              BY <1>1, <6>1, <6>2
          <5>3. QED
            BY <5>1, <5>2
        <4>7. ByTime(c)'
          <5> SUFFICES ASSUME NEW k \in History(c)', NEW m \in History(c)', k.seq < m.seq
                       PROVE  SentAt[k.doc] <= SentAt[m.doc] \/ m.doc \in Late
            BY DEF ByTime
          <5>1. CASE m \notin History(c)
            BY <2>14, <4>1, <5>1
          <5>2. CASE m \in History(c)
            <6>1. m.seq \in 1..L
              BY <4>4, <5>2
            <6>2. k \in History(c)
              <7> SUFFICES ASSUME k \notin History(c) PROVE FALSE
                OBVIOUS
              <7>1. PICK d \in new : k = msg(d)
                BY <2>14
              <7>2. k.seq > L
                BY <2>8, <7>1
              <7>3. QED
                BY <1>1, <2>8, <6>1, <7>1, <7>2
            <6>3. QED
              BY <4>4, <5>2, <6>2 DEF ByTime
          <5>3. QED
            BY <5>1, <5>2
        <4>8. Timed(c)'
          BY <2>14, <4>3 DEF Timed
        <4>9. QED
          BY <4>5, <4>6, <4>7, <4>8 DEF Numbered
      <3>4. QED
        BY <3>1, <3>2, <3>3
    <2>18. QED
      BY <2>9, <2>10, <2>11, <2>12, <2>13, <2>15, <2>16, <2>17 DEF HistoryInv, Convs, DocsOf
  <1>4. QED
    BY <1>2, <1>3 DEF CopyConversation

LEMMA HistoryInit == BackfillInit => HistoryInv
  <1> SUFFICES ASSUME BackfillInit PROVE HistoryInv
    OBVIOUS
  <1> USE DEF BackfillInit
  <1>1. HistoryTypes
    BY DEF HistoryTypes
  <1>2. LastSeqLocked
    BY DocsFacts DEF LastSeqLocked
  <1>3. InMemory /\ Filed /\ Distinct /\ NoneLeft
    BY DEF InMemory, Filed, Distinct, NoneLeft, History
  <1>4. \A c \in Convs : Numbered(c)
    BY DEF Numbered, Timed, History
  <1>5. QED
    BY <1>1, <1>2, <1>3, <1>4 DEF HistoryInv

LEMMA ScanKeepsMemory ==
  ASSUME CopyInv, HistoryInv, NEW p \in Runs, NEW k, Scan(p, k)
  PROVE  InMemory'
  <1>1. ASSUME NEW q \in Runs, q # p PROVE todo'[q] = todo[q]
    BY <1>1 DEF Scan, CopyInv, CopyTypes
  <1>2. ASSUME NEW d \in todo'[p], Kind[d] = "messages" PROVE d \in Legal
    BY <1>2 DEF Scan, CopyInv, CopyTypes, DocsOf
  <1>3. QED
    BY <1>1, <1>2 DEF HistoryInv, InMemory

LEMMA RunKeepsHistory ==
  ASSUME LateTimed, CopyInv, HistoryInv, NEW p \in Runs, BackfillStep(p)
  PROVE  HistoryInv'
  <1>1. CASE StartRun(p) \/ NextStep(p)
    <2>1. UNCHANGED <<messages, lastSeq, readSeq, holder, seq0>>
      BY <1>1 DEF StartRun, NextStep, storeVars
    <2>2. \A q \in Runs : bpc[q] = "held" => bpc'[q] = "held"
      BY <1>1 DEF StartRun, NextStep, CopyInv, CopyTypes
    <2>3. InMemory'
      <3>1. (\E k : Scan(p, k)) \/ todo' = todo
        BY <1>1 DEF StartRun, NextStep
      <3>2. QED
        BY <3>1, ScanKeepsMemory DEF HistoryInv, InMemory
    <2>4. QED
      BY <2>1, <2>2, <2>3, QuietKeepsHistory
  <1>2. CASE Recount(p)
    <2>1. UNCHANGED <<messages, lastSeq, readSeq, holder, seq0, todo>>
      BY <1>2 DEF Recount
    <2>2. \A q \in Runs : bpc[q] = "held" => bpc'[q] = "held"
      BY <1>2 DEF Recount, CopyInv, CopyTypes
    <2>3. QED
      BY <2>1, <2>2, QuietKeepsHistory DEF HistoryInv, InMemory
  <1>3. ASSUME NEW d \in todo[p], Insert(p, d) \/ InsertPost(p, d) PROVE HistoryInv'
    <2>1. UNCHANGED <<messages, lastSeq, readSeq, holder, seq0, bpc>>
      BY <1>3 DEF Insert, InsertPost
    <2>2. \A q \in Runs : todo'[q] \subseteq todo[q]
      BY <1>3 DEF Insert, InsertPost, Settle, CopyInv, CopyTypes
    <2>3. InMemory'
      BY <2>2 DEF HistoryInv, InMemory
    <2>4. QED
      BY <2>1, <2>3, QuietKeepsHistory
  <1>4. QED
    BY <1>1, <1>2, <1>3, LockKeepsHistory, CopyKeepsHistory DEF BackfillStep

LEMMA StepKeepsHistory ==
  ASSUME LateTimed
  PROVE  CopyInv /\ HistoryInv /\ [Next]_vars => HistoryInv'
  <1> SUFFICES ASSUME CopyInv, HistoryInv, [Next]_vars PROVE HistoryInv'
    OBVIOUS
  <1>1. ASSUME UNCHANGED backfillVars PROVE HistoryInv'
    BY <1>1, QuietKeepsHistory DEF backfillVars, storeVars, runVars, HistoryInv, InMemory
  <1>2. ASSUME NEW j \in Jobs, Migrating(j) PROVE HistoryInv'
    BY <1>1, <1>2 DEF Migrating
  <1>3. ASSUME NEW j \in Jobs, Fails(j) PROVE HistoryInv'
    BY <1>1, <1>3, StopKeepsHistory DEF Fails, BackfillFails
  <1>4. ASSUME NEW j \in Jobs, Retry(j) \/ RunAgain(j) PROVE HistoryInv'
    BY <1>1, <1>4, StopKeepsHistory DEF Retry, RunAgain, StartAgain, RestartBackfill
  <1>5. ASSUME NEW p \in Runs, Copying(p) PROVE HistoryInv'
    BY <1>5, RunKeepsHistory DEF Copying
  <1>6. ASSUME NEW d \in Late, Arrive(d) PROVE HistoryInv'
    <2>1. UNCHANGED <<messages, lastSeq, readSeq, holder, seq0, bpc, todo>>
      BY <1>6 DEF Arrive, LateArrival, storeVars, runVars
    <2>2. QED
      BY <2>1, QuietKeepsHistory DEF HistoryInv, InMemory
  <1>7. CASE UNCHANGED vars
    BY <1>1, <1>7 DEF vars
  <1>8. QED
    BY <1>2, <1>3, <1>4, <1>5, <1>6, <1>7 DEF Next

LEMMA NumberedHistory ==
  ASSUME HistoryInv, NEW c \in Convs, Timed(c)
  PROVE  Cardinality(History(c)) = lastSeq[c] /\ Cardinality(Copied(c)) = lastSeq[c]
  <1> DEFINE h == History(c)
             L == lastSeq[c]
             f == [m \in h |-> m.seq]
             g == [m \in h |-> m.doc]
  <1>1. L \in Nat /\ {m.seq : m \in h} = 1..L /\ Copied(c) = {m.doc : m \in h}
    BY DEF HistoryInv, HistoryTypes, Numbered, Copied, History
  <1>2. \A k, m \in h : k.seq = m.seq \/ k.doc = m.doc => k = m
    BY DEF HistoryInv, Distinct, History
  <1>3. f \in Injection(h, 1..L) /\ f \in Surjection(h, 1..L)
    <2>1. f \in [h -> 1..L] /\ \A i \in 1..L : \E m \in h : f[m] = i
      BY <1>1
    <2>2. QED
      BY <1>2, <2>1 DEF Injection, Surjection, IsInjective
  <1>4. IsFiniteSet(1..L) /\ Cardinality(1..L) = L
    <2>1. 1 \in Int /\ L \in Int
      BY <1>1
    <2>2. QED
      BY <1>1, <2>1, FS_Interval, SMTT(30)
  <1>5. IsFiniteSet(h) /\ Cardinality(h) = L
    BY <1>3, <1>4, FS_Injection
  <1>6. g \in Injection(h, Copied(c)) /\ g \in Surjection(h, Copied(c))
    <2>1. g \in [h -> Copied(c)] /\ \A d \in Copied(c) : \E m \in h : g[m] = d
      BY <1>1
    <2>2. QED
      BY <1>2, <2>1 DEF Injection, Surjection, IsInjective
  <1>7. Cardinality(Copied(c)) = L
    BY <1>5, <1>6, FS_Surjection
  <1>8. QED
    BY <1>5, <1>7

LEMMA HistoryInvImpliesByTime == HistoryInv => HistoryByTime
  <1> SUFFICES ASSUME HistoryInv, NEW c \in Convs, Timed(c)
               PROVE  /\ {m.seq : m \in History(c)} = 1..lastSeq[c]
                      /\ Cardinality(History(c)) = lastSeq[c] /\ Cardinality(Copied(c)) = lastSeq[c]
                      /\ \A m, n \in History(c) :
                           m.seq < n.seq => SentAt[m.doc] <= SentAt[n.doc] \/ n.doc \in Late
                      /\ readSeq[c] = lastSeq[c]
    BY DEF HistoryByTime, Timed, History
  <1>1. Numbered(c)
    BY DEF HistoryInv
  <1>2. QED
    BY <1>1, NumberedHistory DEF Numbered, ByTime

\* Provided that late messages carry their time, a conversation is numbered from
\* 1 without gaps and by time, each message once, whatever runs of the backfill
\* interleave on it, die in it or come back to it (copyConversation,
\* backfill.go:359-408).
THEOREM HistoryByTimeHolds == LateTimed => (Spec => []HistoryByTime)
  <1> SUFFICES ASSUME LateTimed PROVE Spec => []HistoryByTime
    OBVIOUS
  <1>1. Init => CopyInv /\ HistoryInv
    BY CopyInit, HistoryInit DEF Init
  <1>2. CopyInv /\ HistoryInv /\ [Next]_vars => CopyInv' /\ HistoryInv'
    BY StepKeepsCopy, StepKeepsHistory
  <1>3. CopyInv /\ HistoryInv => HistoryByTime
    BY HistoryInvImpliesByTime
  <1>4. QED
    BY <1>1, <1>2, <1>3, PTL DEF Spec
=============================================================================
