------------------------------ MODULE Migrate -------------------------------
(***************************************************************************)
(* Schema migrations: Migrate of shared/db/migrate.go, as the jobs         *)
(* cmd/migrate and cmd/backfill run it at the same time, with images that  *)
(* may disagree about a file.                                              *)
(*                                                                         *)
(* A file is its number in name order.  Its SQL and its schema_migrations  *)
(* row are one transaction, so one step; the statements of two jobs        *)
(* interleave wherever the advisory lock lets them.  A job that dies loses *)
(* its session, and PostgreSQL releases the session's advisory lock.       *)
(***************************************************************************)
EXTENDS Integers, Sequences

CONSTANTS
  Jobs,    \* processes that call Migrate
  Files,   \* number of *.sql files
  Image    \* Image[j][v]: checksum of file v in the image of j

NoJob == "nobody"
NotApplied == 0
ASSUME ImageAssumption ==
  /\ Files \in Nat /\ NoJob \notin Jobs
  /\ Image \in [Jobs -> [1..Files -> Nat \ {NotApplied}]]

VARIABLES
  lock,   \* session that holds the advisory lock
  table,  \* schema_migrations: version -> checksum
  log,    \* history: the files whose SQL was committed, in that order
  mpc,    \* mpc[j]: "off", "lock", "read", "apply", "done", or how it failed:
          \* "refused" edited file, "clash" refused by the database, "failed"
  seen,   \* seen[j]: the map applied that j read
  at      \* at[j]: the file the loop is at

migrateVars == <<lock, table, log, mpc, seen, at>>

Empty == [v \in 1..Files |-> NotApplied]

MigrateInit ==
  /\ lock = NoJob
  /\ table = Empty
  /\ log = <<>>
  /\ mpc = [j \in Jobs |-> "off"]
  /\ seen = [j \in Jobs |-> Empty]
  /\ at = [j \in Jobs |-> 1]

\* Mutant: a failed run leaves its lock behind.
ReturnLocked(j, outcome) ==
  /\ mpc' = [mpc EXCEPT ![j] = outcome]
  /\ lock' = IF lock = j /\ outcome = "done" THEN NoJob ELSE lock
  /\ seen' = [seen EXCEPT ![j] = Empty]
  /\ at' = [at EXCEPT ![j] = 1]

\* Migrate returns: the deferred unlock, or the end of the session.
Return(j, outcome) ==
  /\ mpc' = [mpc EXCEPT ![j] = outcome]
  /\ lock' = IF lock = j THEN NoJob ELSE lock
  /\ seen' = [seen EXCEPT ![j] = Empty]
  /\ at' = [at EXCEPT ![j] = 1]

\* LoadMigrations and pool.Acquire.
StartMigrate(j) ==
  /\ mpc[j] = "off"
  /\ mpc' = [mpc EXCEPT ![j] = "lock"]
  /\ UNCHANGED <<lock, table, log, seen, at>>

\* pg_advisory_lock waits.
TakeLock(j) ==
  /\ mpc[j] = "lock" /\ lock = NoJob
  /\ lock' = j
  /\ mpc' = [mpc EXCEPT ![j] = "read"]
  /\ UNCHANGED <<table, log, seen, at>>

\* CREATE TABLE IF NOT EXISTS schema_migrations, then the map applied.
ReadApplied(j) ==
  /\ mpc[j] = "read"
  /\ seen' = [seen EXCEPT ![j] = table]
  /\ mpc' = [mpc EXCEPT ![j] = "apply"]
  /\ UNCHANGED <<lock, table, log, at>>

\* Mutant: a version that is there is not compared.
SkipAnyApplied(j) ==
  /\ mpc[j] = "apply" /\ at[j] <= Files
  /\ seen[j][at[j]] # NotApplied
  /\ at' = [at EXCEPT ![j] = @ + 1]
  /\ UNCHANGED <<lock, table, log, mpc, seen>>

SkipApplied(j) ==
  /\ mpc[j] = "apply" /\ at[j] <= Files
  /\ seen[j][at[j]] = Image[j][at[j]]
  /\ at' = [at EXCEPT ![j] = @ + 1]
  /\ UNCHANGED <<lock, table, log, mpc, seen>>

RefuseEdited(j) ==
  /\ mpc[j] = "apply" /\ at[j] <= Files
  /\ seen[j][at[j]] \notin {NotApplied, Image[j][at[j]]}
  /\ Return(j, "refused")
  /\ UNCHANGED <<table, log>>

\* The transaction of one file.  Its version row is refused if another job has
\* applied the file since the map was read.
ApplyFile(j) ==
  LET v == at[j]
  IN  /\ mpc[j] = "apply" /\ v <= Files
      /\ seen[j][v] = NotApplied
      /\ \/ /\ table[v] = NotApplied
            /\ table' = [table EXCEPT ![v] = Image[j][v]]
            /\ log' = Append(log, v)
            /\ at' = [at EXCEPT ![j] = v + 1]
            /\ UNCHANGED <<lock, mpc, seen>>
         \/ /\ table[v] # NotApplied
            /\ Return(j, "clash")
            /\ UNCHANGED <<table, log>>

FinishMigrate(j) ==
  /\ mpc[j] = "apply" /\ at[j] > Files
  /\ Return(j, "done")
  /\ UNCHANGED <<table, log>>

\* A call fails or the process dies; an open transaction leaves no trace.  A
\* COMMIT that took effect but was not answered is ApplyFile and then this.
MigrateFails(j) ==
  /\ mpc[j] \in {"lock", "read", "apply"}
  /\ Return(j, "failed")
  /\ UNCHANGED <<table, log>>

\* The job is started once more.
RestartMigrate(j) ==
  /\ mpc[j] \in {"failed", "done"}
  /\ Return(j, "off")
  /\ UNCHANGED <<table, log>>

MigrateStep(j) ==
  \/ StartMigrate(j) \/ TakeLock(j) \/ ReadApplied(j)
  \/ SkipApplied(j) \/ RefuseEdited(j) \/ ApplyFile(j) \/ FinishMigrate(j)

-----------------------------------------------------------------------------
(* What makes it correct.                                                  *)

\* The database matches the code: every file is applied once and in order, and
\* a job that got past Migrate, now or long ago, runs on exactly the schema of
\* its image, however many jobs migrate at once, crash in between or bring an
\* edited file (comments of migrationLockKey and Migrate, migrate.go:16-17,
\* 51-54).
SchemaMatchesCode ==
  /\ \A i \in DOMAIN log : log[i] = i
  /\ \A j \in Jobs : mpc[j] = "done" => table = Image[j]
=============================================================================
