------------------------------ MODULE Cutover -------------------------------
(***************************************************************************)
(* The cut-over of docs/MIGRATION.md, step 4: the migrate job and the      *)
(* backfill jobs run against one database.  A backfill job migrates first  *)
(* (cmd/backfill/main.go) and copies only if that succeeded; a job that    *)
(* failed is started again from the top, one that succeeded may be.        *)
(***************************************************************************)
EXTENDS Migrate, Backfill

CONSTANTS
  MaxFaults,  \* bound: calls that fail and processes that die
  MaxAgain    \* bound: runs of a job that already succeeded

ASSUME CutoverAssumption == Runs \subseteq Jobs /\ MaxFaults \in Nat /\ MaxAgain \in Nat

VARIABLES faults, again

vars == <<migrateVars, backfillVars, faults, again>>

Init == MigrateInit /\ BackfillInit /\ faults = 0 /\ again = 0

\* db.Migrate in both commands.
Migrating(j) == MigrateStep(j) /\ UNCHANGED <<backfillVars, faults, again>>

\* Backfill.Run, after db.Migrate returned without an error.
Copying(p) ==
  /\ mpc[p] = "done"
  /\ BackfillStep(p)
  /\ UNCHANGED <<migrateVars, faults, again>>

\* log.Fatalf, or the process is killed.
Fails(j) ==
  /\ faults < MaxFaults /\ faults' = faults + 1
  /\ \/ MigrateFails(j) /\ UNCHANGED backfillVars
     \/ j \in Runs /\ BackfillFails(j) /\ UNCHANGED migrateVars
  /\ UNCHANGED again

Ended(j) == mpc[j] = "done" /\ (j \in Runs => bpc[j] = "ok")

StartAgain(j) ==
  IF j \in Runs /\ mpc[j] = "done"
    THEN RestartMigrate(j) /\ RestartBackfill(j)
    ELSE RestartMigrate(j) /\ UNCHANGED backfillVars

\* The job controller retries a failed job.
Retry(j) ==
  /\ mpc[j] = "failed" \/ (j \in Runs /\ bpc[j] = "failed")
  /\ StartAgain(j)
  /\ UNCHANGED <<faults, again>>

\* The operator runs a job once more.
RunAgain(j) ==
  /\ Ended(j) /\ again < MaxAgain /\ again' = again + 1
  /\ StartAgain(j)
  /\ UNCHANGED faults

Arrive(d) == LateArrival(d) /\ UNCHANGED <<migrateVars, faults, again>>

Next ==
  \/ \E j \in Jobs : Migrating(j) \/ Fails(j) \/ Retry(j) \/ RunAgain(j)
  \/ \E p \in Runs : Copying(p)
  \/ \E d \in Late : Arrive(d)

\* Processes are scheduled and failed jobs are retried.
Fairness ==
  /\ \A j \in Jobs : WF_vars(Migrating(j)) /\ WF_vars(Retry(j))
  /\ \A p \in Runs : WF_vars(Copying(p))

Spec == Init /\ [][Next]_vars /\ Fairness

\* Every job comes to a good end, whoever migrates or copies at the same time
\* and whatever failed before: it has migrated and copied, or it was refused
\* because its image really disagrees with what is applied.  No job waits for
\* ever for a lock of one that died, none is failed by the rows of another.
FinallyCopied ==
  \A j \in Jobs : <>[](Ended(j) \/ (mpc[j] = "refused" /\ table # Image[j]))
=============================================================================
