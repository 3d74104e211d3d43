--------------------------- MODULE PipelineClaims ---------------------------
(***************************************************************************)
(* What the documents, docstrings and tests of the repository say of the   *)
(* V3 pipeline and the code does not keep.  Each property is refuted by    *)
(* one run, under the mildest faults that show it.                         *)
(***************************************************************************)
EXTENDS MCJobPipeline

\* The order of the statuses of context.md:326-333 (the code never writes
\* "extracting"), for a job that meets no error.
Rank == [st \in Status |->
    CASE st = "absent" -> 0
      [] st = "pending" -> 1
      [] st = "downloading" -> 2
      [] st = "upload_pending" -> 3
      [] st = "downloaded" -> 4
      [] st = "v3_stage_a_running" -> 5
      [] st = "v3_stage_a_complete" -> 6
      [] st = "v3_stage_b_running" -> 7
      [] st = "v3_stage_c_running" -> 8
      [] st = "v3_stage_c_complete" -> 9
      [] st = "v3_stage_d_running" -> 10
      [] st = "completed" -> 11
      [] OTHER -> 12]

\* context.md:326 "V3 DB Status State Machine": a job whose tasks meet no
\* error passes through the statuses in that order.  Stage A dispatches
\* Stage B before it writes its own "v3_stage_a_complete".
StatusMovesForward == [][Rank[status'] >= Rank[status]]_vars

\* stage_d_taxonomy.py:8 'After this task, job.status = "completed".'  Taken
\* where no task is left: a job whose result is stored has not been left in
\* the running status that an idempotency hit of Stage D writes.
StoredIsNotRunning == Quiescent /\ output => status # "v3_stage_d_running"

\* decisions.md:370 (DR-23) "transitioning exhausted retries to a
\* dead_letter status in the DB, allowing the new /retry endpoint to recover
\* jobs": a job left without a result has a status the endpoint accepts.
ExhaustedIsDeadLetter ==
    Quiescent /\ ~output => status \in {"dead_letter", "failed"}

\* test_stage_b_extraction.py:86 "If a bundle already exists (e.g. a retried
\* task), don't insert a second row for the same job_id", and
\* v3_extraction_tasks.py:66 "Find or create bundle".
OneBundle == Len(bundles) <= 1
==============================================================================
