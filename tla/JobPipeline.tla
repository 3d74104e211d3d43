----------------------------- MODULE JobPipeline -----------------------------
(***************************************************************************)
(* One job of the V3 pipeline, from POST /jobs to its stored result.       *)
(*                                                                         *)
(* The API and the Celery workers share the row of the job and the rows    *)
(* that the stages leave in PostgreSQL; they hand the job on by messages   *)
(* on a broker that keeps no order between them.  A step of the model ends *)
(* where the code commits a transaction, calls something slow (yt-dlp, S3, *)
(* an extractor, Groq) or hands a message to the broker: other tasks of    *)
(* the same job may run between two steps of a task.                       *)
(*                                                                         *)
(* A task lives in a slot from the moment its message is on the broker     *)
(* until it ends.  When a task's last act is to dispatch the next stage,   *)
(* the message of that stage takes over its slot.                          *)
(***************************************************************************)
EXTENDS Naturals, Sequences

CONSTANTS
    Slot,            \* places for tasks that are on the broker or run
    None,            \* no slot, no row
    MaxRetries,      \* [Kind -> Nat], the max_retries of every task
    Probes,          \* the sets of extractors a census may ask for
    MayFail,         \* the tasks whose calls may raise, and "submit"
    MaxUserRetries,  \* bound on the calls of POST /jobs/{id}/retry
    MaxCrashes       \* bound on the workers that die while running a task

\* The two extractors; a manifest asks for a subset of them, and a row of
\* v3_extractor_bundles is described by the columns that hold segments.
Modality == {"asr", "ocr"}

Kind == {"download", "upload", "census", "extraction", "fusion", "taxonomy"}
            \cup Modality

ASSUME NoneAssumption ==
    None \notin Slot /\ \A mods \in SUBSET Modality : None # mods
ASSUME RetriesAssumption == MaxRetries \in [Kind -> Nat]
ASSUME ProbesAssumption == Probes \subseteq SUBSET Modality
ASSUME BoundsAssumption == MaxUserRetries \in Nat /\ MaxCrashes \in Nat

VARIABLES
    status,       \* jobs.status
    s3,           \* jobs.s3_video_uri is set
    media,        \* the job's temp directory holds the downloaded video
    manifests,    \* rows of signal_manifests of the job
    bundles,      \* rows of v3_extractor_bundles of the job
    graph,        \* modalities of the row of v3_evidence_graphs, or None
    output,       \* final_outputs has the V3 row of the job
    tasks,        \* what every slot holds
    requests,     \* retry requests between their dispatch and their commit
    userRetries,  \* retry requests accepted so far
    crashes       \* workers that died so far

db == <<manifests, bundles, graph, output>>
env == <<requests, userRetries, crashes>>
vars == <<status, s3, media, manifests, bundles, graph, output, tasks,
          requests, userRetries, crashes>>

Status == {"absent", "pending", "downloading", "upload_pending", "downloaded",
           "failed", "dead_letter", "v3_stage_a_running",
           "v3_stage_a_complete", "v3_stage_b_running", "v3_stage_c_running",
           "v3_stage_c_complete", "v3_stage_d_running", "v3_stage_d_failed",
           "completed"}

\* Where a task is: on the broker ("queued"), the callback of a chord that
\* waits for its header ("waiting"), or between two of its steps.
Phase == {"free", "waiting", "queued", "checking", "working", "dispatching",
          "finishing"}

\* row: the bundle row an extractor found (0: it found none).
\* mods: what an orchestrator will dispatch, what a waiting callback still
\* waits for, what a fusion has read.
Task == [kind : Kind \cup {"none"}, phase : Phase, retries : Nat,
         callback : Slot \cup {None}, row : Nat, mods : SUBSET Modality]

Free == [kind |-> "none", phase |-> "free", retries |-> 0,
         callback |-> None, row |-> 0, mods |-> {}]

Message(k, cb) == [kind |-> k, phase |-> "queued", retries |-> 0,
                   callback |-> cb, row |-> 0, mods |-> {}]

Waiting(header) == [kind |-> "fusion", phase |-> "waiting", retries |-> 0,
                    callback |-> None, row |-> 0, mods |-> header]

FreeSlots == {s \in Slot : tasks[s].phase = "free"}

TypeOK ==
    /\ status \in Status
    /\ s3 \in BOOLEAN
    /\ media \in BOOLEAN
    /\ manifests \in Seq(SUBSET Modality)
    /\ bundles \in Seq(SUBSET Modality)
    /\ graph = None \/ graph \in SUBSET Modality
    /\ output \in BOOLEAN
    /\ tasks \in [Slot -> Task]
    /\ requests \in Nat
    /\ userRetries \in 0..MaxUserRetries
    /\ crashes \in 0..MaxCrashes

Init ==
    /\ status = "absent"
    /\ s3 = FALSE
    /\ media = FALSE
    /\ manifests = <<>>
    /\ bundles = <<>>
    /\ graph = None
    /\ output = FALSE
    /\ tasks = [s \in Slot |-> Free]
    /\ requests = 0
    /\ userRetries = 0
    /\ crashes = 0

-----------------------------------------------------------------------------
(* What a step does to the slot of the task that takes it.                 *)

At(t, k, phases) == tasks[t].kind = k /\ tasks[t].phase \in phases

Becomes(t, task) == tasks' = [tasks EXCEPT ![t] = task]

Ends(t) == Becomes(t, Free)

HandsOverTo(t, k) == Becomes(t, Message(k, None))

MovesTo(t, phase) == tasks' = [tasks EXCEPT ![t].phase = phase]

\* Seeded fault: the task sends itself a new message instead of retrying.
RetriesUncounted(t) == Becomes(t, Message(tasks[t].kind, tasks[t].callback))

\* raise self.retry(...): the same message again, one retry older.
Retries(t) == Becomes(t, [Message(tasks[t].kind, tasks[t].callback)
                             EXCEPT !.retries = tasks[t].retries + 1])

Exhausted(t) == tasks[t].retries >= MaxRetries[tasks[t].kind]

\* A task of a chord's header ended without raising.  The last one puts the
\* callback on the broker; a header sent without its chord has no callback.
HeaderEnds(t) ==
    LET cb == tasks[t].callback
        rest == tasks[cb].mods \ {tasks[t].kind}
    IN  IF cb = None
        THEN Ends(t)
        ELSE tasks' = [tasks EXCEPT
                ![t] = Free,
                ![cb] = IF rest = {} THEN Message("fusion", None)
                                     ELSE Waiting(rest)]

\* The messages of the header tasks in mods are put on the broker, each in
\* a slot of its own, and slot t is left with own.
SendHeader(t, own, mods, cb) ==
    \E slots \in [mods -> FreeSlots] :
        /\ \A m, n \in mods : slots[m] = slots[n] => m = n
        /\ tasks' = [s \in Slot |->
                IF s = t THEN own
                ELSE IF \E m \in mods : slots[m] = s
                     THEN Message(CHOOSE m \in mods : slots[m] = s, cb)
                     ELSE tasks[s]]

-----------------------------------------------------------------------------
(* The API.                                                                *)

\* submit_job: the row is committed, then download_video is dispatched; if
\* the broker refuses, the row stays.
SubmitJob ==
    /\ status = "absent"
    /\ status' = "pending"
    /\ \/ \E s \in FreeSlots : HandsOverTo(s, "download")
       \/ "submit" \in MayFail /\ UNCHANGED tasks
    /\ UNCHANGED <<s3, media, db, env>>

\* Seeded fault: the retry endpoint does not look for the manifest.
ResumePointSkipsManifest ==
    CASE ~s3 -> "download"
      [] s3 /\ graph # None -> "taxonomy"
      [] OTHER -> "extraction"

\* The stage retry_job dispatches: the first one whose checkpoint is absent.
ResumePoint ==
    CASE ~s3 -> "download"
      [] s3 /\ manifests = <<>> -> "census"
      [] s3 /\ manifests # <<>> /\ graph # None -> "taxonomy"
      [] OTHER -> "extraction"

\* retry_job up to the dispatch of that stage ...
RetryDispatch ==
    /\ userRetries < MaxUserRetries
    /\ status \in {"dead_letter", "failed"}
    /\ \E s \in FreeSlots : HandsOverTo(s, ResumePoint)
    /\ requests' = requests + 1
    /\ userRetries' = userRetries + 1
    /\ UNCHANGED <<status, s3, media, db, crashes>>

\* ... and its commit, which the dispatched task does not wait for.
RetryCommit ==
    /\ requests > 0
    /\ status' = "pending"
    /\ requests' = requests - 1
    /\ UNCHANGED <<s3, media, db, tasks, userRetries, crashes>>

-----------------------------------------------------------------------------
(* Ingest: download_video and upload_video_to_s3.                          *)

DownloadStart(t) ==
    /\ At(t, "download", {"queued"})
    /\ IF s3 /\ status \notin {"pending", "downloading"}
       THEN HandsOverTo(t, "census") /\ UNCHANGED status
       ELSE MovesTo(t, "working") /\ status' = "downloading"
    /\ UNCHANGED <<s3, media, db, env>>

\* Seeded fault: a new download forgets where the video was uploaded to.
DownloadDoneClearsUri(t) ==
    /\ At(t, "download", {"working"})
    /\ media' = TRUE
    /\ s3' = FALSE
    /\ status' = "upload_pending"
    /\ MovesTo(t, "dispatching")
    /\ UNCHANGED <<db, env>>

DownloadDone(t) ==
    /\ At(t, "download", {"working"})
    /\ media' = TRUE
    /\ status' = "upload_pending"
    /\ MovesTo(t, "dispatching")
    /\ UNCHANGED <<s3, db, env>>

DownloadDispatch(t) ==
    /\ At(t, "download", {"dispatching"})
    /\ HandsOverTo(t, "upload")
    /\ UNCHANGED <<status, s3, media, db, env>>

\* IngestionError: YouTube refuses the video, the task does not retry.
DownloadRejected(t) ==
    /\ At(t, "download", {"working"})
    /\ "download" \in MayFail
    /\ status' = "failed"
    /\ media' = FALSE
    /\ Ends(t)
    /\ UNCHANGED <<s3, db, env>>

\* Any other exception.  The job directory is only removed if this run of
\* the task has created it, that is, after its first commit.
DownloadFails(t) ==
    /\ At(t, "download", {"queued", "working", "dispatching"})
    /\ "download" \in MayFail
    /\ IF Exhausted(t)
       THEN /\ status' = "dead_letter"
            /\ media' = (media /\ tasks[t].phase = "queued")
            /\ Ends(t)
       ELSE /\ status' = "failed"
            /\ Retries(t)
            /\ UNCHANGED media
    /\ UNCHANGED <<s3, db, env>>

UploadStart(t) ==
    /\ At(t, "upload", {"queued"})
    /\ MovesTo(t, IF s3 THEN "dispatching" ELSE "working")
    /\ UNCHANGED <<status, s3, media, db, env>>

\* Seeded fault: the commit of the URI is missing.
UploadDoneUncommitted(t) ==
    /\ At(t, "upload", {"working"})
    /\ media
    /\ MovesTo(t, "dispatching")
    /\ UNCHANGED <<status, s3, media, db, env>>

UploadDone(t) ==
    /\ At(t, "upload", {"working"})
    /\ media
    /\ status' = "downloaded"
    /\ s3' = TRUE
    /\ MovesTo(t, "dispatching")
    /\ UNCHANGED <<media, db, env>>

\* The job directory is removed before the census is dispatched.
UploadCleanup(t) ==
    /\ At(t, "upload", {"dispatching"})
    /\ media' = FALSE
    /\ MovesTo(t, "finishing")
    /\ UNCHANGED <<status, s3, db, env>>

UploadDispatch(t) ==
    /\ At(t, "upload", {"finishing"})
    /\ HandsOverTo(t, "census")
    /\ UNCHANGED <<status, s3, media, db, env>>

\* Seeded fault: the directory is cleaned up though a retry is left.
UploadFailsCleans(t) ==
    /\ At(t, "upload", {"queued", "working", "dispatching", "finishing"})
    /\ "upload" \in MayFail \/ (~media /\ tasks[t].phase = "working")
    /\ media' = FALSE
    /\ IF Exhausted(t)
       THEN status' = "dead_letter" /\ Ends(t)
       ELSE Retries(t) /\ UNCHANGED status
    /\ UNCHANGED <<s3, db, env>>

\* Without the file the upload cannot but fail.
UploadFails(t) ==
    /\ At(t, "upload", {"queued", "working", "dispatching", "finishing"})
    /\ "upload" \in MayFail \/ (~media /\ tasks[t].phase = "working")
    /\ IF Exhausted(t)
       THEN status' = "dead_letter" /\ media' = FALSE /\ Ends(t)
       ELSE Retries(t) /\ UNCHANGED <<status, media>>
    /\ UNCHANGED <<s3, db, env>>

-----------------------------------------------------------------------------
(* Stage A: v3_run_signal_census.                                          *)

CensusStart(t) ==
    /\ At(t, "census", {"queued"})
    /\ s3
    /\ status' = "v3_stage_a_running"
    /\ MovesTo(t, "checking")
    /\ UNCHANGED <<s3, media, db, env>>

\* Seeded fault: the idempotency check of Stage A is missing.
CensusCheckAlwaysProbes(t) ==
    /\ At(t, "census", {"checking"})
    /\ MovesTo(t, "working")
    /\ UNCHANGED <<status, s3, media, db, env>>

CensusCheck(t) ==
    /\ At(t, "census", {"checking"})
    /\ IF manifests # <<>> THEN HandsOverTo(t, "extraction")
                           ELSE MovesTo(t, "working")
    /\ UNCHANGED <<status, s3, media, db, env>>

CensusProbe(t) ==
    /\ At(t, "census", {"working"})
    /\ \E found \in Probes : manifests' = Append(manifests, found)
    /\ MovesTo(t, "dispatching")
    /\ UNCHANGED <<status, s3, media, bundles, graph, output, env>>

\* The next stage is on the broker before the status of this one is written.
CensusDispatch(t) ==
    /\ At(t, "census", {"dispatching"})
    /\ \E s \in FreeSlots :
            tasks' = [tasks EXCEPT ![s] = Message("extraction", None),
                                   ![t].phase = "finishing"]
    /\ UNCHANGED <<status, s3, media, db, env>>

CensusFinish(t) ==
    /\ At(t, "census", {"finishing"})
    /\ status' = "v3_stage_a_complete"
    /\ Ends(t)
    /\ UNCHANGED <<s3, media, db, env>>

\* Seeded fault: a status that no reader of the column knows.
CensusFailsUnknownStatus(t) ==
    /\ At(t, "census", {"working", "dispatching", "finishing"})
    /\ "census" \in MayFail
    /\ IF Exhausted(t)
       THEN status' = "v3_stage_a_failed" /\ Ends(t)
       ELSE Retries(t) /\ UNCHANGED status
    /\ UNCHANGED <<s3, media, db, env>>

\* An exception in the try block.
CensusFails(t) ==
    /\ At(t, "census", {"working", "dispatching", "finishing"})
    /\ "census" \in MayFail
    /\ IF Exhausted(t)
       THEN status' = "dead_letter" /\ Ends(t)
       ELSE Retries(t) /\ UNCHANGED status
    /\ UNCHANGED <<s3, media, db, env>>

\* An exception before the try block, where nothing catches it: no video in
\* S3, or the dispatch that follows an idempotency hit.
CensusDies(t) ==
    /\ At(t, "census", {"queued", "checking"})
    /\ s3 => "census" \in MayFail
    /\ Ends(t)
    /\ UNCHANGED <<status, s3, media, db, env>>

-----------------------------------------------------------------------------
(* Stage B: v3_run_targeted_extraction and the two extractors.             *)

ExtractionStart(t) ==
    /\ At(t, "extraction", {"queued"})
    /\ \E i \in DOMAIN manifests :
            tasks' = [tasks EXCEPT ![t].phase = "dispatching",
                                   ![t].mods = manifests[i]]
    /\ status' = "v3_stage_b_running"
    /\ UNCHANGED <<s3, media, db, env>>

\* A bundle without segments, unless the job has a bundle.
StubBundle == IF bundles = <<>> THEN <<{}>> ELSE bundles

\* Seeded fault: no bundle is created for a silent video without text.
ExtractionDispatchNoStub(t) ==
    LET header == tasks[t].mods IN
    /\ At(t, "extraction", {"dispatching"})
    /\ IF header # {} THEN SendHeader(t, Waiting(header), header, t)
                      ELSE HandsOverTo(t, "fusion")
    /\ UNCHANGED <<status, s3, media, db, env>>

\* A chord of the extractors the manifest asks for, with the fusion as its
\* callback; or, when it asks for none, the fusion at once.
ExtractionDispatch(t) ==
    LET header == tasks[t].mods IN
    /\ At(t, "extraction", {"dispatching"})
    /\ IF header # {}
       THEN /\ SendHeader(t, Waiting(header), header, t)
            /\ UNCHANGED bundles
       ELSE /\ HandsOverTo(t, "fusion")
            /\ bundles' = StubBundle
    /\ UNCHANGED <<status, s3, media, manifests, graph, output, env>>

\* Nothing in this task catches an exception.  A chord cut short has sent
\* some of its header, whose results nobody collects; without a header the
\* bundle may be committed and the fusion not dispatched.
ExtractionDies(t) ==
    /\ At(t, "extraction", {"queued", "dispatching"})
    /\ manifests # <<>> => "extraction" \in MayFail
    /\ \/ \E sent \in {m \in SUBSET tasks[t].mods : m = {} \/ m # tasks[t].mods} :
            SendHeader(t, Free, sent, None) /\ UNCHANGED bundles
       \/ /\ tasks[t].phase = "dispatching" /\ tasks[t].mods = {}
          /\ Ends(t)
          /\ bundles' = StubBundle
    /\ UNCHANGED <<status, s3, media, manifests, graph, output, env>>

\* v3_run_asr, v3_run_ocr: the bundle is looked up first ...
ExtractorStart(t) ==
    /\ tasks[t].kind \in Modality /\ tasks[t].phase = "queued"
    /\ s3
    /\ \/ /\ bundles = <<>>
          /\ MovesTo(t, "working")
       \/ \E i \in DOMAIN bundles :
            IF tasks[t].kind \in bundles[i]
            THEN HeaderEnds(t)
            ELSE tasks' = [tasks EXCEPT ![t].phase = "working", ![t].row = i]
    /\ UNCHANGED <<status, s3, media, db, env>>

\* ... and written, or inserted when none was found, after the extraction.
ExtractorDone(t) ==
    LET x == tasks[t].kind
        r == tasks[t].row
    IN
    /\ x \in Modality /\ tasks[t].phase = "working"
    /\ \E found \in {{}, {x}} :
            bundles' = IF r = 0 THEN Append(bundles, found)
                       ELSE [bundles EXCEPT ![r] = (@ \ {x}) \cup found]
    /\ HeaderEnds(t)
    /\ UNCHANGED <<status, s3, media, manifests, graph, output, env>>

\* Seeded fault: an exhausted extractor raises instead of returning.
ExtractorFailsRaises(t) ==
    /\ tasks[t].kind \in Modality /\ tasks[t].phase \in {"queued", "working"}
    /\ s3 => tasks[t].kind \in MayFail
    /\ IF Exhausted(t)
       THEN status' = "dead_letter" /\ Ends(t)
       ELSE Retries(t) /\ UNCHANGED status
    /\ UNCHANGED <<s3, media, db, env>>

\* When its retries are used up an extractor returns normally.
ExtractorFails(t) ==
    /\ tasks[t].kind \in Modality /\ tasks[t].phase \in {"queued", "working"}
    /\ s3 => tasks[t].kind \in MayFail
    /\ IF Exhausted(t)
       THEN status' = "dead_letter" /\ HeaderEnds(t)
       ELSE Retries(t) /\ UNCHANGED status
    /\ UNCHANGED <<s3, media, db, env>>

-----------------------------------------------------------------------------
(* Stage C: v3_run_evidence_fusion.                                        *)

\* self.retry(countdown=10), which raises when the retries are used up.
FusionNotReady(t) ==
    /\ At(t, "fusion", {"queued"})
    /\ bundles = <<>>
    /\ IF Exhausted(t)
       THEN status' = "dead_letter" /\ Ends(t)
       ELSE Retries(t) /\ UNCHANGED status
    /\ UNCHANGED <<s3, media, db, env>>

FusionStart(t) ==
    /\ At(t, "fusion", {"queued"})
    /\ \E i \in DOMAIN bundles :
            IF graph # None
            THEN HandsOverTo(t, "taxonomy") /\ UNCHANGED status
            ELSE /\ tasks' = [tasks EXCEPT ![t].phase = "working",
                                           ![t].mods = bundles[i]]
                 /\ status' = "v3_stage_c_running"
    /\ UNCHANGED <<s3, media, db, env>>

\* Seeded fault: v3_evidence_graphs without its unique constraint.
FusionDoneNotUnique(t) ==
    /\ At(t, "fusion", {"working"})
    /\ manifests # <<>>
    /\ graph' = tasks[t].mods
    /\ status' = "v3_stage_c_complete"
    /\ MovesTo(t, "dispatching")
    /\ UNCHANGED <<s3, media, manifests, bundles, output, env>>

\* v3_evidence_graphs.job_id is unique: one insert per job succeeds.
FusionDone(t) ==
    /\ At(t, "fusion", {"working"})
    /\ manifests # <<>>
    /\ graph = None
    /\ graph' = tasks[t].mods
    /\ status' = "v3_stage_c_complete"
    /\ MovesTo(t, "dispatching")
    /\ UNCHANGED <<s3, media, manifests, bundles, output, env>>

FusionDispatch(t) ==
    /\ At(t, "fusion", {"dispatching"})
    /\ HandsOverTo(t, "taxonomy")
    /\ UNCHANGED <<status, s3, media, db, env>>

\* Seeded fault: exhaustion is not recorded.
FusionFailsSilently(t) ==
    /\ At(t, "fusion", {"queued", "working", "dispatching"})
    /\ \/ "fusion" \in MayFail
       \/ tasks[t].phase = "working" /\ (graph # None \/ manifests = <<>>)
    /\ IF Exhausted(t) THEN Ends(t) ELSE Retries(t)
    /\ UNCHANGED <<status, s3, media, db, env>>

FusionFails(t) ==
    /\ At(t, "fusion", {"queued", "working", "dispatching"})
    /\ \/ "fusion" \in MayFail
       \/ tasks[t].phase = "working" /\ (graph # None \/ manifests = <<>>)
    /\ IF Exhausted(t)
       THEN status' = "dead_letter" /\ Ends(t)
       ELSE Retries(t) /\ UNCHANGED status
    /\ UNCHANGED <<s3, media, db, env>>

-----------------------------------------------------------------------------
(* Stage D: v3_run_taxonomy_mapping.                                       *)

TaxonomyStart(t) ==
    /\ At(t, "taxonomy", {"queued"})
    /\ status' = "v3_stage_d_running"
    /\ MovesTo(t, "checking")
    /\ UNCHANGED <<s3, media, db, env>>

TaxonomyCheck(t) ==
    /\ At(t, "taxonomy", {"checking"})
    /\ output \/ graph # None
    /\ IF output THEN Ends(t) ELSE MovesTo(t, "working")
    /\ UNCHANGED <<status, s3, media, db, env>>

\* Seeded fault: the status is written before the response.
TaxonomyStoreStatusFirst(t) ==
    /\ At(t, "taxonomy", {"working"})
    /\ status' = "completed"
    /\ MovesTo(t, "finishing")
    /\ UNCHANGED <<s3, media, db, env>>

TaxonomyStore(t) ==
    /\ At(t, "taxonomy", {"working"})
    /\ output' = TRUE
    /\ MovesTo(t, "finishing")
    /\ UNCHANGED <<status, s3, media, manifests, bundles, graph, env>>

TaxonomyComplete(t) ==
    /\ At(t, "taxonomy", {"finishing"})
    /\ status' = "completed"
    /\ Ends(t)
    /\ UNCHANGED <<s3, media, db, env>>

\* The status is the same whether or not a retry is left.
TaxonomyFails(t) ==
    /\ At(t, "taxonomy", {"queued", "checking", "working", "finishing"})
    /\ \/ "taxonomy" \in MayFail
       \/ tasks[t].phase = "checking" /\ ~output /\ graph = None
    /\ status' = "v3_stage_d_failed"
    /\ IF Exhausted(t) THEN Ends(t) ELSE Retries(t)
    /\ UNCHANGED <<s3, media, db, env>>

-----------------------------------------------------------------------------
\* A worker acknowledges a message when it takes it: the task it runs when
\* it dies is not delivered again, and its chord is never completed.
Crash(t) ==
    /\ crashes < MaxCrashes
    /\ tasks[t].phase \in {"queued", "checking", "working", "dispatching",
                           "finishing"}
    /\ Ends(t)
    /\ crashes' = crashes + 1
    /\ UNCHANGED <<status, s3, media, db, requests, userRetries>>

Ingest(t) ==
    \/ DownloadStart(t) \/ DownloadDone(t) \/ DownloadDispatch(t)
    \/ DownloadRejected(t) \/ DownloadFails(t)
    \/ UploadStart(t) \/ UploadDone(t)
    \/ UploadCleanup(t) \/ UploadDispatch(t) \/ UploadFails(t)

StageA(t) ==
    \/ CensusStart(t) \/ CensusCheck(t) \/ CensusProbe(t)
    \/ CensusDispatch(t) \/ CensusFinish(t) \/ CensusFails(t) \/ CensusDies(t)

StageB(t) ==
    \/ ExtractionStart(t) \/ ExtractionDispatch(t) \/ ExtractionDies(t)
    \/ ExtractorStart(t) \/ ExtractorDone(t) \/ ExtractorFails(t)

StageC(t) ==
    \/ FusionNotReady(t) \/ FusionStart(t) \/ FusionDone(t)
    \/ FusionDispatch(t) \/ FusionFails(t)

StageD(t) ==
    \/ TaxonomyStart(t) \/ TaxonomyCheck(t) \/ TaxonomyStore(t)
    \/ TaxonomyComplete(t) \/ TaxonomyFails(t)

\* What the worker that holds the task of slot t does next.
Work(t) == Ingest(t) \/ StageA(t) \/ StageB(t) \/ StageC(t) \/ StageD(t)

Next ==
    \/ SubmitJob
    \/ RetryDispatch
    \/ RetryCommit
    \/ \E t \in Slot : Work(t) \/ Crash(t)

Spec == Init /\ [][Next]_vars

\* Workers keep taking messages and every call they make returns or raises
\* (the task time limit sees to that), and a request that was accepted is
\* carried through.  Users need not submit or retry; workers need not die.
FairSpec ==
    /\ Spec
    /\ WF_vars(RetryCommit)
    /\ \A t \in Slot : WF_vars(Work(t))

-----------------------------------------------------------------------------
(* Properties.                                                             *)

Live(t) == tasks[t].phase \notin {"free", "waiting"}

\* No message is on the broker, no task runs and no retry request is open:
\* nothing happens to the job any more unless a user asks for it.
Quiescent ==
    /\ status # "absent"
    /\ requests = 0
    /\ \A t \in Slot : ~Live(t)

\* Every stage that is on its way finds the durable result of the stage
\* before it: the census a video in S3, extraction, extractors and fusion a
\* manifest, the taxonomy an evidence graph, whichever mixture of retries,
\* idempotency hits and user retries has dispatched it.  The ValueErrors of
\* stage_a_census.py:73 and stage_b_extraction.py:27, which no handler
\* catches and no retry repeats, are therefore never raised.
StageHasInput ==
    \A t \in Slot :
        LET k == tasks[t].kind IN
        /\ k \notin {"none", "download", "upload"} => s3
        /\ k \notin {"none", "download", "upload", "census"}
                => manifests # <<>>
        /\ k = "taxonomy" => graph # None

\* The status of a job never claims more than what is stored: a retry, which
\* decides by the status whether to resume and by the stored rows where, and
\* a reader of GET /jobs never see a stage as passed whose result is absent.
StatusIsBacked ==
    /\ status \in {"downloaded", "v3_stage_a_running"} => s3
    /\ status \in {"v3_stage_a_complete", "v3_stage_b_running",
                   "v3_stage_c_running"} => manifests # <<>>
    /\ status \in {"v3_stage_c_complete", "v3_stage_d_running",
                   "v3_stage_d_failed"} => graph # None
    /\ status = "completed" => output

\* As long as no user retries, no cleanup of the job directory (by a failed
\* download, an exhausted upload, an idempotency hit) takes the video away
\* from an upload that still has to read it.
UploadHasMedia ==
    userRetries = 0 => \A t \in Slot :
        At(t, "upload", {"queued", "working"}) /\ ~s3 => media

\* As long as no user retries, one task at a time brings the video in and
\* probes it, in spite of retries: the check-then-insert of stage_a_census
\* (lines 80 and 177) leaves one manifest, though the table has no unique
\* constraint on the job.
OneManifest ==
    userRetries = 0 =>
    /\ \A t, u \in Slot :
            {tasks[t].kind, tasks[u].kind} \subseteq
                {"download", "upload", "census"} => t = u
    /\ Len(manifests) <= 1

\* As long as no worker dies, a fusion that waits for the extractors of its
\* chord has every one of them still coming: an extractor that gives up
\* counts as finished (v3_extraction_tasks.py:101, 220), so the chord fires.
ChordCanFire ==
    crashes = 0 => \A t \in Slot : tasks[t].phase = "waiting" =>
        \A m \in tasks[t].mods :
            \E s \in Slot : tasks[s].kind = m /\ tasks[s].callback = t

\* As long as no worker dies, no user retries and the submission reaches
\* the broker, a job that has come to rest without a result did not come to
\* rest in the care of the ingest tasks or of Stage C: these report failure
\* or dispatch a successor, in every order of their retries.  ("downloaded"
\* is not in the list: the census may die before it writes its status.)
NoSilentLoss ==
    crashes = 0 /\ userRetries = 0 /\ "submit" \notin MayFail
        /\ Quiescent /\ ~output =>
        status \notin {"pending", "downloading", "upload_pending",
                       "v3_stage_c_running", "v3_stage_c_complete",
                       "completed"}

\* What the stages store is stored in order and for good: the video, a
\* manifest, the evidence graph (once, its content never replaced), the
\* response.
Stored == INSTANCE Checkpoints
              WITH video <- s3, manifest <- manifests # <<>>,
                   evidence <- graph, response <- output
StoresInOrder == Stored!Spec

\* Whatever fails and however often, and whatever users retry, the machinery
\* of retries, chords and "bundle not ready" comes to rest.
ComesToRest == <>[](\A t \in Slot : ~Live(t))

\* When nothing fails, a submitted job gets its result.
SubmittedIsAnswered == status = "pending" ~> output
==============================================================================
