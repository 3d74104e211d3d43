# Verification of ytclfr

ytclfr takes the URL of a YouTube video, downloads the video, finds out what it
contains (speech, burned-in text, structure) and stores a taxonomy, a summary
and a list of items. A FastAPI application accepts jobs; Celery workers process
them in stages; PostgreSQL, S3 and a directory on the ingestion node hold what
the stages produce; Redis is broker and result backend.

This directory holds TLA+ models of the program (`src/src/ytclfr/...`, called
`ytclfr/...` below), configurations for TLC and proofs for TLAPS. Everything is
translated from the code. The documents (`context.md`, `decisions.md`,
`docs/runbook.md`) and docstrings are only used as statements *about* the code,
and four of them are refuted (see *Disagreements*).

    tlc -config faults.cfg MCJobPipeline
    tlapm JobPipelineProofs.tla

## Inventory

### The pipeline

| part | code | state it keeps | operations |
|---|---|---|---|
| job API | `api/v3/jobs.py` | the row of `jobs` | `submit_job`: insert, commit, dispatch the download. `retry_job`: for a job in `failed` or `dead_letter`, dispatch the first stage whose result is absent, *then* commit `pending`. `get_job` reads. |
| ingest | `tasks/ingest.py` | job status, S3 URI, job directory | `download_video` (3 retries), `upload_video_to_s3` (5 retries) |
| Stage A | `tasks/v3/stage_a_census.py` | a row of `signal_manifests` | `v3_run_signal_census` (3 retries): status, idempotency check, probes, manifest, dispatch of Stage B, status |
| Stage B | `tasks/v3/stage_b_extraction.py`, `tasks/v3/v3_extraction_tasks.py` | rows of `v3_extractor_bundles` | `v3_run_targeted_extraction`: a chord of the extractors the manifest asks for, or a stub bundle; `v3_run_asr`, `v3_run_ocr` (3 retries each) |
| Stage C | `tasks/v3/stage_c_fusion.py` | a row of `v3_evidence_graphs`, unique per job | `v3_run_evidence_fusion` (3 retries): waits for a bundle by retrying, fuses, inserts the graph, dispatches Stage D |
| Stage D | `tasks/v3/stage_d_taxonomy.py` | the row of `final_outputs` | `v3_run_taxonomy_mapping` (2 retries): status, idempotency check, response, status `completed` |
| queue | `queue/celery_app.py`, `extractors/base.py` | messages, chords | queues `fast`, `heavy`, `io`; early acknowledgement; soft and hard time limits |
| temporary storage | `ingestion/temp_storage.py`, `tasks/cleanup_tasks.py` | job directories | create, remove, remove by age every hour |

The parts interact in three ways. Each stage *dispatches* the next one by a
message; the broker keeps no order between messages, and any number of tasks of
one job can be on the way. All stages *share* the row of the job, and each reads
the rows the stages before it have written. And Celery *calls back*: a task that
raises `self.retry` comes again, and a chord starts the fusion when its header
has ended.

What makes this hard: a status is written in another transaction than the
result it speaks of; a message is often sent before the transaction that should
precede it (Stage A, `retry_job`); look-ups are minutes old when the row they
did not find is inserted; a user may retry while Celery still has a retry of its
own pending; messages are acknowledged before the task runs, so a worker that
dies takes its task with it.

What makes it correct: results appear in the order of the stages and stay;
a stage is only ever under way when its input is there; the status claims no
more than what is stored; the video survives until it is uploaded; a chord can
fire; a job comes to rest, and with a result or a failure that is visible.

### Algorithms

| part | code | what it computes | what makes it correct |
|---|---|---|---|
| probes | `probing/*`, the manifest of `stage_a_census.py` | speech, music, burned-in text, structure, and with them which extractors are asked for | nothing is overlooked unless a probe has failed, and the confidence shows that |
| extractors | `extractors/v3_asr.py`, `ocr_extractor.py` | segments of speech and of text, completeness of the transcript | a failure never looks better than a success |
| temporal alignment | `alignment/*` | deduplicated, non-overlapping segments, gaps | no two segments overlap; no strong one is lost |
| confidence | `confidence/*` | scores, marks and a verdict: go on, scan again, downgrade | scorer and rules agree; rescans are bounded |
| fusion | `fusion/*`, `probing/ocr_pattern_scorer.py`, the helpers of `stage_c_fusion.py` | weights of the sources, structure, confidence of the graph, entities | no speech silenced, no structure lost, no entity lost in the merge but to its key; more evidence is never worth less |
| taxonomy | `taxonomy/*`, the items of `stage_d_taxonomy.py` | category, child, intent, items | total, whatever Groq answers; reads all that Stage C can store |
| V1 router | `router/*` | deprecated classification, no caller in V3 | rule order |
| results API | `api/v3/results.py` | read-only views of a completed job | status codes agree with what is stored |
| S3, downloader, cookies, cache | `ingestion/*`, `cache/result_cache.py` | calls of external services, rotation of cookie files, read-through cache | the stored video is the video; no directory is taken from a task; every end of a task cleans up |

The hard part here is not one computation but the many ways each of them ends:
every probe, extractor and call of Groq answers its failures with defaults, and
the stages after it know only what was stored. And the job directory is shared
by downloads, uploads, extractors and an hourly cleanup that goes by its age.

Authentication and rate limits, the application set-up, contracts (data
classes), configuration, logging, and the stores of V1 and V2 that no V3 task
writes keep no state of the pipeline. `PROJECT.json` lists every part with its
status.

## Modules

| module | what it is |
|---|---|
| `Checkpoints` | abstract specification: video, manifest, evidence graph and response of a job are stored in this order, for good, the graph once |
| `JobPipeline` | one job, from `POST /jobs` to its stored response, with all tasks, retries, chords, user retries and dying workers |
| `PipelineClaims` | what documents and docstrings say about the pipeline and the code does not do |
| `IngestNode` | the directory of one job over time: downloads, uploads, extractors, the cleanup |
| `Census` | what Stage A makes of one video: the probes and the manifest |
| `Evidence` | extends `Census`: what Stages B and C make of the manifest, up to the graph |
| `Reasoning` | the entities of the graph and what Stage D makes of them, with Groq |
| `Confidence` | the confidence controller and its rescans |
| `Alignment` | `align()`: overlaps within a source, merging across sources, gaps |
| `JobPipelineProofs`, `ChordProofs`, `FirstRunProofs`, `IngestNodeProofs`, `EvidenceProofs`, `ReasoningProofs`, `ConfidenceProofs`, `AlignmentProofs` | theorems |
| `MC*` | values for the constants of a module for TLC |

`JobPipeline` knows of a manifest only what it asks for and of a bundle only
which sources have segments; `Census`, `Evidence` and `Reasoning` are about what
is in them. They need none of the pipeline's concurrency: a stage that has
stored its result is not run again (`StoresInOrder`), so each works on data that
no longer changes. `IngestNode` is what `JobPipeline` abstracts to the variable
`media`, with time.

### How JobPipeline corresponds to the code

`status`, `s3`, `manifests`, `bundles`, `graph` and `output` are the columns and
rows of one job. A manifest is the set of extractors it asks for; a bundle and
the evidence graph are the set of modalities with segments: that is what the
tasks branch on. `media` says that the job directory holds the downloaded video.
`tasks` is what is on the broker or running. `requests`, `userRetries` and
`crashes` are retry requests under way and the two counters that bound the model.

**Steps.** A step ends where the code commits, calls something slow (yt-dlp, S3,
a probe, an extractor, Groq), removes the job directory, or hands a message to
the broker. Between two steps of a task anything may happen. So Stage A, for
instance, is `CensusStart` (status), `CensusCheck` (idempotency),
`CensusProbe` (manifest), `CensusDispatch` (message), `CensusFinish` (status),
and the message of Stage B is on the broker before the last of these. What lies
within a step commutes with the steps of others: SQLAlchemy reloads a row after
each commit, and assigning a column the value it was loaded with emits no
UPDATE, but no other step changes what is read or written in between in a way
that a property could tell.

**Slots.** A task lives in a slot from its dispatch to its end; its record says
what it is, where it is, how often it was retried, which callback its chord has,
and what it has read. When the last act of a task is the dispatch of the next,
the message takes over its slot. A finite set of slots bounds the tasks of one
job that exist at once; a dispatch that finds no slot is not taken, which only
removes behaviours with more simultaneous tasks. Slots are interchangeable.

**Failures.** Every task has an action for each handler an exception can reach:
`DownloadFails` is the `except Exception` of `download_video` and
`DownloadRejected` its `except IngestionError`; `CensusFails` is the handler of
the `try` block of Stage A and `CensusDies` the exceptions before it, which
nothing catches; `ExtractionDies` is Stage B, which has no handler at all and,
cut short inside the chord, has sent some of its header. `MayFail` names the
tasks whose calls may raise; failures that follow from the state (no video in
S3, no manifest, no bundle, the unique constraint of `v3_evidence_graphs`) need
no permission. `Crash` is a worker that dies while it runs a task, the hard time
limit included. The soft time limit raises inside the task and is a failure like
the others.

**Left out.** The `pipeline_version="v2"` branches of ingest import modules that
the repository does not contain, and the API dispatches only `v3`. Jobs are never
deleted, so the branches for an absent job are not reachable. The database is
available to the exception handlers. A message is delivered once. `_emit_sse`
and logging change no state. The two inserts into `final_outputs`
(`stage_d_taxonomy.py:286-306`) look up and commit in one step; losing that
race is one of the failures of `TaxonomyFails`.

### How Alignment corresponds to the code

`align()` runs in one task and is modelled as its loops, one turn per step, from
every input within the bounds. `next[src]` and `resolved[src]` are the loop
variable and the list of `resolve_overlaps` for one source: `Keep` appends the
item, `Displace` pops the last item kept (the `while` goes on with the one before
it), `Lose` drops the item. `Deduplicate` is one turn of the loop over the OCR
items, with the scan for the first ASR item that matches; `consumed_ids` is read
off the merged pairs. `Timeline`, `Adjacent` and `HasGaps` are the result of
`create_segments` and what `detect_gaps` makes of it; the positions of the items
stand for their ids and break ties as the stable sorts do. Times are numbers, with
half a second as the unit, confidences numbers of which the order counts, and
similarity of texts is a relation. ASR segments do not end before they start.
The merged text and confidence, which nothing looks at again, are left out. No V3
task calls `align()`; it is kept as a library and for the script `scratch.py`.

### How IngestNode corresponds to the code

`present`, `files` and `age` are the directory `temp_media_path/<job id>`, its
entries and the time since its mtime; `age` is all the cleanup looks at. `Holds`
is a change of the entries: creating or removing one renews the mtime, making a
directory that exists (`get_job_dir`) or writing over a file does not. `chain`
has a record for each dispatch of `download_video` and the upload that follows
from it: which task, where it is, its retries, how long this run has taken
(`clock`), how long ago the upload was dispatched (`waited`), and the two paths
it was given. Two fields are history: `fresh` says that no run of this download has
found a directory, `left` that the chain has ended without `cleanup_job` after it
had worked in the directory. `condemned` is the time between the look and the `rmtree` of
`cleanup_expired`; the removal itself is one step, and succeeds (`cleanup_job`
and `cleanup_expired` log and ignore a failure, which would leave the directory
to the next hour).

`Fetch` is yt-dlp and `files[0]` of `downloader.py:126`: `glob` lists the
entries in any order. `Convert` is ffmpeg on the picked file. `Tick` lets a unit
of time pass; it is not enabled while a task is at the hard time limit, which
ends it (`IngestDies`, `ExtractorDies`) if nothing else does.

### How Census, Evidence and Reasoning correspond to the code

A *video* is what there is to find: its length as ffprobe names it, the share of
voiced frames, music, the number of sampled frames with readable text, a title
with ordinals. Probes measure it or fail; `lost` is a history variable of what
failures have kept them from seeing. The audio probe is three steps with the
time-out check of `_check_timeout` before each (`AudioGivesUp`); the visual probe
is `adaptive_text_min` over the frames ffmpeg delivers; the VLM answers any
type, and a density the contract of the manifest may refuse (`Refused`, after
which Stage A is retried). Confidences are thousandths. Faces, motion, aspect
ratio and content format decide nothing later and are left out.

A *segment* is the first number in its text, which is all the ordinal patterns
of Stage C look at; what it says otherwise only matters for entities. In
`Evidence`, `Extract` is Stage B with both extractors (how they are dispatched is
in `JobPipeline`), and `Fuse` is Stage C up to the graph: `Modality` and
`Conflict` are `v3_resolve_conflicts`, `EffectiveType` the ordinal fallback,
`GraphConfidence` is `_compute_evidence_confidence`. When Stage B has run, the
census variables are set back: nothing reads them any more.

In `Reasoning` the segments are given by the names the patterns match in them.
`Find` is the heuristic extraction with its stable sort and its cut, `Reasoned`
and `ReasonGivesUp` are the two calls of Groq and the parser, `Merge` is
`_merge_entities` with the keys of `_normalize_entity_name`, `MergeRefused` a
database that takes no such text and the retry of Stage C, `Load` to `Respond`
are Stage D. `Keys` of names without Latin letters or digits are all the empty
key.

### How Confidence corresponds to the code

`Evaluate` is `evaluate()` with scorer, branches and marks. It has no caller in
the repository (`decisions.md`, DR-17, speaks of one): `Rescan` is external and
does what a verdict asks for, with any outcome.

## Runs

| run | instance | what it shows |
|---|---|---|
| `faults` | 5 slots, one retry per task, everything may fail, one crash | `TypeOK`, `StageHasInput`, `StatusIsBacked`, `UploadHasMedia`, `OneManifest`, `ChordCanFire`, `NoSilentLoss`, `StoresInOrder` |
| `user_retry` | 3 slots, retries for download and fusion, one user retry | the same core when two chains of tasks of one job run against each other, and `ComesToRest` |
| `answered` | no failure, weak fairness | `SubmittedIsAnswered`: every manifest, the silent video without text included, leads to a response |
| `storage` | two chains, one extractor; time limit 1, age limit 2; no fairness | `ExpiredIsIdle`, `UploadWindow`, `VideoIsStored`, `NothingForgotten` |
| `evidence` | shares, frame counts, answers and segments on both sides of each threshold | `NothingOverlooked`, `LossIsVisible`, `SpeechIsNotSilenced`, `StructureIsKept`, `MoreEvidenceIsNoLess` |
| `reasoning` | four names, three keys, two ranked items, two phrases, two entities of Groq | `RankedItemsFirst`, `NothingRejected`, `NamesSurvive`, `AddedOnce`, `EveryVideoIsAnswered` |
| `confidence` | the thresholds of the source, scores at and around them, two rescans | `MarksAgree`, `LostSpeechStaysMarked`, `ComesToAVerdict` |
| `alignment` | four segments of one source, or two of ASR and two of OCR | `OverlapsResolved`, `PeaksSurvive`, `MergedOnce`, `NoDuplicateLeft`, `GapsAreFound` |
| `claim_*` | one claim each | the claim is violated |

**Properties.** `StageHasInput`: a census under way has a video in S3, a stage
after it a manifest, Stage D a graph; the `ValueError`s that no handler catches
are never raised. `StatusIsBacked`: no status claims a result that is absent.
`UploadHasMedia`: without user retries no cleanup takes the file from an upload.
`OneManifest`: without user retries one chain of tasks brings the video in and
probes it, so the check-then-insert of Stage A leaves one manifest.
`ChordCanFire`: without crashes each extractor that a fusion waits for still
exists. `NoSilentLoss`: without crashes, user retries and a broker that refuses
the submission, a job without a result does not come to rest in the care of
ingest or Stage C. (Stages A and B are exceptions, see *Disagreements*.)
`StoresInOrder`: the refinement of `Checkpoints`.
`OverlapsResolved`: although an item is compared with the last one kept only, no
two items kept overlap. `PeaksSurvive`: an item more confident than all it
overlaps is kept, in whatever chain it stands. `MergedOnce`, `NoDuplicateLeft`:
the greedy merge uses an item once and leaves no pair that could be merged.
`GapsAreFound`: a stretch longer than the threshold without segments is reported.
The converse does not hold: a text seen while speech goes on hides the end of the
speech, and what the speech covers is reported as a gap.

`ExpiredIsIdle`: what is old enough to be removed is not worked in by an extractor
or a first download. `UploadWindow`: an upload finds its files as long as it was
dispatched no longer ago than the age limit exceeds the time limit (half an hour
with the defaults); an upload that waits for longer, behind others in the queue
or through its own retries, may find nothing. `VideoIsStored`: `video.mp4` holds
the video, unless a download has found a directory, in which case `files[0]` may
be the sound track an earlier attempt has left. It is about at most one user
retry: a third chain can meet a second fresh download in a directory that a
late cleanup has emptied. `NothingForgotten`: what is in the directory belongs to a
task that works in it or will be repeated, or to an extractor that has died, or
there is a chain that has ended without cleaning up. There are three such ends, and
TLC finds each of them needed: a worker that dies; a download whose last attempt
fails before it gets to the directory (`job_dir_created` is about this attempt, so
the files of the attempts before stay); and a download that is repeated after
another chain has stored the video. That the hourly cleanup removes in the end what
they leave is *not* stated, since nothing in the code makes it run where the
directory is (see *Disagreements*): the cleanup is an action that may be taken.

`NothingOverlooked`: a manifest that asks for no extractor means that a probe has
failed or that there is nothing to extract. `LossIsVisible`: such failures lower
the confidence that is stored. (A container without a duration is *silent* with
full confidence, and neither OCR nor librosa that is not installed leaves a
trace; the property says so by what it leaves out.) `SpeechIsNotSilenced`,
`StructureIsKept`, `MoreEvidenceIsNoLess`: three judgements of Stage C, each made
without knowing of the others, do not cancel what the evidence is worth.

`RankedItemsFirst`: the cut of the heuristic list takes a phrase only after the
ranked items. `NothingRejected`: no entity is stored that Stage D's contract
refuses. `NamesSurvive`: a name found in the segments has an entity with its key
after the merge; a name that has no key, because `_normalize_entity_name` leaves
nothing of it (a name in another script), survives only if Groq has named nothing
at all. So the property is what the merge does, not what its docstring promises.
`AddedOnce`: the merge adds no heuristic name whose key Groq has given or that it
has added already. `EveryVideoIsAnswered`: whatever Groq says, Stage D can read
what Stage C has stored, and the video is answered, unless the database has
refused every attempt.

`MarksAgree`: levels of the scorer and branches of the rules, which have separate
thresholds, never contradict each other. `LostSpeechStaysMarked`,
`ComesToAVerdict`: rescans hide no loss, and end (`build.md:252`).

**Bounds.** One retry instead of two to five lets every task be repeated and be
exhausted; the handlers compare with the limit and nothing else depends on the
number. One user retry gives two concurrent chains of tasks, the least number
that can race. Five slots hold a repeated Stage A next to the chord its first
run has dispatched, and let a second chord start. The three of `user_retry`, which
checks liveness and so cannot use symmetry, hold one chord of both extractors, or
up to three tasks of two chains; what is an invariant there is proved for any
number. One crash may hit any task at
any step. The proofs do without these bounds.

For the alignment, four segments of a source make a chain in which one displaces
two and loses against the first, and four instants with a tolerance of one let
points overlap pairwise but not as a whole. Two segments on either side are the
least in which a greedy choice can take what another needs; the instants 0, 1, 5
and 6 lie on both sides of the merge window and of the gap threshold, and on them.

For the storage, half an hour is the unit, so that the limits of `config.py` are
1 and 2 and one step of time lies between; two chains are the least number that
can race, one extractor the least that can keep a directory in use. The proofs
are for any limits and numbers. For the evidence, 19 and 20 percent of voiced
frames, 0 to 2 captioned frames among 1, 2, 4 and 15 sampled ones, and segments
that count up, down, both ways, rarely or not at all lie on both sides of each
threshold of the code; combinations are exhaustive. For the reasoning, two names
with one key, one with another and one with the empty key are the ways in which
two names can meet; `MaxFound` is 3 instead of 20, so that the cut happens.

**Fairness.** `FairSpec` has weak fairness for every slot's worker
(`WF_vars(Work(t))`: workers take messages, and every call returns, raises, or
is ended by the task time limits) and for `RetryCommit` (a request that is being
served is carried through). There is none for submitting, retrying, failing
rather than succeeding, or dying. `Work(t)` is the disjunction of a task's
steps, so fairness does not choose between success and failure.
In `Reasoning` and `Confidence` the pipeline goes on. Neither assumes that
anything succeeds. `IngestNode` has no fairness: neither time, nor the cleanup, nor
a task has to take a step for what it states.

**Deadlock** is not checked: a job that is answered or has failed for good
stops, and so do the models of one video.

Every property of a passing run has a mutant in `PROJECT.json`: a definition of
the code with a plausible bug (the operators marked *Seeded fault*), under which
TLC finds the property violated.

## Disagreements

| run | the repository says | the code does |
|---|---|---|
| `claim_status_order` | `context.md:326-333`: the statuses follow each other | Stage A dispatches Stage B, then commits `v3_stage_a_complete` over whatever Stage B and its successors have written |
| `claim_completed` | `stage_d_taxonomy.py:8`: after this task the status is `completed` | a repeated Stage D finds the response and returns, leaving `v3_stage_d_running` |
| `claim_exhausted` | `decisions.md:370`: exhausted retries go to `dead_letter` and can be recovered | Stage D leaves `v3_stage_d_failed`, which the retry endpoint refuses |
| `claim_bundle` | `tests/unit/stage_b/test_stage_b_extraction.py:86`: no second bundle row for a job | two extractors that run in parallel insert one each, and Stage C reads the first |

Met while modelling, without a run of their own:

- `docs/runbook.md:67-72` lets a job stuck at `v3_stage_X_running` be retried by
  the API, which accepts `failed` and `dead_letter` only; and `docs/runbook.md:22`
  calls `dead_letter` permanent, but an exhausted extractor writes it and returns
  normally, so its chord goes on.
- The docstring of `_merge_entities` (`stage_c_fusion.py:51-53`) promises a list
  "never shorter" than the heuristic one. It is shorter when Groq names one of two
  found spellings of a name (`Dune`, `DUNE`), and, which loses something, when names
  without a key are found and Groq names anything: `if key and ...`
  (`stage_c_fusion.py:63`) drops every name in a script other than Latin.
  `NamesSurvive` and `NamesAreKept` except them in so many words.
- `context.md:254`: scratch files "are deleted after each task completes".
  `NothingForgotten` names the ends after which they are not, two of them without
  any worker dying. The cleanup that remains is a single task of beat on the queue
  `fast` (`cleanup_tasks.py:8`), while the directories are on the nodes of `heavy`
  and `io` (`ingest.py:20`, `ingest.py:103`), which the same line of `context.md`
  keeps apart; and `docs/LOCAL_SETUP.md:116` starts no beat.
- A subject or summary of Groq's that is no text makes the database refuse the
  graph; Stage C repeats, asks again and may end in `dead_letter`, although the
  names found without Groq would do.
- A gap that an earlier, longer segment covers is reported.
- A structure found by the pattern of numbers comes after the modality is chosen.
  The cost of a conflict in `_compute_evidence_confidence`, and the discount for
  transcripts of which little was expected, can never apply.
- The cookie pool is documented as a thread-safe round-robin; it chooses at random
  and each download makes a pool of its own.

## Proofs

Eight modules of proofs, each for every value of the constants of the module it
is about, from that module's named assumptions:

| module | theorem | statement |
|---|---|---|
| `JobPipelineProofs` | `TypeCorrect` | `Spec => []TypeOK` |
| | `StagesHaveInput` | `Spec => []StageHasInput` |
| | `StatusBacked` | `Spec => []StatusIsBacked` |
| | `ImplementsCheckpoints` | `Spec => StoresInOrder` |
| `ChordProofs` | `ChordsCanFire` | `Spec => []ChordCanFire` |
| `FirstRunProofs` | `ManifestIsAlone` | `Spec => []OneManifest` |
| | `UploadsHaveMedia` | `Spec => []UploadHasMedia` |
| | `NothingSilentlyLost` | `Spec => []NoSilentLoss` |
| `IngestNodeProofs` | `TypeCorrect` | `Spec => []TypeOK` |
| | `ExpiredIdles` | `Spec => []ExpiredIsIdle` |
| | `UploadKept` | `Spec => []UploadWindow` |
| | `VideoOfFew` | `Spec => [](Few => VideoIsStored)` |
| | `NothingIsForgotten` | `Spec => []NothingForgotten` |
| | `VideoKept` | `Chain \subseteq {a, b}` proves `Spec => []VideoIsStored` |
| `EvidenceProofs` | `TypeCorrect` | `Spec => []TypeOK` |
| | `Overlooked` | `Spec => []NothingOverlooked` |
| | `LossShows` | `Spec => []LossIsVisible` |
| | `SpeechIsHeard` | `Spec => []SpeechIsNotSilenced` |
| | `StructureKept` | `Spec => []StructureIsKept` |
| | `EvidenceIsWorth` | `Spec => []MoreEvidenceIsNoLess` |
| `ReasoningProofs` | `TypeCorrect` | `Spec => []TypeOK` |
| | `RankedItemsAreKept` | `Spec => []RankedItemsFirst` |
| | `StoredIsReadable` | `Spec => []NothingRejected` |
| | `NamesAreKept` | `Spec => NamesSurvive` |
| | `NothingAddedTwice` | `Spec => AddedOnce` |
| `AlignmentProofs` | `TypeCorrect` | `Spec => []TypeOK` |
| | `OverlapsAreResolved` | `Spec => []OverlapsResolved` |
| | `PeaksAreKept` | `Spec => []PeaksSurvive` |
| | `NothingMergedTwice` | `Spec => []MergedOnce` |
| | `NoDuplicateIsLeft` | `Spec => []NoDuplicateLeft` |
| | `GapsAreDetected` | `Spec => []GapsAreFound` |
| `ConfidenceProofs` | `TypeCorrect` | `Spec => []TypeOK` |
| | `MarksAlwaysAgree` | `Spec => []MarksAgree` |
| | `LostSpeechMarked` | `Spec => LostSpeechStaysMarked` |

**JobPipeline** (`None` is neither a slot nor a set of modalities; the retry
limits and bounds are numbers; manifests ask for known extractors). The first
lemmas say what the helpers do to the slots (a step of a task changes its slot
only, the end of a header task also the slot of its callback, a header fills
free slots); type correctness goes through the actions with them.

`StageHasInput` and `StatusIsBacked` are not inductive. Stage A passes the job
to Stage B in a step of its own, `CensusDispatch`, and nothing in
`StageHasInput` says that a census that got there has stored a manifest; and
`ResumePoint` dispatches Stage D on seeing a graph, which proves that there is a
manifest and a video only if results are stored in order. `IInv` adds
both: `Backed(k, p)` says what a task of kind `k` in phase `p` may rely on, and
`ResultsInOrder` orders the results. `IInv` is inductive relative to `TypeOK`.
The refinement follows: four actions store something (`FourStepsStore`), `IInv`
gives each of them the result that has to be there before.

`ChordProofs` adds `Linked`: whoever has a callback is an extractor that a waiting
fusion still lists, and no two of one kind answer to the same fusion. Both are
needed because a slot is used again after its task has ended: an extractor that
answered to a slot which has changed hands would overwrite what is there now, and
a second extractor of a kind would end the wait of a fusion for those still
coming. `Linked` holds through crashes too; `ChordCanFire` needs that there are
none. `UnlinkedSteps` disposes of every step that has nothing to do with chords.

`FirstRunProofs` is about a job no user has retried (`FirstRun`): its parts lean on
each other, so they are one invariant. `Alone` (one early task) holds since each
early task hands over its own slot; with it no other task can remove the file
between a download's commit and its upload (`Carried`), and no other census can
insert a manifest after one has looked (`Relies`). `InHand` and `Fused` give each
status of the ingest and of Stage C a task that will yet change it: that, and
`StatusIsBacked` for `completed`, is `NoSilentLoss`. That a fusion's carrier is
never the slot a header task fills or frees needs `Linked`.

**IngestNode** (the time limit is positive and at most the age limit; extractors
have names of their own). The core is `Clocked`: the directory is never older
than the longest work in it, because what a task creates renews its mtime. From
it follows `ExpiredIsIdle`, and that the cleanup has not condemned the directory
of a first download (`FreshIsYoung`), which `Kept` carries over to the upload:
at the hand-over the directory is at most a time limit old, and grows old no
faster than the upload waits. `StepKeeps` reduces each step of a chain to what it
owes itself; `Unread` says that nobody else works in the directory before the
video is stored.

`VideoIsStored` is about two chains, and rests on `VInv` besides `IInv`. While no
download has found a directory and at most two chains are dispatched (`Few`),
two downloads never work at the same time (`Separate`): one that starts has found
no directory, so the other, had it been at work, must have lost its own to the
cleanup; but a directory in which a first download works is too young to be
condemned, and one that is condemned and gone has been removed by a chain that is
over (`CondemnedExists`), which with two at work would be a third. So nobody puts a
sound track next to a video that is yet to be picked (`NoSound`). What is few and
fresh after a step was so before (`Before`), which makes this inductive. With
three chains TLC finds a job whose sound track is stored as its video.

`NothingForgotten` is inductive but for one fact: a chain on record as having `left`
something is over (`LeftIsOver`), so what a chain answers for does not vanish when
it is dispatched or ends. A chain at work answers for all there is (`WorksOn`), one
that ends removes it or goes on record (`EndsOnRecord`).

**Evidence** (bounds of the inputs; `None` is no record). `CensusInv` is the
account of the probes: what is lost, what is known without it, and how sure a
probe may say to be (`HeardSoFar`, `SeenSoFar`); `Handed` is what is left of it
when Stage A has ended. `NothingOverlooked` rests on `TwoFramesAreText`: two
captioned frames reach the adaptive minimum for any number of frames.
`MoreEvidenceIsNoLess` rests on `TextIsNoLess` and `SpeechIsNoLess`, which compare
the sums of deductions case by case; the second needs that a transcript exists
only where speech was heard (`TranscriptsOfSpeech`).

**Confidence** (no threshold for a rescan or a downgrade is above the level
*low*). `LostSpeechStaysMarked` needs that a rescan never asks for speech
recognition that has delivered nothing, an invariant of pairs of states.

**Reasoning** (keys for all names; the inputs are of the contract's types).
`Select` and `Merged` are folds. Neither SMT nor Zenon can do induction over
them, so what they compute is shown by the least number principle: the
library's `WFMin` for `<` on numbers gives every set of numbers that is not
empty a least one (`LeastOf`), and from it induction up to a bound, stated for a
set and not for a predicate (`InductionTo`). A fold is given by the graph of its
intermediate results (`IsFold`, `FoldExists`, `MergedUnfolds`), and `Gathered` is
what the merge has done after `k` names: Groq's list is in front, the first `k`
keys are there, and each entity that was added has a key that none before it has.
Its last instance is `NamesSurvive` and `AddedOnce`. The sort is stable because a
selection that leaves nothing out at the beginning keeps it as it is (`Prefixed`):
ranked items, all of full confidence and in front, stay in front. `Kept` is the
account of what each step hands to the next: entities within the contract
(`Sound`) once they are stored, whatever Groq's answer was (`ParsedProperties`).

**Alignment** (tolerance, window, threshold and times are numbers). The invariant
adds that the inputs are sorted and that what has been kept comes from before the
item looked at (`KeptBefore`); that is enough for an item that does not overlap
the last one kept to overlap none (`KeptApart`), which the code relies on when it
looks at the last one only. A peak is never displaced: whoever displaces it would
have to win (`ResolvesPeaks`). For the merge, `MergedSeen` says that only texts
looked at so far are merged, when nothing is pending any more, and
`NoDuplicateSeen` is the property for those. For the gaps, `FirstSegment` and
`LastSegment` pick the neighbours at the two ends of a stretch by `LeastOf`, in the
order of starts with ties broken as the sort does; no segment lies between them,
so `detect_gaps` compares just these two (`StretchIsFound`).

**Only model-checked** is liveness under fairness: `SubmittedIsAnswered`,
`ComesToRest`, `EveryVideoIsAnswered`, `ComesToAVerdict`. (That
Stage D can read all that is stored, on which `EveryVideoIsAnswered` rests, is
`StoredIsReadable`.) Every other
property of a passing run is a theorem. The inductive invariants were checked with
TLC on the instances of the runs before they were proved.

## Not modelled

- The merging of captions and of chunks (`alignment/semantic_chunker.py`), the
  engines of the extractors and the image and sound analysis inside the probes:
  what they find is the content of a video here, in all its forms.
- `structural_detector.py`, the V1 and V2 modules (`router/*`,
  `fusion/conflict_resolver.py`, `fusion/groq_reasoner.py`, the extractors before
  V3), embeddings and queries: no V3 task calls them.
- The results API reads; the result cache delegates its expiry to Redis and has
  no caller in the pipeline; authentication and rate limits are the work of
  FastAPI and Redis.
- `S3StorageManager.delete_directory`, which only a script calls, and the
  rotation of cookie files, which is never reached, as each download makes a pool
  of its own.
- Prompts, timestamps, subjects and summaries of entities and responses.

What is left to do: a statement about more than two chains of one job on the
ingestion node; the chunker, if it gets a caller.
