----------------------------- MODULE IngestNode ------------------------------
(***************************************************************************)
(* The directory of one job on the ingestion node, over time.              *)
(*                                                                         *)
(* download_video fills it, upload_video_to_s3 empties it, the extractors  *)
(* keep their copies of the video in it, and cleanup_orphaned_s3 removes   *)
(* it when its mtime is too old.  Time passes in Tick; creating or         *)
(* removing an entry of a directory sets its mtime, writing a file that is *)
(* already there does not.                                                 *)
(*                                                                         *)
(* A chain is one dispatch of download_video with what follows from it; a  *)
(* user's retry starts a second one.                                       *)
(***************************************************************************)
EXTENDS Naturals

CONSTANTS
    Chain,          \* the chains of ingest tasks of the job
    None,           \* no file, nothing stored
    Extractor,      \* v3_run_asr, v3_run_ocr
    MaxRetries,     \* [{"download", "upload"} -> Nat]
    ExtractorRuns,  \* bound on the runs of every extractor
    TimeLimit,      \* celery_task_time_limit
    MaxAge          \* temp_media_max_age_seconds

\* The video yt-dlp writes, the sound track ffmpeg takes out of it, the copy
\* every extractor works on, and a copy whose worker has died.
File == {"video", "audio", "orphan"} \cup Extractor

ASSUME NamesAssumption ==
    /\ None \notin File
    /\ Extractor \cap {"video", "audio", "orphan"} = {}
ASSUME RetriesAssumption ==
    MaxRetries \in [{"download", "upload"} -> Nat] /\ ExtractorRuns \in Nat

\* config.py: 1800 and 3600 seconds.
ASSUME TimeAssumption ==
    TimeLimit \in Nat \ {0} /\ MaxAge \in Nat /\ TimeLimit <= MaxAge

VARIABLES
    present,    \* the directory of the job exists
    files,      \* its entries
    age,        \* time since its mtime, up to MaxAge + 1
    condemned,  \* the cleanup has found it too old and will remove it
    chain,      \* the task every chain is at
    uri,        \* jobs.s3_video_uri is set
    stored,     \* what the object video.mp4 of the job holds
    extractor   \* the run every extractor is in

storage == <<present, files, age>>
vars == <<present, files, age, condemned, chain, uri, stored, extractor>>

\* clock: how long this run of the task has taken so far.
\* waited: how long ago the upload was dispatched, up to MaxAge.
\* picked, sound: the paths an upload is given; sound: there is an audio path.
\* fresh: no run of its download has found a directory.
\* left: it is over without a cleanup_job after it has worked in the directory.
Ingest == [task : {"none", "download", "upload", "over"},
           phase : {"idle", "queued", "fetching", "converting",
                    "sending", "sounding", "cleaning"},
           retries : Nat, clock : 0..TimeLimit, waited : 0..MaxAge,
           picked : File \cup {None}, sound : BOOLEAN,
           fresh : BOOLEAN, left : BOOLEAN]

Idle == [task |-> "none", phase |-> "idle", retries |-> 0, clock |-> 0,
         waited |-> 0, picked |-> None, sound |-> FALSE, fresh |-> TRUE,
         left |-> FALSE]

Over(c, left) ==
    [Idle EXCEPT !.task = "over", !.fresh = chain[c].fresh, !.left = left]

\* A run of its download has got as far as the directory.
Worked(c) ==
    \/ chain[c].task = "upload"
    \/ /\ chain[c].task = "download"
       /\ chain[c].phase # "queued" \/ chain[c].retries > 0

Run == [reading : BOOLEAN, clock : 0..TimeLimit, left : 0..ExtractorRuns]

TypeOK ==
    /\ present \in BOOLEAN
    /\ files \in SUBSET File
    /\ age \in 0..(MaxAge + 1)
    /\ condemned \in BOOLEAN
    /\ chain \in [Chain -> Ingest]
    /\ uri \in BOOLEAN
    /\ stored \in {None, "video", "audio"}
    /\ extractor \in [Extractor -> Run]

Init ==
    /\ present = FALSE
    /\ files = {}
    /\ age = 0
    /\ condemned = FALSE
    /\ chain = [c \in Chain |-> Idle]
    /\ uri = FALSE
    /\ stored = None
    /\ extractor = [m \in Extractor |->
            [reading |-> FALSE, clock |-> 0, left |-> ExtractorRuns]]

-----------------------------------------------------------------------------
(* The directory: TempStorageManager.                                      *)

\* get_job_dir: an existing directory keeps its mtime.
MakeDir ==
    /\ present' = TRUE
    /\ age' = IF present THEN age ELSE 0
    /\ UNCHANGED files

\* Seeded fault: the age of the directory counts from its creation.
HoldsSinceCreation(entries) ==
    /\ present' = TRUE
    /\ files' = entries
    /\ age' = IF present THEN age ELSE 0

\* The entries change to those given; a directory that is gone is made anew.
Holds(entries) ==
    /\ present' = TRUE
    /\ files' = entries
    /\ age' = IF present /\ entries = files THEN age ELSE 0

\* cleanup_job, which does nothing if the directory does not exist.
RemoveDir ==
    /\ present' = FALSE
    /\ files' = {}
    /\ age' = 0

\* Seeded fault: a directory is too old at the limit already.
SweepLooksAtLimit ==
    /\ present /\ age >= MaxAge /\ ~condemned
    /\ condemned' = TRUE
    /\ UNCHANGED <<storage, chain, uri, stored, extractor>>

\* cleanup_expired finds the directory too old ...
SweepLooks ==
    /\ present /\ age > MaxAge /\ ~condemned
    /\ condemned' = TRUE
    /\ UNCHANGED <<storage, chain, uri, stored, extractor>>

\* ... and removes it, whatever has happened to it since.
SweepRemoves ==
    /\ condemned
    /\ condemned' = FALSE
    /\ RemoveDir
    /\ UNCHANGED <<chain, uri, stored, extractor>>

-----------------------------------------------------------------------------
(* download_video and VideoDownloader.download.                            *)

At(c, task, phases) == chain[c].task = task /\ chain[c].phase \in phases

Becomes(c, record) == chain' = [chain EXCEPT ![c] = record]

MovesTo(c, phase) == chain' = [chain EXCEPT ![c].phase = phase]

\* A job is submitted; or a user retries it, before its video is in S3, after
\* a failed download, which Celery may still have a retry of.
Dispatch(c) ==
    /\ chain[c].task = "none"
    /\ ~uri
    /\ \A d \in Chain \ {c} :
            \/ chain[d].task \in {"none", "over"}
            \/ At(d, "download", {"queued"}) /\ chain[d].retries > 0
    /\ Becomes(c, [Idle EXCEPT !.task = "download", !.phase = "queued"])
    /\ UNCHANGED <<storage, condemned, uri, stored, extractor>>

\* A video that is in S3 by now is not downloaded again, unless the status of
\* the job says that it is waiting for its download.
DownloadStart(c) ==
    /\ At(c, "download", {"queued"})
    /\ \/ /\ uri
          /\ Becomes(c, Over(c, Worked(c)))
          /\ UNCHANGED storage
       \/ /\ MakeDir
          /\ Becomes(c, [chain[c] EXCEPT !.phase = "fetching", !.clock = 0,
                                         !.fresh = @ /\ ~present])
    /\ UNCHANGED <<condemned, uri, stored, extractor>>

\* yt-dlp writes the video, unless a file of its name is there, and
\* video_path = files[0]: the first entry in whatever order glob lists them.
Fetch(c) ==
    /\ At(c, "download", {"fetching"})
    /\ Holds(files \cup {"video"})
    /\ \E f \in files \cup {"video"} :
            Becomes(c, [chain[c] EXCEPT !.phase = "converting", !.picked = f])
    /\ UNCHANGED <<condemned, uri, stored, extractor>>

\* The upload is dispatched with the two paths.
HandsOver(c, video, sound) ==
    Becomes(c, [chain[c] EXCEPT !.task = "upload", !.phase = "queued",
                                !.picked = video, !.sound = sound,
                                !.retries = 0, !.clock = 0, !.waited = 0])

\* Seeded fault: the file is picked after the sound track was taken out.
ConvertThenPick(c) ==
    /\ At(c, "download", {"converting"})
    /\ Holds(files \cup {"audio"})
    /\ \E f \in files \cup {"audio"} : HandsOver(c, f, TRUE)
    /\ UNCHANGED <<condemned, uri, stored, extractor>>

\* ffmpeg takes the sound track out of the picked file, or exits with an
\* error: the video has none, the file is gone, or it is the sound track of
\* an earlier attempt, which ffmpeg does not convert in place.
Convert(c) ==
    /\ At(c, "download", {"converting"})
    /\ \/ /\ chain[c].picked \in files \ {"audio"}
          /\ Holds(files \cup {"audio"})
          /\ HandsOver(c, chain[c].picked, TRUE)
       \/ UNCHANGED storage /\ HandsOver(c, chain[c].picked, FALSE)
    /\ UNCHANGED <<condemned, uri, stored, extractor>>

\* IngestionError: no usable cookie file, a video that is refused, whatever
\* happens inside yt-dlp, a directory without a file.  No retry.
DownloadRejected(c) ==
    /\ At(c, "download", {"fetching"})
    /\ RemoveDir
    /\ Becomes(c, Over(c, FALSE))
    /\ UNCHANGED <<condemned, uri, stored, extractor>>

Retried(c) ==
    [chain[c] EXCEPT !.phase = "queued", !.retries = @ + 1, !.clock = 0]

Exhausted(c) == chain[c].retries >= MaxRetries[chain[c].task]

\* Any other exception, the soft time limit included, leaves the directory as
\* it is to the retry, with a sound track if ffmpeg has begun one.  The last
\* attempt removes it, if it got as far as making it.
DownloadFails(c) ==
    /\ At(c, "download", {"queued", "fetching", "converting"})
    /\ IF Exhausted(c)
       THEN \/ /\ chain[c].phase = "queued"
               /\ Becomes(c, Over(c, Worked(c)))
               /\ UNCHANGED storage
            \/ /\ chain[c].phase # "queued"
               /\ Becomes(c, Over(c, FALSE))
               /\ RemoveDir
       ELSE /\ Becomes(c, Retried(c))
            /\ \/ UNCHANGED storage
               \/ /\ chain[c].phase = "converting" /\ chain[c].picked \in files
                  /\ Holds(files \cup {"audio"})
    /\ UNCHANGED <<condemned, uri, stored, extractor>>

-----------------------------------------------------------------------------
(* upload_video_to_s3.                                                     *)

UploadStart(c) ==
    /\ At(c, "upload", {"queued"})
    /\ MovesTo(c, IF uri THEN "cleaning" ELSE "sending")
    /\ UNCHANGED <<storage, condemned, uri, stored, extractor>>

\* upload_file replaces the object of the job.
SendVideo(c) ==
    /\ At(c, "upload", {"sending"})
    /\ chain[c].picked \in files
    /\ stored' = IF chain[c].picked = "audio" THEN "audio" ELSE "video"
    /\ MovesTo(c, "sounding")
    /\ UNCHANGED <<storage, condemned, uri, extractor>>

SendSound(c) ==
    /\ At(c, "upload", {"sounding"})
    /\ chain[c].sound => "audio" \in files
    /\ uri' = TRUE
    /\ MovesTo(c, "cleaning")
    /\ UNCHANGED <<storage, condemned, stored, extractor>>

UploadCleans(c) ==
    /\ At(c, "upload", {"cleaning"})
    /\ RemoveDir
    /\ Becomes(c, Over(c, FALSE))
    /\ UNCHANGED <<condemned, uri, stored, extractor>>

\* Seeded fault: the last attempt leaves the directory to the cleanup.
UploadFailsLeaving(c) ==
    /\ At(c, "upload", {"queued", "sending", "sounding", "cleaning"})
    /\ Becomes(c, IF Exhausted(c) THEN Over(c, FALSE) ELSE Retried(c))
    /\ UNCHANGED <<storage, condemned, uri, stored, extractor>>

UploadFails(c) ==
    /\ At(c, "upload", {"queued", "sending", "sounding", "cleaning"})
    /\ IF Exhausted(c)
       THEN RemoveDir /\ Becomes(c, Over(c, FALSE))
       ELSE UNCHANGED storage /\ Becomes(c, Retried(c))
    /\ UNCHANGED <<condemned, uri, stored, extractor>>

-----------------------------------------------------------------------------
(* The extractors: v3_run_asr and v3_run_ocr.                              *)

\* get_job_dir and download_file: a copy under a name of its own.
ExtractorFetches(m) ==
    /\ uri /\ ~extractor[m].reading /\ extractor[m].left > 0
    /\ Holds(files \cup {m})
    /\ extractor' = [extractor EXCEPT ![m] =
            [reading |-> TRUE, clock |-> 0, left |-> @.left - 1]]
    /\ UNCHANGED <<condemned, chain, uri, stored>>

\* The finally block removes the copy, after success and failure alike; the
\* directory stays.
ExtractorEnds(m) ==
    /\ extractor[m].reading
    /\ IF m \in files THEN Holds(files \ {m}) ELSE UNCHANGED storage
    /\ extractor' = [extractor EXCEPT ![m].reading = FALSE]
    /\ UNCHANGED <<condemned, chain, uri, stored>>

-----------------------------------------------------------------------------
(* Workers that die, and time.                                             *)

\* The worker dies, or is killed at the hard time limit: the message is lost
\* and what the task has left in the directory stays.
IngestDies(c) ==
    /\ chain[c].task \in {"download", "upload"} /\ chain[c].phase # "queued"
    /\ Becomes(c, Over(c, Worked(c)))
    /\ UNCHANGED <<storage, condemned, uri, stored, extractor>>

ExtractorDies(m) ==
    /\ extractor[m].reading
    /\ files' = IF m \in files THEN (files \ {m}) \cup {"orphan"} ELSE files
    /\ extractor' = [extractor EXCEPT ![m].reading = FALSE]
    /\ UNCHANGED <<present, age, condemned, chain, uri, stored>>

Running(c) == chain[c].phase \notin {"idle", "queued"}

\* Seeded fault: nothing caps the age.
Uncapped(n, limit) == n + 1

Capped(n, limit) == IF n < limit THEN n + 1 ELSE n

\* No task outlives the hard time limit.
Tick ==
    /\ \A c \in Chain : Running(c) => chain[c].clock < TimeLimit
    /\ \A m \in Extractor : extractor[m].reading => extractor[m].clock < TimeLimit
    /\ age' = IF present THEN Capped(age, MaxAge + 1) ELSE age
    /\ chain' = [c \in Chain |->
            [chain[c] EXCEPT
                !.clock = IF Running(c) THEN @ + 1 ELSE @,
                !.waited = IF chain[c].task = "upload" THEN Capped(@, MaxAge)
                                                       ELSE @]]
    /\ extractor' = [m \in Extractor |->
            [extractor[m] EXCEPT
                !.clock = IF extractor[m].reading THEN @ + 1 ELSE @]]
    /\ UNCHANGED <<present, files, condemned, uri, stored>>

Sweep == SweepLooks \/ SweepRemoves

Ingests(c) ==
    \/ DownloadStart(c) \/ Fetch(c) \/ Convert(c)
    \/ DownloadRejected(c) \/ DownloadFails(c)
    \/ UploadStart(c) \/ SendVideo(c) \/ SendSound(c) \/ UploadCleans(c)
    \/ UploadFails(c) \/ IngestDies(c)

Next ==
    \/ \E c \in Chain : Dispatch(c) \/ Ingests(c)
    \/ \E m \in Extractor :
            ExtractorFetches(m) \/ ExtractorEnds(m) \/ ExtractorDies(m)
    \/ Sweep
    \/ Tick

Spec == Init /\ [][Next]_vars

-----------------------------------------------------------------------------
(* Properties.                                                             *)

\* A directory old enough to be removed holds nothing a running extractor or
\* a first download still works with: what they create renews the mtime, and
\* celery_task_time_limit ends them before temp_media_max_age_seconds is
\* over.
ExpiredIsIdle ==
    present /\ age > MaxAge =>
        /\ \A m \in Extractor : ~extractor[m].reading
        /\ \A c \in Chain :
                chain[c].fresh => ~At(c, "download", {"fetching", "converting"})

Alone(c) == \A d \in Chain \ {c} : chain[d].task = "none"

\* An upload whose download found no directory, of a job that no user has
\* retried, finds its files as long as it was dispatched no longer ago than
\* the age limit exceeds the time limit (half an hour by default), in spite
\* of its own failures.  Nothing protects an upload that waits for longer.
UploadWindow ==
    \A c \in Chain :
        /\ Alone(c) /\ chain[c].fresh
        /\ At(c, "upload", {"queued", "sending", "sounding"})
        /\ ~uri
        /\ chain[c].waited + TimeLimit <= MaxAge
        => /\ chain[c].picked \in files
           /\ chain[c].sound => "audio" \in files

\* What is stored as video.mp4 is the video, unless a download has found a
\* directory: then the first entry may be the sound track that an earlier
\* attempt has left.  With a third chain a cleanup that removes late lets
\* two first downloads meet in one directory.
VideoIsStored ==
    stored = "audio" => \E c \in Chain : ~chain[c].fresh

\* context.md:254: scratch files "are deleted after each task completes".
\* What is in the directory belongs to a task that works in it or will be
\* repeated, unless it is the copy of an extractor that has died, or a chain
\* has ended without its cleanup_job: it has died; the last attempt of its
\* download has failed before it got to the directory; or a repeated download
\* has found that another chain has stored the video.  What these leave is up
\* to the hourly cleanup, if it runs where the directory is.
NothingForgotten ==
    \A f \in files \ {"orphan"} :
        \/ f \in Extractor /\ extractor[f].reading
        \/ \E c \in Chain : Worked(c) \/ chain[c].left
==============================================================================
