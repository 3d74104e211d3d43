---------------------------- MODULE FirstRunProofs ----------------------------
(***************************************************************************)
(* A job that no user has retried: one task at a time brings its video in  *)
(* and probes it, the upload has its file, there is one manifest, and the  *)
(* job does not get lost in the care of the ingest tasks or of Stage C.    *)
(*                                                                         *)
(* The properties lean on each other.  No task can take the file from the  *)
(* upload because there is no other early task; there is one early task    *)
(* because each hands over its own slot; a census that goes on to probe    *)
(* finds no manifest because no other census has run since it looked.      *)
(***************************************************************************)
EXTENDS ChordProofs

-----------------------------------------------------------------------------
(* The invariant.                                                          *)

\* A task that brings the video in, or probes it.
Early(task) == task.kind \in {"download", "upload", "census"}

Alone == \A t, u \in Slot : Early(tasks[t]) /\ Early(tasks[u]) => t = u

Unsubmitted ==
    status = "absent" =>
        ~s3 /\ manifests = <<>> /\ \A t \in Slot : ~Early(tasks[t])

\* What the early task may rely on.
Relies(task) ==
    /\ task.kind = "download" => ~s3
    /\ task.kind = "download" /\ task.phase = "dispatching" => media
    /\ task.kind = "upload" /\ task.phase \in {"queued", "working"} /\ ~s3
            => media
    /\ task.kind = "census" /\ task.phase = "working" => manifests = <<>>

Carried == \A t \in Slot : Relies(tasks[t])

Ingesting == {"pending", "downloading", "upload_pending"}

\* The statuses of the ingest are behind a job that has its video.
Uploaded == s3 => status \notin Ingesting

\* They are claimed only while a download or an upload is on its way, ...
Bringing(task) ==
    task.kind \in {"download", "upload"} /\ task.phase \notin {"free", "waiting"}

InHand ==
    "submit" \notin MayFail /\ crashes = 0 /\ status \in Ingesting =>
        \E t \in Slot : Bringing(tasks[t])

\* ... and those of Stage C while a fusion is, or what it has dispatched.
Carrier(task) ==
    \/ task.kind = "fusion" /\ task.phase \in {"queued", "working", "dispatching"}
    \/ task.kind = "taxonomy" /\ task.phase = "queued"

Fused ==
    crashes = 0 /\ status \in {"v3_stage_c_running", "v3_stage_c_complete"} =>
        \E t \in Slot : Carrier(tasks[t])

FirstRun ==
    /\ Alone /\ Unsubmitted /\ Carried /\ Uploaded /\ InHand /\ Fused
    /\ Len(manifests) <= 1
    /\ requests = 0

FirstInv == userRetries = 0 => FirstRun

-----------------------------------------------------------------------------
(* Steps of the tasks after the census.                                    *)

\* Tasks of the later stages leave the early part of the invariant alone.
LEMMA LateSteps ==
    ASSUME FirstRun,
           \A s \in Slot : \/ tasks'[s] = tasks[s]
                           \/ ~Bringing(tasks[s]) /\ ~Early(tasks'[s]),
           UNCHANGED <<s3, media, manifests, requests, crashes>>,
           status' = status \/ status' \notin Ingesting \cup {"absent"}
    PROVE  /\ Alone' /\ Unsubmitted' /\ Carried' /\ Uploaded' /\ InHand'
           /\ Len(manifests') <= 1 /\ requests' = 0
<1> USE DEF FirstRun
<1>1. ASSUME NEW s \in Slot, Early(tasks'[s]) \/ Bringing(tasks[s])
      PROVE  tasks'[s] = tasks[s]
      BY <1>1
<1>2. Alone'
      BY <1>1 DEF Alone
<1>3. Unsubmitted'
      BY <1>1 DEF Unsubmitted
<1>4. Carried'
  <2> SUFFICES ASSUME NEW s \in Slot
               PROVE  Relies(tasks[s])'
      BY DEF Carried
  <2>1. CASE Early(tasks'[s])
        BY <1>1, <2>1 DEF Carried, Relies
  <2>2. CASE ~Early(tasks'[s])
        BY <2>2 DEF Early, Relies
  <2>3. QED BY <2>1, <2>2
<1>5. Uploaded'
      BY DEF Uploaded
<1>6. InHand'
  <2> SUFFICES ASSUME "submit" \notin MayFail, crashes = 0,
                      status' \in Ingesting
               PROVE  \E t \in Slot : Bringing(tasks'[t])
      BY DEF InHand, Bringing
  <2>1. PICK t \in Slot : Bringing(tasks[t])
        BY DEF InHand
  <2>2. tasks'[t] = tasks[t]
        BY <1>1, <2>1
  <2>3. QED BY <2>1, <2>2
<1>7. QED BY <1>2, <1>3, <1>4, <1>5, <1>6

\* As long as a status of Stage C stays, so does its carrier.
LEMMA StillCarried ==
    ASSUME FirstRun,
           \A s \in Slot : \/ tasks'[s] = tasks[s]
                           \/ ~Carrier(tasks[s])
                           \/ Carrier(tasks'[s]),
           status' = status, crashes' = crashes
    PROVE  Fused'
<1> SUFFICES ASSUME crashes = 0,
                    status \in {"v3_stage_c_running", "v3_stage_c_complete"}
             PROVE  \E t \in Slot : Carrier(tasks'[t])
    BY DEF Fused, Carrier
<1>1. PICK t \in Slot : Carrier(tasks[t])
      BY DEF FirstRun, Fused
<1>2. QED BY <1>1

\* The early task is alone, so its step is the only early one.
LEMMA EarlySteps ==
    ASSUME FirstRun, NEW t \in Slot, Early(tasks[t]),
           \A s \in Slot \ {t} : \/ tasks'[s] = tasks[s]
                                 \/ ~Early(tasks'[s]) /\ ~Carrier(tasks[s]),
           status' # "absent",
           Relies(tasks[t])', Uploaded',
           Bringing(tasks'[t]) \/ s3' \/ status' \notin Ingesting,
           \/ status' = status
           \/ status' \notin {"v3_stage_c_running", "v3_stage_c_complete"},
           Len(manifests') <= 1, UNCHANGED <<requests, crashes>>
    PROVE  FirstRun'
<1> USE DEF FirstRun
<1>1. \A s \in Slot \ {t} : ~Early(tasks'[s])
      BY DEF Alone
<1>2. Alone'
      BY <1>1 DEF Alone
<1>3. Unsubmitted'
      BY DEF Unsubmitted
<1>4. Carried'
  <2> SUFFICES ASSUME NEW s \in Slot, s # t
               PROVE  Relies(tasks[s])'
      BY DEF Carried
  <2>1. ~Early(tasks'[s])
        BY <1>1
  <2>2. QED BY <2>1 DEF Early, Relies
<1>5. InHand'
      BY DEF InHand, Bringing, Uploaded
<1>6. Fused'
  <2>1. CASE status' = status
    <3>1. ~Carrier(tasks[t])
          BY DEF Early, Carrier
    <3>2. QED BY <2>1, <3>1, StillCarried
  <2>2. CASE status' \notin {"v3_stage_c_running", "v3_stage_c_complete"}
        BY <2>2 DEF Fused
  <2>3. QED BY <2>1, <2>2
<1>7. QED BY <1>2, <1>3, <1>4, <1>5, <1>6

-----------------------------------------------------------------------------
(* Every step of a first run keeps the invariant.                          *)

LEMMA IngestFirst ==
    ASSUME TypeOK, IInv, ChordInv, FirstRun, NEW t \in Slot, Ingest(t)
    PROVE  FirstRun'
<1> USE DEF Early, Relies, Bringing, Ingesting, Uploaded, At, db, env
<1>0. /\ tasks \in [Slot -> Task] /\ Relies(tasks[t])
      /\ Early(tasks[t]) => status # "absent"
      /\ Len(manifests) <= 1 /\ Uploaded
      /\ Backed(tasks[t].kind, tasks[t].phase)
      BY DEF TypeOK, FirstRun, Carried, Unsubmitted, IInv, TasksBacked
<1>1. CASE DownloadStart(t)
      BY <1>0, <1>1, TaskSteps, EarlySteps
      DEF DownloadStart, Kind, Phase, Backed, OnlySlot
<1>2. CASE DownloadDone(t)
      BY <1>0, <1>2, TaskSteps, EarlySteps
      DEF DownloadDone, Kind, Phase, Backed, OnlySlot
<1>3. CASE DownloadDispatch(t)
      BY <1>0, <1>3, TaskSteps, EarlySteps
      DEF DownloadDispatch, Kind, Phase, Backed, OnlySlot
<1>4. CASE DownloadRejected(t)
      BY <1>0, <1>4, TaskSteps, EarlySteps
      DEF DownloadRejected, Kind, Phase, Backed, OnlySlot
<1>5. CASE DownloadFails(t)
      BY <1>0, <1>5, TaskSteps, EarlySteps
      DEF DownloadFails, Kind, Phase, Backed, OnlySlot
<1>6. CASE UploadStart(t)
      BY <1>0, <1>6, TaskSteps, EarlySteps
      DEF UploadStart, Kind, Phase, Backed, OnlySlot
<1>7. CASE UploadDone(t)
      BY <1>0, <1>7, TaskSteps, EarlySteps
      DEF UploadDone, Kind, Phase, Backed, OnlySlot
<1>8. CASE UploadCleanup(t)
      BY <1>0, <1>8, TaskSteps, EarlySteps
      DEF UploadCleanup, Kind, Phase, Backed, OnlySlot
<1>9. CASE UploadDispatch(t)
      BY <1>0, <1>9, TaskSteps, EarlySteps
      DEF UploadDispatch, Kind, Phase, Backed, OnlySlot
<1>10. CASE UploadFails(t)
      BY <1>0, <1>10, TaskSteps, EarlySteps
      DEF UploadFails, Kind, Phase, Backed, OnlySlot
<1>11. QED BY <1>1, <1>2, <1>3, <1>4, <1>5, <1>6, <1>7, <1>8, <1>9, <1>10 DEF Ingest

LEMMA StageAFirst ==
    ASSUME TypeOK, IInv, ChordInv, FirstRun, NEW t \in Slot, StageA(t)
    PROVE  FirstRun'
<1> USE DEF Early, Relies, Bringing, Ingesting, Uploaded, At, db, env
<1>0. /\ tasks \in [Slot -> Task] /\ Relies(tasks[t])
      /\ Early(tasks[t]) => status # "absent"
      /\ Len(manifests) <= 1 /\ Uploaded
      /\ Backed(tasks[t].kind, tasks[t].phase)
      BY DEF TypeOK, FirstRun, Carried, Unsubmitted, IInv, TasksBacked
<1>1. CASE CensusStart(t)
      BY <1>0, <1>1, TaskSteps, EarlySteps
      DEF CensusStart, Kind, Phase, Backed, OnlySlot
<1>2. CASE CensusCheck(t)
      BY <1>0, <1>2, TaskSteps, EarlySteps
      DEF CensusCheck, Kind, Phase, Backed, OnlySlot
<1>3. CASE CensusProbe(t)
  <2>1. manifests = <<>>
        BY <1>0, <1>3 DEF CensusProbe
  <2>2. PICK found \in Probes : manifests' = Append(manifests, found)
        BY <1>3 DEF CensusProbe
  <2>3. Len(manifests') <= 1
        BY <2>1, <2>2
  <2>4. OnlySlot(t) /\ tasks'[t].kind = "census" /\ tasks'[t].phase = "dispatching"
        BY <1>0, <1>3, TaskSteps DEF CensusProbe, Phase
  <2>5. QED BY <1>0, <1>3, <2>3, <2>4, EarlySteps
            DEF CensusProbe, Backed, OnlySlot
<1>4. CASE CensusDispatch(t)
  <2>1. PICK s \in FreeSlots :
            tasks' = [tasks EXCEPT ![s] = Message("extraction", None),
                                   ![t].phase = "finishing"]
        BY <1>4 DEF CensusDispatch
  <2>2. s \in Slot \ {t} /\ tasks[s].phase = "free" /\ tasks[t].kind = "census"
        BY <1>4 DEF CensusDispatch, FreeSlots
  <2>3. /\ tasks'[s].kind = "extraction"
        /\ tasks'[t].kind = "census" /\ tasks'[t].phase = "finishing"
        /\ \A r \in Slot \ {s, t} : tasks'[r] = tasks[r]
        BY <1>0, <2>1, <2>2 DEF Message, Task
  <2>4. ~Early(tasks'[s]) /\ ~Carrier(tasks[s])
        BY <2>2, <2>3 DEF Carrier
  <2>5. QED BY <1>0, <1>4, <2>2, <2>3, <2>4, EarlySteps
            DEF CensusDispatch, Backed
<1>5. CASE CensusFinish(t)
      BY <1>0, <1>5, TaskSteps, EarlySteps
      DEF CensusFinish, Kind, Phase, Backed, OnlySlot
<1>6. CASE CensusFails(t)
      BY <1>0, <1>6, TaskSteps, EarlySteps
      DEF CensusFails, Kind, Phase, Backed, OnlySlot
<1>7. CASE CensusDies(t)
      BY <1>0, <1>7, TaskSteps, EarlySteps
      DEF CensusDies, Kind, Phase, Backed, OnlySlot
<1>8. QED BY <1>1, <1>2, <1>3, <1>4, <1>5, <1>6, <1>7 DEF StageA

\* The step of a task after the census: the status stays and with it its
\* carrier, or becomes one that needs none, or the task carries it.
LEMMA LateStep ==
    ASSUME FirstRun, NEW t \in Slot, OnlySlot(t),
           ~Early(tasks[t]), ~Early(tasks'[t]),
           UNCHANGED <<s3, media, manifests, requests, crashes>>,
           \/ status' = status /\ (Carrier(tasks[t]) => Carrier(tasks'[t]))
           \/ status' \notin Ingesting \cup {"absent", "v3_stage_c_running",
                                             "v3_stage_c_complete"}
           \/ status' \notin Ingesting \cup {"absent"} /\ Carrier(tasks'[t])
    PROVE  FirstRun'
<1>1. \A s \in Slot : \/ tasks'[s] = tasks[s]
                      \/ ~Bringing(tasks[s]) /\ ~Early(tasks'[s])
      BY DEF OnlySlot, Early, Bringing
<1>2. Fused'
  <2>1. CASE status' = status /\ (Carrier(tasks[t]) => Carrier(tasks'[t]))
        BY <2>1, StillCarried DEF OnlySlot
  <2>2. CASE Carrier(tasks'[t]) \/ status' \notin {"v3_stage_c_running",
                                                  "v3_stage_c_complete"}
        BY <2>2 DEF Fused, Carrier
  <2>3. QED BY <2>1, <2>2
<1>3. QED BY <1>1, <1>2, LateSteps DEF FirstRun

\* A step that changes tasks which are neither early nor carry a status.
LEMMA SideSteps ==
    ASSUME FirstRun,
           \A s \in Slot : \/ tasks'[s] = tasks[s]
                           \/ /\ ~Bringing(tasks[s]) /\ ~Early(tasks'[s])
                              /\ ~Carrier(tasks[s]),
           UNCHANGED <<s3, media, manifests, requests, crashes>>,
           \/ status' = status
           \/ status' \notin Ingesting \cup {"absent", "v3_stage_c_running",
                                             "v3_stage_c_complete"}
    PROVE  FirstRun'
<1>1. Fused'
  <2>1. CASE status' = status
        BY <2>1, StillCarried
  <2>2. CASE status' \notin {"v3_stage_c_running", "v3_stage_c_complete"}
        BY <2>2 DEF Fused
  <2>3. QED BY <2>1, <2>2
<1>2. QED BY <1>1, LateSteps DEF FirstRun

\* The end of a header task concerns an extractor and a waiting fusion.
LEMMA HeaderIsAside ==
    ASSUME tasks \in [Slot -> Task], ChordInv, NEW t \in Slot,
           tasks[t].kind \in Modality, HeaderEnds(t)
    PROVE  \A s \in Slot : \/ tasks'[s] = tasks[s]
                           \/ /\ ~Bringing(tasks[s]) /\ ~Early(tasks'[s])
                              /\ ~Carrier(tasks[s])
<1> DEFINE cb == tasks[t].callback
<1>1. ~Bringing(tasks[t]) /\ ~Carrier(tasks[t])
      BY DEF Bringing, Carrier, Modality
<1>2. ASSUME NEW s \in Slot, tasks'[s] # tasks[s]
      PROVE  s = t \/ (s = cb /\ cb # None)
      BY <1>2 DEF HeaderEnds, Ends, Becomes
<1>3. ASSUME NEW s \in Slot, tasks'[s] # tasks[s]
      PROVE  ~Early(tasks'[s])
  <2>1. \/ tasks'[s] = Free
        \/ tasks'[s].kind = "fusion"
        BY <1>3, HeaderSteps
  <2>2. Free.kind = "none"
        BY ConstantTasks
  <2>3. QED BY <2>1, <2>2 DEF Early
<1>4. ASSUME cb # None, cb \in Slot
      PROVE  tasks[cb].phase = "waiting"
      BY <1>4 DEF ChordInv, Linked, Answering
<1>5. ASSUME NEW s \in Slot, tasks[s].phase = "waiting"
      PROVE  ~Bringing(tasks[s]) /\ ~Carrier(tasks[s])
      BY <1>5 DEF Bringing, Carrier
<1>6. QED BY <1>1, <1>2, <1>3, <1>4, <1>5

\* A header is sent to free slots, by a task of Stage B.
LEMMA HeaderIsSent ==
    ASSUME tasks \in [Slot -> Task], FirstRun, NEW t \in Slot,
           At(t, "extraction", {"queued", "dispatching"}),
           NEW own, own.kind \in {"none", "fusion"},
           NEW sent \in SUBSET Modality, NEW cb,
           SendHeader(t, own, sent, cb),
           UNCHANGED <<status, s3, media, manifests, requests, crashes>>
    PROVE  FirstRun'
<1>1. /\ ~Bringing(tasks[t]) /\ ~Carrier(tasks[t]) /\ ~Early(own)
      /\ tasks[t].phase # "free"
      BY DEF At, Bringing, Carrier, Early
<1>2. PICK slots \in [sent -> FreeSlots] :
        /\ tasks'[t] = own
        /\ \A m \in sent : tasks'[slots[m]] = Message(m, cb)
        /\ \A s \in Slot \ {t} :
                (\A m \in sent : slots[m] # s) => tasks'[s] = tasks[s]
      BY <1>1, HeaderSlots
<1>3. ASSUME NEW m \in sent
      PROVE  /\ ~Bringing(tasks[slots[m]]) /\ ~Carrier(tasks[slots[m]])
             /\ ~Early(tasks'[slots[m]])
  <2>1. tasks[slots[m]].phase = "free"
        BY DEF FreeSlots
  <2>2. tasks'[slots[m]].kind = m
    <3>1. tasks'[slots[m]] = Message(m, cb)
          BY <1>2
    <3>2. Message(m, cb).kind = m
          BY DEF Message
    <3>3. QED BY <3>1, <3>2
  <2>3. QED BY <2>1, <2>2 DEF Bringing, Carrier, Early, Modality
<1>4. QED BY <1>1, <1>2, <1>3, SideSteps

LEMMA StageBFirst ==
    ASSUME TypeOK, IInv, ChordInv, FirstRun, NEW t \in Slot, StageB(t)
    PROVE  FirstRun'
<1> USE DEF Early, Carrier, Ingesting, Modality, At, db, env
<1>0. tasks \in [Slot -> Task]
      BY DEF TypeOK
<1>1. CASE ExtractionStart(t)
  <2>1. PICK i \in DOMAIN manifests :
            tasks' = [tasks EXCEPT ![t].phase = "dispatching",
                                   ![t].mods = manifests[i]]
        BY <1>1 DEF ExtractionStart
  <2>2. manifests[i] \in SUBSET Modality
        BY <2>1, ElementOfSeq, LenProperties DEF TypeOK
  <2>3. OnlySlot(t) /\ tasks'[t].kind = tasks[t].kind
        BY <1>0, <2>1, <2>2, TakesMods DEF Phase
  <2>4. QED BY <1>1, <2>3, LateStep DEF ExtractionStart
<1>2. CASE ExtractionDispatch(t)
  <2>1. CASE tasks[t].mods # {}
    <3>1. tasks[t].mods \in SUBSET Modality
          BY <1>0 DEF Task
    <3>2. SendHeader(t, Waiting(tasks[t].mods), tasks[t].mods, t)
          BY <1>2, <2>1 DEF ExtractionDispatch
    <3>3. Waiting(tasks[t].mods).kind = "fusion"
          BY DEF Waiting
    <3>4. QED BY <1>0, <1>2, <3>1, <3>2, <3>3, HeaderIsSent
              DEF ExtractionDispatch
  <2>2. CASE HandsOverTo(t, "fusion")
        BY <1>0, <1>2, <2>2, TaskSteps, LateStep DEF ExtractionDispatch, Kind
  <2>3. QED BY <1>2, <2>1, <2>2 DEF ExtractionDispatch
<1>3. CASE ExtractionDies(t)
  <2>1. ASSUME NEW sent \in SUBSET tasks[t].mods,
               SendHeader(t, Free, sent, None)
        PROVE  FirstRun'
    <3>1. sent \in SUBSET Modality
          BY <1>0 DEF Task
    <3>2. Free.kind = "none"
          BY DEF Free
    <3>3. QED BY <1>0, <1>3, <2>1, <3>1, <3>2, HeaderIsSent
              DEF ExtractionDies
  <2>2. CASE Ends(t)
        BY <1>0, <1>3, <2>2, TaskSteps, LateStep DEF ExtractionDies
  <2>3. QED BY <1>3, <2>1, <2>2 DEF ExtractionDies
<1>4. CASE ExtractorStart(t)
  <2>1. CASE HeaderEnds(t)
        BY <1>0, <1>4, <2>1, HeaderIsAside, SideSteps DEF ExtractorStart
  <2>2. CASE MovesTo(t, "working")
        BY <1>0, <1>4, <2>2, TaskSteps, LateStep DEF ExtractorStart, Phase
  <2>3. ASSUME NEW i \in DOMAIN bundles,
               tasks' = [tasks EXCEPT ![t].phase = "working", ![t].row = i]
        PROVE  FirstRun'
    <3>1. i \in Nat
          BY <2>3, LenProperties DEF TypeOK
    <3> DEFINE task == [tasks[t] EXCEPT !.phase = "working", !.row = i]
    <3>2. task \in Task /\ task.kind = tasks[t].kind
          BY <1>0, <3>1 DEF Task, Phase
    <3>3. tasks' = [tasks EXCEPT ![t] = task]
          BY <2>3
    <3> HIDE DEF task
    <3>4. OnlySlot(t) /\ tasks'[t] = task
          BY <1>0, <3>2, <3>3 DEF OnlySlot
    <3>5. QED BY <1>4, <3>2, <3>4, LateStep DEF ExtractorStart
  <2>4. QED BY <1>4, <2>1, <2>2, <2>3 DEF ExtractorStart
<1>5. CASE ExtractorDone(t)
      BY <1>0, <1>5, HeaderIsAside, SideSteps DEF ExtractorDone
<1>6. CASE ExtractorFails(t)
  <2>1. CASE HeaderEnds(t)
        BY <1>0, <1>6, <2>1, HeaderIsAside, SideSteps DEF ExtractorFails
  <2>2. CASE Retries(t)
        BY <1>0, <1>6, <2>2, TaskSteps, LateStep DEF ExtractorFails, Kind
  <2>3. QED BY <1>6, <2>1, <2>2 DEF ExtractorFails
<1>7. QED BY <1>1, <1>2, <1>3, <1>4, <1>5, <1>6 DEF StageB

LEMMA StageCFirst ==
    ASSUME TypeOK, IInv, ChordInv, FirstRun, NEW t \in Slot, StageC(t)
    PROVE  FirstRun'
<1> USE DEF Early, Carrier, Ingesting, At, db, env
<1>0. tasks \in [Slot -> Task]
      BY DEF TypeOK
<1>1. CASE FusionNotReady(t)
      BY <1>0, <1>1, TaskSteps, LateStep DEF FusionNotReady, Kind, Phase
<1>2. CASE FusionStart(t)
  <2>1. CASE HandsOverTo(t, "taxonomy") /\ UNCHANGED status
        BY <1>0, <1>2, <2>1, TaskSteps, LateStep DEF FusionStart, Kind
  <2>2. ASSUME NEW i \in DOMAIN bundles,
               tasks' = [tasks EXCEPT ![t].phase = "working",
                                      ![t].mods = bundles[i]],
               status' = "v3_stage_c_running"
        PROVE  FirstRun'
    <3>1. bundles[i] \in SUBSET Modality
          BY <2>2, ElementOfSeq, LenProperties DEF TypeOK
    <3>2. /\ OnlySlot(t) /\ tasks'[t].kind = tasks[t].kind
          /\ tasks'[t].phase = "working"
          BY <1>0, <2>2, <3>1, TakesMods DEF Phase
    <3>3. QED BY <1>2, <2>2, <3>2, LateStep DEF FusionStart
  <2>3. QED BY <1>2, <2>1, <2>2 DEF FusionStart
<1>3. CASE FusionDone(t)
      BY <1>0, <1>3, TaskSteps, LateStep DEF FusionDone, Kind, Phase
<1>4. CASE FusionDispatch(t)
      BY <1>0, <1>4, TaskSteps, LateStep DEF FusionDispatch, Kind, Phase
<1>5. CASE FusionFails(t)
      BY <1>0, <1>5, TaskSteps, LateStep DEF FusionFails, Kind, Phase
<1>6. QED BY <1>1, <1>2, <1>3, <1>4, <1>5 DEF StageC

LEMMA StageDFirst ==
    ASSUME TypeOK, IInv, ChordInv, FirstRun, NEW t \in Slot, StageD(t)
    PROVE  FirstRun'
<1> USE DEF Early, Carrier, Ingesting, At, db, env
<1>0. tasks \in [Slot -> Task]
      BY DEF TypeOK
<1>1. CASE TaxonomyStart(t)
      BY <1>0, <1>1, TaskSteps, LateStep DEF TaxonomyStart, Kind, Phase
<1>2. CASE TaxonomyCheck(t)
      BY <1>0, <1>2, TaskSteps, LateStep DEF TaxonomyCheck, Kind, Phase
<1>3. CASE TaxonomyStore(t)
      BY <1>0, <1>3, TaskSteps, LateStep DEF TaxonomyStore, Kind, Phase
<1>4. CASE TaxonomyComplete(t)
      BY <1>0, <1>4, TaskSteps, LateStep DEF TaxonomyComplete, Kind, Phase
<1>5. CASE TaxonomyFails(t)
      BY <1>0, <1>5, TaskSteps, LateStep DEF TaxonomyFails, Kind, Phase
<1>6. QED BY <1>1, <1>2, <1>3, <1>4, <1>5 DEF StageD

LEMMA CrashFirst ==
    ASSUME TypeOK, FirstRun, NEW t \in Slot, Crash(t)
    PROVE  FirstRun'
<1>1. /\ OnlySlot(t) /\ tasks'[t].kind = "none" /\ crashes' # 0
      /\ UNCHANGED <<status, s3, media, manifests, requests>>
      BY TaskSteps DEF TypeOK, Crash, db
<1>2. ~Early(tasks'[t])
      BY <1>1 DEF Early
<1>3. \A s \in Slot : ~Early(tasks'[s]) \/ tasks'[s] = tasks[s]
      BY <1>1, <1>2 DEF OnlySlot
<1>4. Alone'
      BY <1>3 DEF FirstRun, Alone
<1>5. Unsubmitted'
      BY <1>1, <1>3 DEF FirstRun, Unsubmitted
<1>6. Carried'
  <2> SUFFICES ASSUME NEW s \in Slot
               PROVE  Relies(tasks[s])'
      BY DEF Carried
  <2>1. CASE tasks'[s] = tasks[s]
        BY <1>1, <2>1 DEF FirstRun, Carried, Relies
  <2>2. CASE ~Early(tasks'[s])
        BY <2>2 DEF Early, Relies
  <2>3. QED BY <1>3, <2>1, <2>2
<1>7. Uploaded' /\ InHand' /\ Fused'
      BY <1>1 DEF FirstRun, Uploaded, InHand, Fused
<1>8. QED BY <1>1, <1>4, <1>5, <1>6, <1>7 DEF FirstRun

LEMMA SubmitFirst ==
    ASSUME TypeOK, FirstRun, SubmitJob
    PROVE  FirstRun'
<1>1. /\ ~s3 /\ manifests = <<>> /\ \A s \in Slot : ~Early(tasks[s])
      /\ status' = "pending" /\ UNCHANGED <<s3, media, manifests, requests>>
      BY DEF FirstRun, Unsubmitted, SubmitJob, db, env
<1>2. Uploaded' /\ Unsubmitted' /\ Fused' /\ Len(manifests') <= 1
      BY <1>1 DEF Uploaded, Unsubmitted, Fused, FirstRun
<1>3. CASE "submit" \in MayFail /\ UNCHANGED tasks
  <2>1. Alone' /\ Carried' /\ InHand'
        BY <1>1, <1>3 DEF FirstRun, Alone, Carried, Relies, InHand
  <2>2. QED BY <1>1, <1>2, <2>1 DEF FirstRun
<1>4. ASSUME NEW s \in FreeSlots, HandsOverTo(s, "download")
      PROVE  FirstRun'
  <2>1. /\ s \in Slot /\ OnlySlot(s)
        /\ tasks'[s].kind = "download" /\ tasks'[s].phase = "queued"
        BY <1>4, TaskSteps DEF TypeOK, FreeSlots, Kind
  <2>2. \A r \in Slot : r = s \/ ~Early(tasks'[r])
        BY <1>1, <2>1 DEF OnlySlot
  <2>3. Alone'
        BY <2>2 DEF Alone
  <2>4. Carried'
    <3>1. Relies(tasks[s])'
          BY <1>1, <2>1 DEF Relies
    <3>2. ASSUME NEW r \in Slot, r # s
          PROVE  Relies(tasks[r])'
          BY <2>2, <3>2 DEF Early, Relies
    <3>3. QED BY <3>1, <3>2 DEF Carried
  <2>5. InHand'
        BY <2>1 DEF InHand, Bringing
  <2>6. QED BY <1>1, <1>2, <2>3, <2>4, <2>5 DEF FirstRun
<1>5. QED BY <1>3, <1>4 DEF SubmitJob

LEMMA StepKeepsFirst ==
    ASSUME TypeOK, IInv, ChordInv, FirstInv, [Next]_vars
    PROVE  FirstInv'
<1> SUFFICES ASSUME userRetries' = 0
             PROVE  FirstRun'
    BY DEF FirstInv, FirstRun, Alone, Unsubmitted, Carried, Relies, Uploaded,
           InHand, Fused, Early, Bringing, Carrier
<1>1. CASE RetryDispatch
      BY <1>1 DEF RetryDispatch, TypeOK
<1>2. CASE userRetries = 0
  <2>1. FirstRun
        BY <1>2 DEF FirstInv
  <2>2. ASSUME NEW t \in Slot, Work(t)
        PROVE  FirstRun'
        BY <2>1, <2>2, IngestFirst, StageAFirst, StageBFirst, StageCFirst,
           StageDFirst DEF Work
  <2>3. CASE RetryCommit
        BY <2>1, <2>3 DEF RetryCommit, FirstRun
  <2>4. CASE UNCHANGED vars
        BY <2>1, <2>4 DEF vars, FirstRun, Alone, Unsubmitted, Carried, Relies,
                          Uploaded, InHand, Fused
  <2>5. QED BY <1>1, <2>1, <2>2, <2>3, <2>4, CrashFirst, SubmitFirst DEF Next
<1>3. CASE userRetries # 0 /\ ~RetryDispatch
  <2>1. UNCHANGED userRetries
        BY <1>3, WorkersLive DEF Next, SubmitJob, RetryCommit, Crash, env, vars
  <2>2. QED BY <1>3, <2>1
<1>4. QED BY <1>1, <1>2, <1>3

LEMMA FirstRunsKept == Spec => []FirstInv
<1>1. Init => FirstInv
  <2> SUFFICES ASSUME Init
               PROVE  FirstRun
      BY DEF FirstInv
  <2>1. \A t \in Slot : tasks[t] = Free /\ ~Early(Free) /\ Relies(Free)
        BY DEF Init, Free, Early, Relies
  <2>2. QED BY <2>1 DEF Init, FirstRun, Alone, Unsubmitted, Carried, Uploaded,
                        InHand, Fused, Ingesting
<1>2. QED BY <1>1, StepKeepsFirst, TypeCorrect, InductiveInvariant, ChordsKept,
             PTL DEF Spec

-----------------------------------------------------------------------------
(* Theorems.                                                               *)

\* Until a user retries, the check-then-insert of Stage A leaves one
\* manifest, with no constraint in the database to see to it.
THEOREM ManifestIsAlone == Spec => []OneManifest
<1>1. FirstInv => OneManifest
      BY DEF FirstInv, FirstRun, Alone, Early, OneManifest
<1>2. QED BY <1>1, FirstRunsKept, PTL

\* Until a user retries, an upload that still has to read the downloaded
\* file finds it, whatever fails or dies.
THEOREM UploadsHaveMedia == Spec => []UploadHasMedia
<1>1. FirstInv => UploadHasMedia
      BY DEF FirstInv, FirstRun, Carried, Relies, At, UploadHasMedia
<1>2. QED BY <1>1, FirstRunsKept, PTL

\* A job that comes to rest without a result, a dead worker or a retry has
\* not come to rest in a status of the ingest or of Stage C, or completed.
THEOREM NothingSilentlyLost == Spec => []NoSilentLoss
<1>1. IInv /\ FirstInv => NoSilentLoss
  <2> SUFFICES ASSUME IInv, FirstInv, crashes = 0, userRetries = 0,
                      "submit" \notin MayFail, Quiescent, ~output
               PROVE  status \notin Ingesting \cup
                        {"v3_stage_c_running", "v3_stage_c_complete", "completed"}
      BY DEF NoSilentLoss, Ingesting
  <2>1. FirstRun
        BY DEF FirstInv
  <2>2. \A t \in Slot : ~Bringing(tasks[t]) /\ ~Carrier(tasks[t])
        BY DEF Quiescent, Live, Bringing, Carrier
  <2>3. status \notin Ingesting
        BY <2>1, <2>2 DEF FirstRun, InHand
  <2>4. status \notin {"v3_stage_c_running", "v3_stage_c_complete"}
        BY <2>1, <2>2 DEF FirstRun, Fused
  <2>5. status # "completed"
        BY DEF IInv, StatusIsBacked
  <2>6. QED BY <2>3, <2>4, <2>5
<1>2. QED BY <1>1, InductiveInvariant, FirstRunsKept, PTL
==============================================================================
