-------------------------- MODULE JobPipelineProofs --------------------------
(***************************************************************************)
(* Theorems about JobPipeline for every number of slots, every table of    *)
(* retries, every set of failing tasks and every bound.                    *)
(***************************************************************************)
EXTENDS JobPipeline, SequenceTheorems, TLAPS

-----------------------------------------------------------------------------
(* What the helpers do to the slots.                                       *)

\* A message is a task of its kind that waits on the broker.
LEMMA MessageIsTask ==
    ASSUME NEW k \in Kind, NEW cb \in Slot \cup {None}
    PROVE  /\ Message(k, cb) \in Task
           /\ Message(k, cb).kind = k
           /\ Message(k, cb).phase = "queued"
BY DEF Message, Task, Phase

\* The records of an empty slot and of a chord's callback.
LEMMA ConstantTasks ==
    /\ Free \in Task /\ Free.kind = "none" /\ Free.phase = "free"
    /\ \A header \in SUBSET Modality :
            /\ Waiting(header) \in Task
            /\ Waiting(header).kind = "fusion"
            /\ Waiting(header).phase = "waiting"
BY DEF Free, Waiting, Task, Phase, Kind

\* The step changes slot t and no other, and leaves tasks in the slots.
OnlySlot(t) ==
    tasks' \in [Slot -> Task] /\ \A s \in Slot \ {t} : tasks'[s] = tasks[s]

\* A task that gets a new record leaves the other slots alone.
LEMMA BecomesOnly ==
    ASSUME tasks \in [Slot -> Task], NEW t \in Slot, NEW task \in Task,
           Becomes(t, task)
    PROVE  OnlySlot(t) /\ tasks'[t] = task
BY DEF Becomes, OnlySlot

\* The steps by which a task ends, hands over, goes on or is retried.
LEMMA TaskSteps ==
    ASSUME tasks \in [Slot -> Task], NEW t \in Slot
    PROVE  /\ Ends(t) =>
                /\ OnlySlot(t)
                /\ tasks'[t] = Free
                /\ tasks'[t].kind = "none" /\ tasks'[t].phase = "free"
           /\ \A k \in Kind : HandsOverTo(t, k) =>
                /\ OnlySlot(t)
                /\ tasks'[t].kind = k /\ tasks'[t].phase = "queued"
           /\ \A p \in Phase : MovesTo(t, p) =>
                /\ OnlySlot(t)
                /\ tasks'[t].kind = tasks[t].kind /\ tasks'[t].phase = p
           /\ tasks[t].kind \in Kind /\ Retries(t) =>
                /\ OnlySlot(t)
                /\ tasks'[t].kind = tasks[t].kind
                /\ tasks'[t].phase = "queued"
<1>1. ASSUME Ends(t)
      PROVE  /\ OnlySlot(t)
             /\ tasks'[t] = Free
             /\ tasks'[t].kind = "none" /\ tasks'[t].phase = "free"
      BY <1>1, ConstantTasks, BecomesOnly DEF Ends
<1>2. ASSUME NEW k \in Kind, HandsOverTo(t, k)
      PROVE  /\ OnlySlot(t)
             /\ tasks'[t].kind = k /\ tasks'[t].phase = "queued"
      BY <1>2, MessageIsTask, BecomesOnly DEF HandsOverTo
<1>3. ASSUME NEW p \in Phase, MovesTo(t, p)
      PROVE  /\ OnlySlot(t)
             /\ tasks'[t].kind = tasks[t].kind /\ tasks'[t].phase = p
      BY <1>3 DEF MovesTo, Task, OnlySlot
<1>4. ASSUME tasks[t].kind \in Kind, Retries(t)
      PROVE  /\ OnlySlot(t)
             /\ tasks'[t].kind = tasks[t].kind
             /\ tasks'[t].phase = "queued"
  <2> DEFINE m == [Message(tasks[t].kind, tasks[t].callback)
                     EXCEPT !.retries = tasks[t].retries + 1]
  <2>1. m \in Task /\ m.kind = tasks[t].kind /\ m.phase = "queued"
        BY <1>4 DEF Message, Task, Phase
  <2>2. Becomes(t, m)
        BY <1>4 DEF Retries
  <2> HIDE DEF m
  <2>3. QED BY <2>1, <2>2, BecomesOnly
<1>5. QED BY <1>1, <1>2, <1>3, <1>4

\* A task that takes the mods of a row with it to its next phase.
LEMMA TakesMods ==
    ASSUME tasks \in [Slot -> Task], NEW t \in Slot,
           NEW p \in Phase, NEW mods \in SUBSET Modality,
           tasks' = [tasks EXCEPT ![t].phase = p, ![t].mods = mods]
    PROVE  /\ OnlySlot(t)
           /\ tasks'[t].kind = tasks[t].kind /\ tasks'[t].phase = p
<1> DEFINE task == [tasks[t] EXCEPT !.phase = p, !.mods = mods]
<1>1. task \in Task /\ task.kind = tasks[t].kind /\ task.phase = p
      BY DEF Task
<1>2. tasks' = [tasks EXCEPT ![t] = task]
      OBVIOUS
<1> HIDE DEF task
<1>3. QED BY <1>1, <1>2 DEF OnlySlot

\* The end of a header task empties its slot and touches no other slot than
\* that of its callback, which holds a fusion.
LEMMA HeaderSteps ==
    ASSUME tasks \in [Slot -> Task], NEW t \in Slot, HeaderEnds(t)
    PROVE  /\ tasks' \in [Slot -> Task]
           /\ \A s \in Slot : \/ tasks'[s] = tasks[s]
                              \/ tasks'[s] = Free
                              \/ /\ tasks'[s].kind = "fusion"
                                 /\ tasks'[s].phase \in {"queued", "waiting"}
<1> DEFINE cb == tasks[t].callback
           rest == tasks[cb].mods \ {tasks[t].kind}
           next == IF rest = {} THEN Message("fusion", None) ELSE Waiting(rest)
<1>1. CASE cb = None
      BY <1>1, TaskSteps DEF HeaderEnds, OnlySlot
<1>2. CASE cb # None
  <2>1. cb \in Slot
        BY <1>2 DEF Task
  <2>2. rest \in SUBSET Modality
        BY <2>1 DEF Task
  <2>3. /\ next \in Task
        /\ next.kind = "fusion"
        /\ next.phase \in {"queued", "waiting"}
        BY <2>2, MessageIsTask, ConstantTasks DEF Kind
  <2>4. tasks' = [tasks EXCEPT ![t] = Free, ![cb] = next]
        BY <1>2 DEF HeaderEnds
  <2> HIDE DEF next
  <2>5. QED BY <2>1, <2>3, <2>4, ConstantTasks
<1>3. QED BY <1>1, <1>2

\* A header puts queued extractors in free slots and own in the slot t.
LEMMA SendSteps ==
    ASSUME tasks \in [Slot -> Task], NEW t \in Slot, NEW own \in Task,
           NEW mods \in SUBSET Modality, NEW cb \in Slot \cup {None},
           SendHeader(t, own, mods, cb)
    PROVE  /\ tasks' \in [Slot -> Task]
           /\ \A s \in Slot : \/ tasks'[s] = tasks[s]
                              \/ s = t /\ tasks'[s] = own
                              \/ /\ mods # {}
                                 /\ tasks'[s].kind \in Modality
                                 /\ tasks'[s].phase = "queued"
<1>1. PICK slots \in [mods -> FreeSlots] :
        tasks' = [s \in Slot |->
                IF s = t THEN own
                ELSE IF \E m \in mods : slots[m] = s
                     THEN Message(CHOOSE m \in mods : slots[m] = s, cb)
                     ELSE tasks[s]]
      BY DEF SendHeader
<1>2. ASSUME NEW s \in Slot, \E m \in mods : slots[m] = s
      PROVE  LET m == CHOOSE m \in mods : slots[m] = s IN
             /\ Message(m, cb) \in Task
             /\ Message(m, cb).kind \in Modality
             /\ Message(m, cb).phase = "queued"
      BY <1>2, MessageIsTask DEF Kind
<1>3. QED BY <1>1, <1>2

-----------------------------------------------------------------------------
(* Type correctness.                                                       *)

\* A row that is changed or appended leaves a sequence of rows.
LEMMA RowsTyped ==
    ASSUME NEW rows \in Seq(SUBSET Modality), NEW row \in SUBSET Modality,
           NEW i \in Nat
    PROVE  /\ Append(rows, row) \in Seq(SUBSET Modality)
           /\ [rows EXCEPT ![i] = row] \in Seq(SUBSET Modality)
<1>1. CASE i \in 1..Len(rows)
      BY <1>1, ExceptSeq, AppendProperties
<1>2. CASE i \notin 1..Len(rows)
  <2>1. rows = [rows EXCEPT ![i] = row]
        BY <1>2, LenProperties
  <2>2. QED BY <2>1, AppendProperties
<1>3. QED BY <1>1, <1>2

\* The stub of the extraction orchestrator is a row like the others.
LEMMA StubTyped ==
    bundles \in Seq(SUBSET Modality) => StubBundle \in Seq(SUBSET Modality)
<1>1. <<{}>> = Append(<<>>, {})
      OBVIOUS
<1>2. <<{}>> \in Seq(SUBSET Modality)
      BY <1>1, EmptySeq, AppendProperties
<1>3. QED BY <1>2 DEF StubBundle

LEMMA IngestTyped ==
    ASSUME TypeOK, NEW t \in Slot, Ingest(t)
    PROVE  TypeOK'
<1> USE DEF TypeOK, db, env, Status
<1>1. CASE DownloadStart(t)
      BY <1>1, TaskSteps DEF DownloadStart, At, Kind, Phase, OnlySlot
<1>2. CASE DownloadDone(t)
      BY <1>2, TaskSteps DEF DownloadDone, At, Kind, Phase, OnlySlot
<1>3. CASE DownloadDispatch(t)
      BY <1>3, TaskSteps DEF DownloadDispatch, At, Kind, Phase, OnlySlot
<1>4. CASE DownloadRejected(t)
      BY <1>4, TaskSteps DEF DownloadRejected, At, Kind, Phase, OnlySlot
<1>5. CASE DownloadFails(t)
      BY <1>5, TaskSteps DEF DownloadFails, At, Kind, Phase, OnlySlot
<1>6. CASE UploadStart(t)
      BY <1>6, TaskSteps DEF UploadStart, At, Kind, Phase, OnlySlot
<1>7. CASE UploadDone(t)
      BY <1>7, TaskSteps DEF UploadDone, At, Kind, Phase, OnlySlot
<1>8. CASE UploadCleanup(t)
      BY <1>8, TaskSteps DEF UploadCleanup, At, Kind, Phase, OnlySlot
<1>9. CASE UploadDispatch(t)
      BY <1>9, TaskSteps DEF UploadDispatch, At, Kind, Phase, OnlySlot
<1>10. CASE UploadFails(t)
      BY <1>10, TaskSteps DEF UploadFails, At, Kind, Phase, OnlySlot
<1>11. QED BY <1>1, <1>2, <1>3, <1>4, <1>5, <1>6, <1>7, <1>8, <1>9, <1>10
       DEF Ingest

LEMMA StageATyped ==
    ASSUME TypeOK, NEW t \in Slot, StageA(t)
    PROVE  TypeOK'
<1> USE DEF TypeOK, db, env, Status
<1>1. CASE CensusStart(t)
      BY <1>1, TaskSteps DEF CensusStart, At, Kind, Phase, OnlySlot
<1>2. CASE CensusCheck(t)
      BY <1>2, TaskSteps DEF CensusCheck, At, Kind, Phase, OnlySlot
<1>3. CASE CensusProbe(t)
  <2>1. PICK found \in Probes : manifests' = Append(manifests, found)
        BY <1>3 DEF CensusProbe
  <2>2. manifests' \in Seq(SUBSET Modality)
        BY <2>1, ProbesAssumption, AppendProperties
  <2>3. QED BY <1>3, <2>2, TaskSteps DEF CensusProbe, Phase, OnlySlot
<1>4. CASE CensusDispatch(t)
  <2>1. PICK s \in FreeSlots :
            tasks' = [tasks EXCEPT ![s] = Message("extraction", None),
                                   ![t].phase = "finishing"]
        BY <1>4 DEF CensusDispatch
  <2>2. tasks' \in [Slot -> Task]
    <3>1. Message("extraction", None) \in Task
          BY MessageIsTask DEF Kind
    <3>2. [tasks[t] EXCEPT !.phase = "finishing"] \in Task
          BY DEF Task, Phase
    <3>3. s # t /\ s \in Slot
          BY <1>4 DEF CensusDispatch, At, FreeSlots
    <3>4. QED BY <2>1, <3>1, <3>2, <3>3
  <2>3. QED BY <1>4, <2>2 DEF CensusDispatch
<1>5. CASE CensusFinish(t)
      BY <1>5, TaskSteps DEF CensusFinish, At, Kind, Phase, OnlySlot
<1>6. CASE CensusFails(t)
      BY <1>6, TaskSteps DEF CensusFails, At, Kind, Phase, OnlySlot
<1>7. CASE CensusDies(t)
      BY <1>7, TaskSteps DEF CensusDies, At, Kind, Phase, OnlySlot
<1>8. QED BY <1>1, <1>2, <1>3, <1>4, <1>5, <1>6, <1>7 DEF StageA

LEMMA StageBTyped ==
    ASSUME TypeOK, NEW t \in Slot, StageB(t)
    PROVE  TypeOK'
<1> USE DEF TypeOK, db, env, Status
<1>1. CASE ExtractionStart(t)
  <2>1. PICK i \in DOMAIN manifests :
            tasks' = [tasks EXCEPT ![t].phase = "dispatching",
                                   ![t].mods = manifests[i]]
        BY <1>1 DEF ExtractionStart
  <2>2. manifests[i] \in SUBSET Modality
        BY <2>1, ElementOfSeq, LenProperties
  <2>3. QED BY <1>1, <2>1, <2>2, TakesMods DEF ExtractionStart, Phase, OnlySlot
<1>2. CASE ExtractionDispatch(t)
  <2> DEFINE header == tasks[t].mods
  <2>1. header \in SUBSET Modality
        BY DEF Task
  <2>2. tasks' \in [Slot -> Task]
    <3>1. CASE header # {}
      <4>1. SendHeader(t, Waiting(header), header, t)
            BY <1>2, <3>1 DEF ExtractionDispatch
      <4>2. QED BY <2>1, <4>1, ConstantTasks, SendSteps
    <3>2. CASE header = {}
          BY <1>2, <3>2, TaskSteps DEF ExtractionDispatch, Kind, OnlySlot
    <3>3. QED BY <3>1, <3>2
  <2>3. QED BY <1>2, <2>2, StubTyped DEF ExtractionDispatch
<1>3. CASE ExtractionDies(t)
  <2>1. CASE \E sent \in {m \in SUBSET tasks[t].mods :
                                m = {} \/ m # tasks[t].mods} :
                SendHeader(t, Free, sent, None) /\ UNCHANGED bundles
    <3>1. PICK sent \in SUBSET tasks[t].mods : SendHeader(t, Free, sent, None)
          BY <2>1
    <3>2. sent \in SUBSET Modality
          BY <3>1 DEF Task
    <3>3. tasks' \in [Slot -> Task]
          BY <3>1, <3>2, ConstantTasks, SendSteps
    <3>4. QED BY <1>3, <2>1, <3>3 DEF ExtractionDies
  <2>2. CASE Ends(t) /\ bundles' = StubBundle
        BY <1>3, <2>2, TaskSteps, StubTyped DEF ExtractionDies, OnlySlot
  <2>3. QED BY <1>3, <2>1, <2>2 DEF ExtractionDies
<1>4. CASE ExtractorStart(t)
  <2>1. CASE MovesTo(t, "working") \/ HeaderEnds(t)
        BY <1>4, <2>1, TaskSteps, HeaderSteps
        DEF ExtractorStart, Phase, OnlySlot
  <2>2. ASSUME NEW i \in DOMAIN bundles,
               tasks' = [tasks EXCEPT ![t].phase = "working", ![t].row = i]
        PROVE  TypeOK'
    <3>1. i \in Nat
          BY <2>2, LenProperties
    <3> DEFINE task == [tasks[t] EXCEPT !.phase = "working", !.row = i]
    <3>2. task \in Task
          BY <3>1 DEF Task, Phase
    <3>3. tasks' = [tasks EXCEPT ![t] = task]
          BY <2>2
    <3> HIDE DEF task
    <3>4. tasks' \in [Slot -> Task]
          BY <3>2, <3>3
    <3>5. QED BY <1>4, <3>4 DEF ExtractorStart
  <2>3. QED BY <1>4, <2>1, <2>2 DEF ExtractorStart
<1>5. CASE ExtractorDone(t)
  <2> DEFINE x == tasks[t].kind
             r == tasks[t].row
  <2>1. x \in Modality /\ r \in Nat
        BY <1>5 DEF ExtractorDone, Task
  <2>2. PICK found \in {{}, {x}} :
            bundles' = IF r = 0 THEN Append(bundles, found)
                       ELSE [bundles EXCEPT ![r] = (@ \ {x}) \cup found]
        BY <1>5 DEF ExtractorDone
  <2>3. bundles' \in Seq(SUBSET Modality)
    <3>1. CASE r = 0
          BY <2>1, <2>2, <3>1, RowsTyped
    <3>2. CASE r # 0 /\ r \in DOMAIN bundles
      <4>1. (bundles[r] \ {x}) \cup found \in SUBSET Modality
            BY <2>1, <3>2, ElementOfSeq, LenProperties
      <4>2. QED BY <2>1, <2>2, <3>2, <4>1, RowsTyped
    <3>3. CASE r # 0 /\ r \notin DOMAIN bundles
      <4>1. bundles' = bundles
            BY <2>2, <3>3, LenProperties
      <4>2. QED BY <4>1
    <3>4. QED BY <3>1, <3>2, <3>3
  <2>4. QED BY <1>5, <2>3, HeaderSteps DEF ExtractorDone
<1>6. CASE ExtractorFails(t)
      BY <1>6, TaskSteps, HeaderSteps DEF ExtractorFails, Kind, OnlySlot
<1>7. QED BY <1>1, <1>2, <1>3, <1>4, <1>5, <1>6 DEF StageB

LEMMA StageCTyped ==
    ASSUME TypeOK, NEW t \in Slot, StageC(t)
    PROVE  TypeOK'
<1> USE DEF TypeOK, db, env, Status
<1>1. CASE FusionNotReady(t)
      BY <1>1, TaskSteps DEF FusionNotReady, At, Kind, Phase, OnlySlot
<1>2. CASE FusionStart(t)
  <2>1. CASE HandsOverTo(t, "taxonomy") /\ UNCHANGED status
        BY <1>2, <2>1, TaskSteps DEF FusionStart, Kind, OnlySlot
  <2>2. ASSUME NEW i \in DOMAIN bundles,
               tasks' = [tasks EXCEPT ![t].phase = "working",
                                      ![t].mods = bundles[i]]
        PROVE  tasks' \in [Slot -> Task]
    <3>1. bundles[i] \in SUBSET Modality
          BY <2>2, ElementOfSeq, LenProperties
    <3>2. QED BY <2>2, <3>1, TakesMods DEF Phase, OnlySlot
  <2>3. QED BY <1>2, <2>1, <2>2 DEF FusionStart
<1>3. CASE FusionDone(t)
  <2>1. tasks[t].mods \in SUBSET Modality
        BY DEF Task
  <2>2. QED BY <1>3, <2>1, TaskSteps DEF FusionDone, Phase, OnlySlot
<1>4. CASE FusionDispatch(t)
      BY <1>4, TaskSteps DEF FusionDispatch, At, Kind, Phase, OnlySlot
<1>5. CASE FusionFails(t)
      BY <1>5, TaskSteps DEF FusionFails, At, Kind, Phase, OnlySlot
<1>6. QED BY <1>1, <1>2, <1>3, <1>4, <1>5 DEF StageC

LEMMA StageDTyped ==
    ASSUME TypeOK, NEW t \in Slot, StageD(t)
    PROVE  TypeOK'
<1> USE DEF TypeOK, db, env, Status
<1>1. CASE TaxonomyStart(t)
      BY <1>1, TaskSteps DEF TaxonomyStart, At, Kind, Phase, OnlySlot
<1>2. CASE TaxonomyCheck(t)
      BY <1>2, TaskSteps DEF TaxonomyCheck, At, Kind, Phase, OnlySlot
<1>3. CASE TaxonomyStore(t)
      BY <1>3, TaskSteps DEF TaxonomyStore, At, Kind, Phase, OnlySlot
<1>4. CASE TaxonomyComplete(t)
      BY <1>4, TaskSteps DEF TaxonomyComplete, At, Kind, Phase, OnlySlot
<1>5. CASE TaxonomyFails(t)
      BY <1>5, TaskSteps DEF TaxonomyFails, At, Kind, Phase, OnlySlot
<1>6. QED BY <1>1, <1>2, <1>3, <1>4, <1>5 DEF StageD

LEMMA APIAndCrashTyped ==
    ASSUME TypeOK,
           \/ SubmitJob \/ RetryDispatch \/ RetryCommit
           \/ \E t \in Slot : Crash(t)
    PROVE  TypeOK'
<1> USE DEF TypeOK, db, env, Status
<1>1. CASE SubmitJob
      BY <1>1, TaskSteps DEF SubmitJob, FreeSlots, Kind, OnlySlot
<1>2. CASE RetryDispatch
  <2>1. ResumePoint \in Kind
        BY DEF ResumePoint, Kind
  <2>2. QED BY <1>2, <2>1, BoundsAssumption, TaskSteps
        DEF RetryDispatch, FreeSlots, OnlySlot
<1>3. CASE RetryCommit
      BY <1>3 DEF RetryCommit
<1>4. ASSUME NEW t \in Slot, Crash(t)
      PROVE  TypeOK'
      BY <1>4, BoundsAssumption, TaskSteps DEF Crash, OnlySlot
<1>5. QED BY <1>1, <1>2, <1>3, <1>4

\* Every state of every behaviour is well typed: no step writes a status
\* the column does not know, or a row or task of another shape.
THEOREM TypeCorrect == Spec => []TypeOK
<1>1. Init => TypeOK
  <2> SUFFICES ASSUME Init
               PROVE  TypeOK
      OBVIOUS
  <2>1. manifests \in Seq(SUBSET Modality) /\ bundles \in Seq(SUBSET Modality)
        BY EmptySeq DEF Init
  <2>2. tasks \in [Slot -> Task]
        BY ConstantTasks DEF Init
  <2>3. status \in Status
        BY DEF Init, Status
  <2>4. userRetries \in 0..MaxUserRetries /\ crashes \in 0..MaxCrashes
        BY BoundsAssumption DEF Init
  <2>5. QED BY <2>1, <2>2, <2>3, <2>4 DEF Init, TypeOK
<1>2. TypeOK /\ [Next]_vars => TypeOK'
  <2> SUFFICES ASSUME TypeOK, [Next]_vars
               PROVE  TypeOK'
      OBVIOUS
  <2>1. CASE \E t \in Slot : Work(t)
        BY <2>1, IngestTyped, StageATyped, StageBTyped, StageCTyped,
           StageDTyped DEF Work
  <2>2. CASE UNCHANGED vars
        BY <2>2 DEF TypeOK, vars
  <2>3. QED BY <2>1, <2>2, APIAndCrashTyped DEF Next
<1>3. QED BY <1>1, <1>2, PTL DEF Spec

-----------------------------------------------------------------------------
(* What is stored, what the status claims and what the tasks rely on.      *)
(*                                                                         *)
(* StageHasInput and StatusIsBacked are not inductive.  A task that is     *)
(* past its commit has to be known to have committed (Backed), since its   *)
(* next step dispatches a stage or writes a status that relies on it; and  *)
(* the results have to be known to be stored in order (ResultsInOrder),    *)
(* since the retry endpoint concludes from the graph that the rest is      *)
(* there.                                                                  *)

ResultsInOrder ==
    /\ manifests # <<>> => s3
    /\ graph # None => manifests # <<>>
    /\ output => graph # None

\* What a task of kind k in phase p may rely on.
Backed(k, p) ==
    /\ k \notin {"none", "download", "upload"} => s3
    /\ k \notin {"none", "download", "upload", "census"} => manifests # <<>>
    /\ k = "taxonomy" => graph # None
    /\ k = "upload" /\ p \in {"dispatching", "finishing"} => s3
    /\ k = "census" /\ p \in {"dispatching", "finishing"} => manifests # <<>>
    /\ k = "fusion" /\ p = "dispatching" => graph # None
    /\ k = "taxonomy" /\ p = "finishing" => output

TasksBacked == \A t \in Slot : Backed(tasks[t].kind, tasks[t].phase)

IInv == ResultsInOrder /\ TasksBacked /\ StatusIsBacked

LEMMA IngestInv ==
    ASSUME TypeOK, IInv, NEW t \in Slot, Ingest(t)
    PROVE  IInv'
<1> USE DEF IInv, ResultsInOrder, TasksBacked, StatusIsBacked, Backed, db
<1>0. tasks \in [Slot -> Task]
      BY DEF TypeOK
<1>1. CASE DownloadStart(t)
      BY <1>0, <1>1, TaskSteps DEF DownloadStart, At, Kind, Phase, OnlySlot
<1>2. CASE DownloadDone(t)
      BY <1>0, <1>2, TaskSteps DEF DownloadDone, At, Kind, Phase, OnlySlot
<1>3. CASE DownloadDispatch(t)
      BY <1>0, <1>3, TaskSteps DEF DownloadDispatch, At, Kind, Phase, OnlySlot
<1>4. CASE DownloadRejected(t)
      BY <1>0, <1>4, TaskSteps DEF DownloadRejected, At, Kind, Phase, OnlySlot
<1>5. CASE DownloadFails(t)
      BY <1>0, <1>5, TaskSteps DEF DownloadFails, At, Kind, Phase, OnlySlot
<1>6. CASE UploadStart(t)
      BY <1>0, <1>6, TaskSteps DEF UploadStart, At, Kind, Phase, OnlySlot
<1>7. CASE UploadDone(t)
      BY <1>0, <1>7, TaskSteps DEF UploadDone, At, Kind, Phase, OnlySlot
<1>8. CASE UploadCleanup(t)
      BY <1>0, <1>8, TaskSteps DEF UploadCleanup, At, Kind, Phase, OnlySlot
<1>9. CASE UploadDispatch(t)
      BY <1>0, <1>9, TaskSteps DEF UploadDispatch, At, Kind, Phase, OnlySlot
<1>10. CASE UploadFails(t)
      BY <1>0, <1>10, TaskSteps DEF UploadFails, At, Kind, Phase, OnlySlot
<1>11. QED BY <1>1, <1>2, <1>3, <1>4, <1>5, <1>6, <1>7, <1>8, <1>9, <1>10
       DEF Ingest

LEMMA StageAInv ==
    ASSUME TypeOK, IInv, NEW t \in Slot, StageA(t)
    PROVE  IInv'
<1> USE DEF IInv, ResultsInOrder, TasksBacked, StatusIsBacked, Backed, db
<1>0. tasks \in [Slot -> Task]
      BY DEF TypeOK
<1>1. CASE CensusStart(t)
      BY <1>0, <1>1, TaskSteps DEF CensusStart, At, Kind, Phase, OnlySlot
<1>2. CASE CensusCheck(t)
      BY <1>0, <1>2, TaskSteps DEF CensusCheck, At, Kind, Phase, OnlySlot
<1>3. CASE CensusProbe(t)
      BY <1>0, <1>3, TaskSteps DEF CensusProbe, At, Kind, Phase, OnlySlot
<1>4. CASE CensusDispatch(t)
  <2>1. PICK s \in FreeSlots :
            tasks' = [tasks EXCEPT ![s] = Message("extraction", None),
                                   ![t].phase = "finishing"]
        BY <1>4 DEF CensusDispatch
  <2>2. /\ Message("extraction", None).kind = "extraction"
        /\ Message("extraction", None).phase = "queued"
        BY MessageIsTask DEF Kind
  <2>3. At(t, "census", {"dispatching"}) /\ s \in Slot \ {t}
        BY <1>4 DEF CensusDispatch, At, FreeSlots
  <2>4. /\ tasks'[t].kind = "census" /\ tasks'[t].phase = "finishing"
        /\ tasks'[s].kind = "extraction" /\ tasks'[s].phase = "queued"
        /\ \A r \in Slot \ {s, t} : tasks'[r] = tasks[r]
        BY <1>0, <2>1, <2>2, <2>3 DEF At, Task
  <2>5. QED BY <1>4, <2>3, <2>4 DEF CensusDispatch, At
<1>5. CASE CensusFinish(t)
      BY <1>0, <1>5, TaskSteps DEF CensusFinish, At, Kind, Phase, OnlySlot
<1>6. CASE CensusFails(t)
      BY <1>0, <1>6, TaskSteps DEF CensusFails, At, Kind, Phase, OnlySlot
<1>7. CASE CensusDies(t)
      BY <1>0, <1>7, TaskSteps DEF CensusDies, At, Kind, Phase, OnlySlot
<1>8. QED BY <1>1, <1>2, <1>3, <1>4, <1>5, <1>6, <1>7 DEF StageA

LEMMA StageBInv ==
    ASSUME TypeOK, IInv, NEW t \in Slot, StageB(t)
    PROVE  IInv'
<1> USE DEF IInv, ResultsInOrder, TasksBacked, StatusIsBacked, Backed, db
<1>0. tasks \in [Slot -> Task]
      BY DEF TypeOK
<1>1. CASE ExtractionStart(t)
      BY <1>0, <1>1, TaskSteps DEF ExtractionStart, At, Kind, Phase, OnlySlot
<1>2. CASE ExtractionDispatch(t)
  <2> DEFINE header == tasks[t].mods
  <2>1. header \in SUBSET Modality
        BY <1>0 DEF Task
  <2>2. CASE header # {}
    <3>1. SendHeader(t, Waiting(header), header, t)
          BY <1>2, <2>2 DEF ExtractionDispatch
    <3>2. \A s \in Slot : \/ tasks'[s] = tasks[s]
                          \/ s = t /\ tasks'[s] = Waiting(header)
                          \/ /\ header # {}
                             /\ tasks'[s].kind \in Modality
                             /\ tasks'[s].phase = "queued"
      <4>1. Waiting(header) \in Task
            BY <2>1, ConstantTasks
      <4> HIDE DEF header
      <4>2. QED BY <1>0, <2>1, <3>1, <4>1, SendSteps
    <3>3. Waiting(header).kind = "fusion" /\ Waiting(header).phase = "waiting"
          BY <2>1, ConstantTasks
    <3>4. QED BY <1>2, <3>2, <3>3 DEF ExtractionDispatch, At, Modality
  <2>3. CASE header = {}
        BY <1>0, <1>2, <2>3, TaskSteps
        DEF ExtractionDispatch, At, Kind, OnlySlot
  <2>4. QED BY <2>2, <2>3
<1>3. CASE ExtractionDies(t)
  <2>1. CASE \E sent \in {m \in SUBSET tasks[t].mods :
                                m = {} \/ m # tasks[t].mods} :
                SendHeader(t, Free, sent, None)
    <3>1. PICK sent \in SUBSET tasks[t].mods : SendHeader(t, Free, sent, None)
          BY <2>1
    <3>2. sent \in SUBSET Modality
          BY <1>0, <3>1 DEF Task
    <3>3. \A s \in Slot : \/ tasks'[s] = tasks[s]
                          \/ s = t /\ tasks'[s] = Free
                          \/ /\ sent # {}
                             /\ tasks'[s].kind \in Modality
                             /\ tasks'[s].phase = "queued"
      <4>1. Free \in Task
            BY ConstantTasks
      <4>2. QED BY <1>0, <3>1, <3>2, <4>1, SendSteps
    <3>4. QED BY <1>3, <3>3, ConstantTasks DEF ExtractionDies, At, Modality
  <2>2. CASE Ends(t)
        BY <1>0, <1>3, <2>2, TaskSteps DEF ExtractionDies, OnlySlot
  <2>3. QED BY <1>3, <2>1, <2>2 DEF ExtractionDies
<1>4. CASE ExtractorStart(t)
  <2>1. CASE HeaderEnds(t)
        BY <1>0, <1>4, <2>1, HeaderSteps, ConstantTasks
        DEF ExtractorStart, Modality
  <2>2. CASE OnlySlot(t) /\ tasks'[t].kind = tasks[t].kind
                         /\ tasks'[t].phase = "working"
        BY <1>4, <2>2 DEF ExtractorStart, Modality, OnlySlot
  <2>3. ASSUME NEW i \in DOMAIN bundles,
               tasks' = [tasks EXCEPT ![t].phase = "working", ![t].row = i]
        PROVE  OnlySlot(t) /\ tasks'[t].kind = tasks[t].kind
                           /\ tasks'[t].phase = "working"
    <3>1. i \in Nat
          BY <2>3, LenProperties DEF TypeOK
    <3>2. QED BY <1>0, <2>3, <3>1 DEF OnlySlot, Task, Phase
  <2>4. CASE MovesTo(t, "working")
        BY <1>0, <2>2, <2>4, TaskSteps DEF Phase
  <2>5. QED BY <1>4, <2>1, <2>2, <2>3, <2>4 DEF ExtractorStart
<1>5. CASE ExtractorDone(t)
      BY <1>0, <1>5, HeaderSteps, ConstantTasks DEF ExtractorDone, Modality
<1>6. CASE ExtractorFails(t)
  <2>1. CASE HeaderEnds(t)
        BY <1>0, <1>6, <2>1, HeaderSteps, ConstantTasks
        DEF ExtractorFails, Modality
  <2>2. CASE Retries(t)
        BY <1>0, <1>6, <2>2, TaskSteps
        DEF ExtractorFails, Kind, Modality, OnlySlot
  <2>3. QED BY <1>6, <2>1, <2>2 DEF ExtractorFails
<1>7. QED BY <1>1, <1>2, <1>3, <1>4, <1>5, <1>6 DEF StageB

LEMMA StageCInv ==
    ASSUME TypeOK, IInv, NEW t \in Slot, StageC(t)
    PROVE  IInv'
<1> USE DEF IInv, ResultsInOrder, TasksBacked, StatusIsBacked, Backed, db
<1>0. tasks \in [Slot -> Task]
      BY DEF TypeOK
<1>1. CASE FusionNotReady(t)
      BY <1>0, <1>1, TaskSteps DEF FusionNotReady, At, Kind, Phase, OnlySlot
<1>2. CASE FusionStart(t)
  <2>1. CASE graph # None
        BY <1>0, <1>2, <2>1, TaskSteps DEF FusionStart, At, Kind, OnlySlot
  <2>2. ASSUME NEW i \in DOMAIN bundles,
               tasks' = [tasks EXCEPT ![t].phase = "working",
                                      ![t].mods = bundles[i]]
        PROVE  OnlySlot(t) /\ tasks'[t].kind = tasks[t].kind
                           /\ tasks'[t].phase = "working"
    <3>1. bundles[i] \in SUBSET Modality
          BY <2>2, ElementOfSeq, LenProperties DEF TypeOK
    <3>2. QED BY <1>0, <2>2, <3>1, TakesMods DEF Phase
  <2>3. QED BY <1>2, <2>1, <2>2 DEF FusionStart, At, OnlySlot
<1>3. CASE FusionDone(t)
  <2>1. graph' # None
        BY <1>0, <1>3, NoneAssumption DEF FusionDone, Task
  <2>2. QED BY <1>0, <1>3, <2>1, TaskSteps DEF FusionDone, At, Phase, OnlySlot
<1>4. CASE FusionDispatch(t)
      BY <1>0, <1>4, TaskSteps DEF FusionDispatch, At, Kind, Phase, OnlySlot
<1>5. CASE FusionFails(t)
      BY <1>0, <1>5, TaskSteps DEF FusionFails, At, Kind, Phase, OnlySlot
<1>6. QED BY <1>1, <1>2, <1>3, <1>4, <1>5 DEF StageC

LEMMA StageDInv ==
    ASSUME TypeOK, IInv, NEW t \in Slot, StageD(t)
    PROVE  IInv'
<1> USE DEF IInv, ResultsInOrder, TasksBacked, StatusIsBacked, Backed, db
<1>0. tasks \in [Slot -> Task]
      BY DEF TypeOK
<1>1. CASE TaxonomyStart(t)
      BY <1>0, <1>1, TaskSteps DEF TaxonomyStart, At, Kind, Phase, OnlySlot
<1>2. CASE TaxonomyCheck(t)
      BY <1>0, <1>2, TaskSteps DEF TaxonomyCheck, At, Kind, Phase, OnlySlot
<1>3. CASE TaxonomyStore(t)
      BY <1>0, <1>3, TaskSteps DEF TaxonomyStore, At, Kind, Phase, OnlySlot
<1>4. CASE TaxonomyComplete(t)
      BY <1>0, <1>4, TaskSteps DEF TaxonomyComplete, At, Kind, Phase, OnlySlot
<1>5. CASE TaxonomyFails(t)
      BY <1>0, <1>5, TaskSteps DEF TaxonomyFails, At, Kind, Phase, OnlySlot
<1>6. QED BY <1>1, <1>2, <1>3, <1>4, <1>5 DEF StageD

LEMMA APIAndCrashInv ==
    ASSUME TypeOK, IInv,
           \/ SubmitJob \/ RetryDispatch \/ RetryCommit
           \/ \E t \in Slot : Crash(t)
    PROVE  IInv'
<1> USE DEF IInv, ResultsInOrder, TasksBacked, StatusIsBacked, Backed, db
<1>0. tasks \in [Slot -> Task]
      BY DEF TypeOK
<1>1. CASE SubmitJob
      BY <1>0, <1>1, TaskSteps DEF SubmitJob, FreeSlots, Kind, OnlySlot
<1>2. CASE RetryDispatch
  <2>1. /\ ResumePoint \in {"download", "census", "extraction", "taxonomy"}
        /\ Backed(ResumePoint, "queued")
        BY DEF ResumePoint
  <2>2. PICK s \in FreeSlots : HandsOverTo(s, ResumePoint)
        BY <1>2 DEF RetryDispatch
  <2>3. /\ OnlySlot(s) /\ s \in Slot
        /\ tasks'[s].kind = ResumePoint /\ tasks'[s].phase = "queued"
        BY <1>0, <2>1, <2>2, TaskSteps DEF FreeSlots, Kind
  <2>4. QED BY <1>2, <2>1, <2>3 DEF RetryDispatch, OnlySlot
<1>3. CASE RetryCommit
      BY <1>3 DEF RetryCommit
<1>4. ASSUME NEW t \in Slot, Crash(t)
      PROVE  IInv'
      BY <1>0, <1>4, TaskSteps DEF Crash, OnlySlot
<1>5. QED BY <1>1, <1>2, <1>3, <1>4

LEMMA InductiveInvariant == Spec => []IInv
<1>1. Init => IInv
      BY DEF Init, Free, IInv, ResultsInOrder, TasksBacked, Backed,
             StatusIsBacked
<1>2. TypeOK /\ IInv /\ [Next]_vars => IInv'
  <2> SUFFICES ASSUME TypeOK, IInv, [Next]_vars
               PROVE  IInv'
      OBVIOUS
  <2>1. CASE \E t \in Slot : Work(t)
        BY <2>1, IngestInv, StageAInv, StageBInv, StageCInv, StageDInv
        DEF Work
  <2>2. CASE UNCHANGED vars
        BY <2>2 DEF vars, IInv, ResultsInOrder, TasksBacked, Backed,
                    StatusIsBacked
  <2>3. QED BY <2>1, <2>2, APIAndCrashInv DEF Next
<1>3. QED BY <1>1, <1>2, TypeCorrect, PTL DEF Spec

\* Whatever fails, is retried or resumed, no stage is ever on its way
\* without the durable result of the stage before it.
THEOREM StagesHaveInput == Spec => []StageHasInput
<1>1. IInv => StageHasInput
      BY DEF IInv, TasksBacked, Backed, StageHasInput
<1>2. QED BY <1>1, InductiveInvariant, PTL

\* jobs.status never claims a result that is not stored.
THEOREM StatusBacked == Spec => []StatusIsBacked
<1>1. IInv => StatusIsBacked
      BY DEF IInv
<1>2. QED BY <1>1, InductiveInvariant, PTL

-----------------------------------------------------------------------------
(* The pipeline implements Checkpoints.                                    *)

\* Four steps of the tasks store something; the others leave the results.
LEMMA FourStepsStore ==
    ASSUME Next
    PROVE  \/ UNCHANGED <<s3, manifests, graph, output>>
           \/ \E t \in Slot : \/ UploadDone(t) \/ CensusProbe(t)
                              \/ FusionDone(t) \/ TaxonomyStore(t)
<1> USE DEF db
<1>1. CASE SubmitJob \/ RetryDispatch \/ RetryCommit \/ \E t \in Slot : Crash(t)
      BY <1>1 DEF SubmitJob, RetryDispatch, RetryCommit, Crash
<1>2. ASSUME NEW t \in Slot, Ingest(t)
      PROVE  UploadDone(t) \/ UNCHANGED <<s3, manifests, graph, output>>
      BY <1>2 DEF Ingest, DownloadStart, DownloadDone, DownloadDispatch,
                  DownloadRejected, DownloadFails, UploadStart,
                  UploadCleanup, UploadDispatch, UploadFails
<1>3. ASSUME NEW t \in Slot, StageA(t)
      PROVE  CensusProbe(t) \/ UNCHANGED <<s3, manifests, graph, output>>
      BY <1>3 DEF StageA, CensusStart, CensusCheck, CensusDispatch,
                  CensusFinish, CensusFails, CensusDies
<1>4. ASSUME NEW t \in Slot, StageB(t)
      PROVE  UNCHANGED <<s3, manifests, graph, output>>
      BY <1>4 DEF StageB, ExtractionStart, ExtractionDispatch,
                  ExtractionDies, ExtractorStart, ExtractorDone,
                  ExtractorFails
<1>5. ASSUME NEW t \in Slot, StageC(t)
      PROVE  FusionDone(t) \/ UNCHANGED <<s3, manifests, graph, output>>
      BY <1>5 DEF StageC, FusionNotReady, FusionStart, FusionDispatch,
                  FusionFails
<1>6. ASSUME NEW t \in Slot, StageD(t)
      PROVE  TaxonomyStore(t) \/ UNCHANGED <<s3, manifests, graph, output>>
      BY <1>6 DEF StageD, TaxonomyStart, TaxonomyCheck, TaxonomyComplete,
                  TaxonomyFails
<1>7. QED BY <1>1, <1>2, <1>3, <1>4, <1>5, <1>6 DEF Next, Work

\* The video, a manifest, the evidence graph and the response are stored in
\* this order, none is taken back, and the graph is written once.
THEOREM ImplementsCheckpoints == Spec => StoresInOrder
<1> USE DEF Stored!stored
<1>1. Init => Stored!Init
      BY DEF Init, Stored!Init
<1>2. TypeOK /\ IInv /\ [Next]_vars => [Stored!Next]_(Stored!stored)
  <2> SUFFICES ASSUME TypeOK, IInv, [Next]_vars
               PROVE  [Stored!Next]_(Stored!stored)
      OBVIOUS
  <2> USE DEF Stored!Next
  <2>1. CASE UNCHANGED <<s3, manifests, graph, output>>
        BY <2>1
  <2>2. ASSUME NEW t \in Slot, UploadDone(t)
        PROVE  Stored!StoreVideo \/ UNCHANGED Stored!stored
        BY <2>2 DEF UploadDone, db, TypeOK, Stored!StoreVideo
  <2>3. ASSUME NEW t \in Slot, CensusProbe(t)
        PROVE  Stored!StoreManifest \/ UNCHANGED Stored!stored
    <3>1. manifests' # <<>>
      <4>1. PICK found \in Probes : manifests' = Append(manifests, found)
            BY <2>3 DEF CensusProbe
      <4>2. QED BY <4>1, ProbesAssumption, AppendProperties DEF TypeOK
    <3>2. s3
          BY <2>3 DEF CensusProbe, At, IInv, TasksBacked, Backed
    <3>3. QED BY <2>3, <3>1, <3>2 DEF CensusProbe, Stored!StoreManifest
  <2>4. ASSUME NEW t \in Slot, FusionDone(t)
        PROVE  Stored!StoreEvidence
    <3>1. graph' # None
          BY <2>4, NoneAssumption DEF FusionDone, Task, TypeOK
    <3>2. QED BY <2>4, <3>1 DEF FusionDone, Stored!StoreEvidence
  <2>5. ASSUME NEW t \in Slot, TaxonomyStore(t)
        PROVE  Stored!StoreResponse \/ UNCHANGED Stored!stored
    <3>1. graph # None
          BY <2>5 DEF TaxonomyStore, At, IInv, TasksBacked, Backed
    <3>2. QED BY <2>5, <3>1 DEF TaxonomyStore, TypeOK, Stored!StoreResponse
  <2>6. QED BY <2>1, <2>2, <2>3, <2>4, <2>5, FourStepsStore DEF vars
<1>3. QED BY <1>1, <1>2, TypeCorrect, InductiveInvariant, PTL
          DEF Spec, StoresInOrder, Stored!Spec
==============================================================================
