----------------------------- MODULE ChordProofs -----------------------------
(***************************************************************************)
(* The chords of JobPipeline: a fusion that waits for its extractors has   *)
(* them coming, for every number of slots and of chords of the same job.   *)
(*                                                                         *)
(* ChordCanFire alone is not inductive.  A slot is used again after its    *)
(* task has ended, so it has to be known that no extractor answers to a    *)
(* slot that has changed hands (Answering), and that no two extractors of  *)
(* one kind answer to the same chord (AnswersOnce): the first to end takes *)
(* its kind off the list, and the second would take the chord away from    *)
(* those that are still coming.                                            *)
(***************************************************************************)
EXTENDS JobPipelineProofs

-----------------------------------------------------------------------------
(* The invariant.                                                          *)

\* Whoever has a callback is an extractor its chord still waits for.
Answering ==
    \A s \in Slot : tasks[s].callback # None =>
        /\ tasks[s].kind \in Modality
        /\ tasks[s].phase \notin {"free", "waiting"}
        /\ tasks[tasks[s].callback].phase = "waiting"
        /\ tasks[s].kind \in tasks[tasks[s].callback].mods

AnswersOnce ==
    \A s, u \in Slot :
        /\ tasks[s].callback # None
        /\ tasks[s].callback = tasks[u].callback
        /\ tasks[s].kind = tasks[u].kind
        => s = u

Linked == Answering /\ AnswersOnce

ChordInv == Linked /\ ChordCanFire

\* A task that neither waits for a header nor answers to a callback.
Unlinked(task) == task.phase # "waiting" /\ task.callback = None

-----------------------------------------------------------------------------
(* Steps that have nothing to do with a chord.                             *)

\* A step among tasks without links leaves the links as they are.
LEMMA UnlinkedSteps ==
    ASSUME tasks \in [Slot -> Task], ChordInv,
           \A s \in Slot : \/ tasks'[s] = tasks[s]
                           \/ Unlinked(tasks[s]) /\ Unlinked(tasks'[s])
    PROVE  Linked' /\ (crashes' = crashes => ChordCanFire')
<1> USE DEF ChordInv, Linked, Unlinked
<1>1. ASSUME NEW w \in Slot, tasks[w].phase = "waiting"
      PROVE  tasks'[w] = tasks[w]
      BY <1>1
<1>2. ASSUME NEW s \in Slot, tasks'[s].callback # None
      PROVE  tasks'[s] = tasks[s]
      BY <1>2
<1>3. Answering'
  <2> SUFFICES ASSUME NEW s \in Slot, tasks'[s].callback # None
               PROVE  /\ tasks'[s].kind \in Modality
                      /\ tasks'[s].phase \notin {"free", "waiting"}
                      /\ tasks'[tasks'[s].callback].phase = "waiting"
                      /\ tasks'[s].kind \in tasks'[tasks'[s].callback].mods
      BY DEF Answering
  <2>1. tasks'[s] = tasks[s] /\ tasks[s].callback \in Slot
        BY <1>2 DEF Task
  <2>2. tasks[tasks[s].callback].phase = "waiting"
        BY <2>1 DEF Answering
  <2>3. QED BY <1>1, <2>1, <2>2 DEF Answering
<1>4. AnswersOnce'
      BY <1>2 DEF AnswersOnce
<1>5. ASSUME crashes' = crashes
      PROVE  ChordCanFire'
  <2> SUFFICES ASSUME crashes = 0, NEW t \in Slot, tasks'[t].phase = "waiting",
                      NEW m \in tasks'[t].mods
               PROVE  \E s \in Slot : /\ tasks'[s].kind = m
                                      /\ tasks'[s].callback = t
      BY <1>5 DEF ChordCanFire
  <2>1. tasks'[t] = tasks[t]
        OBVIOUS
  <2>2. PICK s \in Slot : tasks[s].kind = m /\ tasks[s].callback = t
        BY <2>1 DEF ChordCanFire
  <2>3. tasks'[s] = tasks[s]
        BY <2>2, NoneAssumption
  <2>4. QED BY <2>2, <2>3
<1>6. QED BY <1>3, <1>4, <1>5

\* The callback a message carries through the steps of its task.
LEMMA CallbackSteps ==
    ASSUME tasks \in [Slot -> Task], NEW t \in Slot
    PROVE  /\ Ends(t) => tasks'[t].callback = None
           /\ \A k \in Kind : HandsOverTo(t, k) => tasks'[t].callback = None
           /\ \A p \in Phase : MovesTo(t, p) =>
                tasks'[t].callback = tasks[t].callback
           /\ tasks[t].kind \in Kind /\ Retries(t) =>
                tasks'[t].callback = tasks[t].callback
<1>1. ASSUME Ends(t)
      PROVE  tasks'[t].callback = None
      BY <1>1 DEF Ends, Becomes, Free
<1>2. ASSUME NEW k \in Kind, HandsOverTo(t, k)
      PROVE  tasks'[t].callback = None
      BY <1>2 DEF HandsOverTo, Becomes, Message
<1>3. ASSUME NEW p \in Phase, MovesTo(t, p)
      PROVE  tasks'[t].callback = tasks[t].callback
      BY <1>3 DEF MovesTo, Task
<1>4. ASSUME Retries(t)
      PROVE  tasks'[t].callback = tasks[t].callback
      BY <1>4 DEF Retries, Becomes, Message
<1>5. QED BY <1>1, <1>2, <1>3, <1>4

\* What a task other than an extractor does to its slot.
OwnStep(t) ==
    \/ Ends(t)
    \/ \E k \in Kind : HandsOverTo(t, k)
    \/ \E p \in Phase \ {"waiting"} : MovesTo(t, p)
    \/ tasks[t].kind \in Kind /\ Retries(t)
    \/ \E p \in Phase \ {"waiting"}, mods \in SUBSET Modality :
            tasks' = [tasks EXCEPT ![t].phase = p, ![t].mods = mods]

LEMMA OwnSteps ==
    ASSUME tasks \in [Slot -> Task], ChordInv, NEW t \in Slot,
           tasks[t].kind \notin Modality, tasks[t].phase # "waiting",
           OwnStep(t)
    PROVE  OnlySlot(t) /\ Linked' /\ (crashes' = crashes => ChordCanFire')
<1>1. Unlinked(tasks[t])
      BY DEF ChordInv, Linked, Answering, Unlinked
<1>2. OnlySlot(t) /\ Unlinked(tasks'[t])
  <2>1. CASE Ends(t)
        BY <2>1, TaskSteps, CallbackSteps DEF Unlinked
  <2>2. CASE \E k \in Kind : HandsOverTo(t, k)
        BY <2>2, TaskSteps, CallbackSteps DEF Unlinked
  <2>3. CASE \E p \in Phase \ {"waiting"} : MovesTo(t, p)
        BY <1>1, <2>3, TaskSteps, CallbackSteps DEF Unlinked
  <2>4. CASE tasks[t].kind \in Kind /\ Retries(t)
        BY <1>1, <2>4, TaskSteps, CallbackSteps DEF Unlinked
  <2>5. ASSUME NEW p \in Phase \ {"waiting"}, NEW mods \in SUBSET Modality,
               tasks' = [tasks EXCEPT ![t].phase = p, ![t].mods = mods]
        PROVE  OnlySlot(t) /\ Unlinked(tasks'[t])
    <3>1. OnlySlot(t) /\ tasks'[t].phase = p
          BY <2>5, TakesMods
    <3>2. tasks'[t].callback = tasks[t].callback
          BY <2>5 DEF Task
    <3>3. QED BY <1>1, <3>1, <3>2 DEF Unlinked
  <2>6. QED BY <2>1, <2>2, <2>3, <2>4, <2>5 DEF OwnStep
<1>3. QED BY <1>1, <1>2, UnlinkedSteps DEF OnlySlot

\* An extractor that goes on, or is sent again, still answers to its chord.
LEMMA ExtractorGoesOn ==
    ASSUME tasks \in [Slot -> Task], ChordInv, NEW t \in Slot,
           OnlySlot(t),
           tasks[t].phase # "waiting",
           tasks'[t].phase \notin {"free", "waiting"},
           tasks'[t].kind = tasks[t].kind,
           tasks'[t].callback = tasks[t].callback
    PROVE  Linked' /\ (crashes' = crashes => ChordCanFire')
<1> USE DEF ChordInv, Linked, OnlySlot
<1>1. ASSUME NEW s \in Slot
      PROVE  /\ tasks'[s].kind = tasks[s].kind
             /\ tasks'[s].callback = tasks[s].callback
             /\ tasks'[s].phase = "waiting" <=> tasks[s].phase = "waiting"
             /\ tasks[s].phase = "waiting" => tasks'[s] = tasks[s]
      BY <1>1
<1>2. Answering'
  <2> SUFFICES ASSUME NEW s \in Slot, tasks'[s].callback # None
               PROVE  /\ tasks'[s].kind \in Modality
                      /\ tasks'[s].phase \notin {"free", "waiting"}
                      /\ tasks'[tasks'[s].callback].phase = "waiting"
                      /\ tasks'[s].kind \in tasks'[tasks'[s].callback].mods
      BY DEF Answering
  <2>1. tasks[s].callback # None /\ tasks[s].callback \in Slot
        BY <1>1 DEF Task
  <2>2. /\ tasks[tasks[s].callback].phase = "waiting"
        /\ tasks[s].kind \in Modality
        /\ tasks[s].phase \notin {"free", "waiting"}
        /\ tasks[s].kind \in tasks[tasks[s].callback].mods
        BY <2>1 DEF Answering
  <2>3. tasks'[tasks[s].callback] = tasks[tasks[s].callback]
        BY <1>1, <2>1, <2>2
  <2>4. QED BY <1>1, <2>2, <2>3
<1>3. AnswersOnce'
      BY <1>1 DEF AnswersOnce
<1>4. ASSUME crashes' = crashes
      PROVE  ChordCanFire'
      BY <1>1, <1>4 DEF ChordCanFire
<1>5. QED BY <1>2, <1>3, <1>4

-----------------------------------------------------------------------------
(* The end of a header task, and the start of a chord.                     *)

\* The last extractor starts the fusion, the others stay on its list.
LEMMA HeaderEndsChord ==
    ASSUME tasks \in [Slot -> Task], ChordInv, NEW t \in Slot,
           tasks[t].kind \in Modality, tasks[t].phase \in {"queued", "working"},
           HeaderEnds(t)
    PROVE  Linked' /\ (crashes' = crashes => ChordCanFire')
<1> DEFINE cb == tasks[t].callback
           rest == tasks[cb].mods \ {tasks[t].kind}
           next == IF rest = {} THEN Message("fusion", None) ELSE Waiting(rest)
<1> USE DEF ChordInv, Linked
<1>1. CASE cb = None
  <2>1. OnlySlot(t) /\ Unlinked(tasks[t]) /\ Unlinked(tasks'[t])
        BY <1>1, TaskSteps, CallbackSteps DEF HeaderEnds, Unlinked
  <2>2. QED BY <2>1, UnlinkedSteps DEF OnlySlot
<1>2. CASE cb # None
  <2>1. /\ cb \in Slot \ {t}
        /\ tasks[cb].phase = "waiting" /\ tasks[cb].callback = None
        /\ tasks[t].kind \in tasks[cb].mods
        BY <1>2 DEF Task, Answering
  <2>2. /\ tasks'[t] = Free
        /\ tasks'[cb] = next
        /\ \A s \in Slot \ {t, cb} : tasks'[s] = tasks[s]
    <3>1. tasks' = [tasks EXCEPT ![t] = Free, ![cb] = next]
          BY <1>2 DEF HeaderEnds
    <3> HIDE DEF next
    <3>2. QED BY <2>1, <3>1
  <2>3. /\ Free.callback = None /\ Free.phase = "free"
        /\ next.callback = None
        /\ rest # {} => next.phase = "waiting" /\ next.mods = rest
        /\ next.phase = "waiting" => rest # {}
        BY DEF Free, Message, Waiting
  <2> HIDE DEF next
  <2>4. ASSUME NEW s \in Slot, tasks'[s].callback # None
        PROVE  s \notin {t, cb} /\ tasks'[s] = tasks[s]
        BY <2>2, <2>3, <2>4
  <2>5. ASSUME NEW s \in Slot \ {t}, tasks[s].callback = cb
        PROVE  tasks[s].kind \in rest
    <3>1. tasks[s].kind \in tasks[cb].mods
          BY <1>2, <2>5 DEF Answering
    <3>2. tasks[s].kind # tasks[t].kind
          BY <1>2, <2>5 DEF AnswersOnce
    <3>3. QED BY <3>1, <3>2
  <2>6. Answering'
    <3> SUFFICES ASSUME NEW s \in Slot, tasks'[s].callback # None
                 PROVE  /\ tasks'[s].kind \in Modality
                        /\ tasks'[s].phase \notin {"free", "waiting"}
                        /\ tasks'[tasks'[s].callback].phase = "waiting"
                        /\ tasks'[s].kind \in tasks'[tasks'[s].callback].mods
        BY DEF Answering
    <3>1. /\ s \notin {t, cb} /\ tasks'[s] = tasks[s]
          /\ tasks[s].callback \in Slot
          BY <2>4 DEF Task
    <3>2. /\ tasks[s].kind \in Modality
          /\ tasks[s].phase \notin {"free", "waiting"}
          /\ tasks[tasks[s].callback].phase = "waiting"
          /\ tasks[s].kind \in tasks[tasks[s].callback].mods
          BY <3>1 DEF Answering
    <3>3. CASE tasks[s].callback = cb
          BY <2>2, <2>3, <2>5, <3>1, <3>2, <3>3
    <3>4. CASE tasks[s].callback # cb
      <4>1. tasks[s].callback # t
            BY <3>2
      <4>2. QED BY <2>2, <3>1, <3>2, <3>4, <4>1
    <3>5. QED BY <3>3, <3>4
  <2>7. AnswersOnce'
        BY <2>4 DEF AnswersOnce
  <2>8. ASSUME crashes' = crashes
        PROVE  ChordCanFire'
    <3> SUFFICES ASSUME crashes = 0, NEW w \in Slot,
                        tasks'[w].phase = "waiting", NEW m \in tasks'[w].mods
                 PROVE  \E s \in Slot : /\ tasks'[s].kind = m
                                        /\ tasks'[s].callback = w
        BY <2>8 DEF ChordCanFire
    <3>1. w # t
          BY <2>2, <2>3
    <3>2. /\ tasks[w].phase = "waiting" /\ m \in tasks[w].mods
          /\ w = cb => m # tasks[t].kind
          BY <2>1, <2>2, <2>3, <3>1
    <3>3. PICK s \in Slot : tasks[s].kind = m /\ tasks[s].callback = w
          BY <3>2 DEF ChordCanFire
    <3>4. s # t
          BY <3>2, <3>3
    <3>5. s # cb
          BY <2>1, <3>3, NoneAssumption
    <3>6. QED BY <2>2, <3>3, <3>4, <3>5
  <2>9. QED BY <2>6, <2>7, <2>8
<1>3. QED BY <1>1, <1>2

\* Where a header's messages go: each to a free slot of its own.
LEMMA HeaderSlots ==
    ASSUME tasks \in [Slot -> Task], NEW t \in Slot, NEW own,
           NEW mods, NEW cb, tasks[t].phase # "free",
           SendHeader(t, own, mods, cb)
    PROVE  \E slots \in [mods -> FreeSlots] :
            /\ \A m, n \in mods : slots[m] = slots[n] => m = n
            /\ tasks'[t] = own
            /\ \A m \in mods : tasks'[slots[m]] = Message(m, cb)
            /\ \A s \in Slot \ {t} :
                    (\A m \in mods : slots[m] # s) => tasks'[s] = tasks[s]
<1>1. PICK slots \in [mods -> FreeSlots] :
        /\ \A m, n \in mods : slots[m] = slots[n] => m = n
        /\ tasks' = [s \in Slot |->
                IF s = t THEN own
                ELSE IF \E m \in mods : slots[m] = s
                     THEN Message(CHOOSE m \in mods : slots[m] = s, cb)
                     ELSE tasks[s]]
      BY DEF SendHeader
<1>2. ASSUME NEW m \in mods
      PROVE  tasks'[slots[m]] = Message(m, cb)
  <2>1. slots[m] \in Slot /\ slots[m] # t
        BY DEF FreeSlots
  <2>2. (CHOOSE n \in mods : slots[n] = slots[m]) = m
        BY <1>1
  <2>3. tasks'[slots[m]] = Message(CHOOSE n \in mods : slots[n] = slots[m], cb)
        BY <1>1, <2>1
  <2>4. QED BY <2>2, <2>3
<1>3. tasks'[t] = own
      BY <1>1
<1>4. ASSUME NEW s \in Slot \ {t}, \A m \in mods : slots[m] # s
      PROVE  tasks'[s] = tasks[s]
      BY <1>1, <1>4
<1>5. QED BY <1>1, <1>2, <1>3, <1>4

\* A chord that is sent leaves its callback waiting for what it has sent.
LEMMA ChordSent ==
    ASSUME tasks \in [Slot -> Task], ChordInv, NEW t \in Slot,
           At(t, "extraction", {"dispatching"}), NEW header \in SUBSET Modality,
           SendHeader(t, Waiting(header), header, t)
    PROVE  Linked' /\ (crashes' = crashes => ChordCanFire')
<1> USE DEF ChordInv, Linked
<1>1. /\ tasks[t].phase = "dispatching" /\ tasks[t].kind = "extraction"
      /\ tasks[t].callback = None
      BY DEF At, Answering, Modality
<1>2. PICK slots \in [header -> FreeSlots] :
        /\ \A m, n \in header : slots[m] = slots[n] => m = n
        /\ tasks'[t] = Waiting(header)
        /\ \A m \in header : tasks'[slots[m]] = Message(m, t)
        /\ \A s \in Slot \ {t} :
                (\A m \in header : slots[m] # s) => tasks'[s] = tasks[s]
      BY <1>1, HeaderSlots
<1>3. /\ tasks'[t].phase = "waiting" /\ tasks'[t].callback = None
      /\ tasks'[t].mods = header
      BY <1>2 DEF Waiting
<1>4. ASSUME NEW m \in header
      PROVE  /\ slots[m] \in Slot /\ tasks[slots[m]].phase = "free"
             /\ tasks[slots[m]].callback = None
             /\ tasks'[slots[m]].kind = m /\ tasks'[slots[m]].phase = "queued"
             /\ tasks'[slots[m]].callback = t
  <2>1. slots[m] \in Slot /\ tasks[slots[m]].phase = "free"
        BY DEF FreeSlots
  <2>2. tasks[slots[m]].callback = None
        BY <2>1 DEF Answering
  <2>3. tasks'[slots[m]] = Message(m, t)
        BY <1>2
  <2>4. QED BY <2>1, <2>2, <2>3 DEF Message
<1>5. ASSUME NEW s \in Slot, tasks'[s].callback # None
      PROVE  \/ \E m \in header : s = slots[m]
             \/ tasks'[s] = tasks[s] /\ tasks[s].callback # t
  <2>1. s # t
        BY <1>3, <1>5
  <2>2. CASE \A m \in header : slots[m] # s
    <3>1. tasks'[s] = tasks[s]
          BY <1>2, <2>1, <2>2
    <3>2. tasks[s].callback # t
          BY <1>1, <1>5, <3>1 DEF Answering
    <3>3. QED BY <3>1, <3>2
  <2>3. QED BY <2>2
<1>6. ASSUME NEW w \in Slot, tasks[w].phase = "waiting"
      PROVE  w # t /\ tasks'[w] = tasks[w]
  <2>1. \A m \in header : slots[m] # w
        BY <1>4, <1>6
  <2>2. QED BY <1>1, <1>2, <1>6, <2>1
<1>7. Answering'
  <2> SUFFICES ASSUME NEW s \in Slot, tasks'[s].callback # None
               PROVE  /\ tasks'[s].kind \in Modality
                      /\ tasks'[s].phase \notin {"free", "waiting"}
                      /\ tasks'[tasks'[s].callback].phase = "waiting"
                      /\ tasks'[s].kind \in tasks'[tasks'[s].callback].mods
      BY DEF Answering
  <2>1. CASE \E m \in header : s = slots[m]
        BY <1>3, <1>4, <2>1
  <2>2. CASE tasks'[s] = tasks[s] /\ tasks[s].callback # t
    <3>1. /\ tasks[s].kind \in Modality
          /\ tasks[s].phase \notin {"free", "waiting"}
          /\ tasks[tasks[s].callback].phase = "waiting"
          /\ tasks[s].kind \in tasks[tasks[s].callback].mods
          BY <2>2 DEF Answering
    <3>2. tasks[s].callback \in Slot
          BY <2>2 DEF Task
    <3>3. QED BY <1>6, <2>2, <3>1, <3>2
  <2>3. QED BY <1>5, <2>1, <2>2
<1>8. AnswersOnce'
  <2> SUFFICES ASSUME NEW s \in Slot, NEW u \in Slot,
                      tasks'[s].callback # None,
                      tasks'[s].callback = tasks'[u].callback,
                      tasks'[s].kind = tasks'[u].kind
               PROVE  s = u
      BY DEF AnswersOnce
  <2>1. CASE tasks'[s].callback = t
    <3>1. PICK m \in header : s = slots[m]
          BY <1>5, <2>1
    <3>2. PICK n \in header : u = slots[n]
          BY <1>5, <2>1
    <3>3. m = n
          BY <1>4, <3>1, <3>2
    <3>4. QED BY <3>1, <3>2, <3>3
  <2>2. CASE tasks'[s].callback # t
    <3>1. tasks'[s] = tasks[s] /\ tasks'[u] = tasks[u]
          BY <1>4, <1>5, <2>2
    <3>2. QED BY <3>1 DEF AnswersOnce
  <2>3. QED BY <2>1, <2>2
<1>9. ASSUME crashes' = crashes
      PROVE  ChordCanFire'
  <2> SUFFICES ASSUME crashes = 0, NEW w \in Slot,
                      tasks'[w].phase = "waiting", NEW m \in tasks'[w].mods
               PROVE  \E s \in Slot : /\ tasks'[s].kind = m
                                      /\ tasks'[s].callback = w
      BY <1>9 DEF ChordCanFire
  <2>1. CASE w = t
        BY <1>3, <1>4, <2>1
  <2>2. CASE w # t
    <3>1. \A n \in header : slots[n] # w
          BY <1>4
    <3>2. tasks'[w] = tasks[w]
          BY <1>2, <2>2, <3>1
    <3>3. PICK s \in Slot : tasks[s].kind = m /\ tasks[s].callback = w
          BY <3>2 DEF ChordCanFire
    <3>4. s # t /\ \A n \in header : slots[n] # s
          BY <1>1, <1>4, <3>3, NoneAssumption
    <3>5. QED BY <1>2, <3>3, <3>4
  <2>3. QED BY <2>1, <2>2
<1>10. QED BY <1>7, <1>8, <1>9

\* Messages without a callback, sent by a task without one.
LEMMA HeaderWithoutChord ==
    ASSUME tasks \in [Slot -> Task], ChordInv, NEW t \in Slot,
           At(t, "extraction", {"queued", "dispatching"}),
           NEW sent, SendHeader(t, Free, sent, None)
    PROVE  Linked' /\ (crashes' = crashes => ChordCanFire')
<1>1. Unlinked(tasks[t]) /\ tasks[t].phase # "free"
      BY DEF At, ChordInv, Linked, Answering, Modality, Unlinked
<1>2. PICK slots \in [sent -> FreeSlots] :
        /\ tasks'[t] = Free
        /\ \A m \in sent : tasks'[slots[m]] = Message(m, None)
        /\ \A s \in Slot \ {t} :
                (\A m \in sent : slots[m] # s) => tasks'[s] = tasks[s]
      BY <1>1, HeaderSlots
<1>3. Unlinked(tasks'[t])
      BY <1>2 DEF Free, Unlinked
<1>4. ASSUME NEW m \in sent
      PROVE  Unlinked(tasks[slots[m]]) /\ Unlinked(tasks'[slots[m]])
  <2>1. slots[m] \in Slot /\ tasks[slots[m]].phase = "free"
        BY DEF FreeSlots
  <2>2. Unlinked(tasks[slots[m]])
        BY <2>1 DEF ChordInv, Linked, Answering, Unlinked
  <2>3. Unlinked(Message(m, None))
        BY DEF Message, Unlinked
  <2>4. QED BY <1>2, <2>2, <2>3
<1>5. \A s \in Slot : \/ tasks'[s] = tasks[s]
                      \/ Unlinked(tasks[s]) /\ Unlinked(tasks'[s])
      BY <1>1, <1>2, <1>3, <1>4
<1>6. QED BY <1>5, UnlinkedSteps

-----------------------------------------------------------------------------
(* Every step keeps the chords.                                            *)

LEMMA IngestChord ==
    ASSUME tasks \in [Slot -> Task], ChordInv, NEW t \in Slot, Ingest(t)
    PROVE  Linked' /\ (crashes' = crashes => ChordCanFire')
<1> USE DEF OwnStep, At, Modality, Kind, Phase
<1>1. CASE DownloadStart(t)
      BY <1>1, OwnSteps DEF DownloadStart
<1>2. CASE DownloadDone(t)
      BY <1>2, OwnSteps DEF DownloadDone
<1>3. CASE DownloadDispatch(t)
      BY <1>3, OwnSteps DEF DownloadDispatch
<1>4. CASE DownloadRejected(t)
      BY <1>4, OwnSteps DEF DownloadRejected
<1>5. CASE DownloadFails(t)
      BY <1>5, OwnSteps DEF DownloadFails
<1>6. CASE UploadStart(t)
      BY <1>6, OwnSteps DEF UploadStart
<1>7. CASE UploadDone(t)
      BY <1>7, OwnSteps DEF UploadDone
<1>8. CASE UploadCleanup(t)
      BY <1>8, OwnSteps DEF UploadCleanup
<1>9. CASE UploadDispatch(t)
      BY <1>9, OwnSteps DEF UploadDispatch
<1>10. CASE UploadFails(t)
      BY <1>10, OwnSteps DEF UploadFails
<1>11. QED BY <1>1, <1>2, <1>3, <1>4, <1>5, <1>6, <1>7, <1>8, <1>9, <1>10 DEF Ingest

LEMMA StageAChord ==
    ASSUME tasks \in [Slot -> Task], ChordInv, NEW t \in Slot, StageA(t)
    PROVE  Linked' /\ (crashes' = crashes => ChordCanFire')
<1> USE DEF OwnStep, At, Modality, Kind, Phase
<1>1. CASE CensusStart(t)
      BY <1>1, OwnSteps DEF CensusStart
<1>2. CASE CensusCheck(t)
      BY <1>2, OwnSteps DEF CensusCheck
<1>3. CASE CensusProbe(t)
      BY <1>3, OwnSteps DEF CensusProbe
<1>4. CASE CensusDispatch(t)
  <2>1. PICK s \in FreeSlots :
            tasks' = [tasks EXCEPT ![s] = Message("extraction", None),
                                   ![t].phase = "finishing"]
        BY <1>4 DEF CensusDispatch
  <2>2. /\ s \in Slot \ {t} /\ Unlinked(tasks[s]) /\ Unlinked(tasks[t])
        BY <1>4 DEF CensusDispatch, FreeSlots, ChordInv, Linked, Answering,
                    Unlinked
  <2>3. Unlinked(Message("extraction", None))
        BY DEF Message, Unlinked
  <2>4. /\ tasks'[s] = Message("extraction", None)
        /\ tasks'[t].phase = "finishing"
        /\ tasks'[t].callback = tasks[t].callback
        /\ \A r \in Slot \ {s, t} : tasks'[r] = tasks[r]
        BY <2>1, <2>2 DEF Task
  <2>5. Unlinked(tasks'[t])
        BY <2>2, <2>4 DEF Unlinked
  <2>6. QED BY <2>2, <2>3, <2>4, <2>5, UnlinkedSteps
<1>5. CASE CensusFinish(t)
      BY <1>5, OwnSteps DEF CensusFinish
<1>6. CASE CensusFails(t)
      BY <1>6, OwnSteps DEF CensusFails
<1>7. CASE CensusDies(t)
      BY <1>7, OwnSteps DEF CensusDies
<1>8. QED BY <1>1, <1>2, <1>3, <1>4, <1>5, <1>6, <1>7 DEF StageA

LEMMA StageBChord ==
    ASSUME TypeOK, ChordInv, NEW t \in Slot, StageB(t)
    PROVE  Linked' /\ (crashes' = crashes => ChordCanFire')
<1> USE DEF TypeOK, OwnStep, At, Modality, Kind, Phase
<1>1. CASE ExtractionStart(t)
  <2>1. PICK i \in DOMAIN manifests :
            tasks' = [tasks EXCEPT ![t].phase = "dispatching",
                                   ![t].mods = manifests[i]]
        BY <1>1 DEF ExtractionStart
  <2>2. manifests[i] \in SUBSET Modality
        BY <2>1, ElementOfSeq, LenProperties
  <2>3. OwnStep(t)
        BY <2>1, <2>2
  <2>4. QED BY <1>1, <2>3, OwnSteps DEF ExtractionStart
<1>2. CASE ExtractionDispatch(t)
  <2>1. CASE tasks[t].mods # {}
    <3>1. tasks[t].mods \in SUBSET Modality
          BY DEF Task
    <3>2. SendHeader(t, Waiting(tasks[t].mods), tasks[t].mods, t)
          BY <1>2, <2>1 DEF ExtractionDispatch
    <3>3. QED BY <1>2, <3>1, <3>2, ChordSent DEF ExtractionDispatch
  <2>2. CASE HandsOverTo(t, "fusion")
        BY <1>2, <2>2, OwnSteps DEF ExtractionDispatch
  <2>3. QED BY <1>2, <2>1, <2>2 DEF ExtractionDispatch
<1>3. CASE ExtractionDies(t)
  <2>1. CASE \E sent \in {m \in SUBSET tasks[t].mods :
                                m = {} \/ m # tasks[t].mods} :
                SendHeader(t, Free, sent, None)
        BY <1>3, <2>1, HeaderWithoutChord DEF ExtractionDies
  <2>2. CASE Ends(t)
        BY <1>3, <2>2, OwnSteps DEF ExtractionDies
  <2>3. QED BY <1>3, <2>1, <2>2 DEF ExtractionDies
<1>4. CASE ExtractorStart(t)
  <2>1. CASE HeaderEnds(t)
        BY <1>4, <2>1, HeaderEndsChord DEF ExtractorStart
  <2>2. CASE MovesTo(t, "working")
        BY <1>4, <2>2, TaskSteps, CallbackSteps, ExtractorGoesOn
        DEF ExtractorStart
  <2>3. ASSUME NEW i \in DOMAIN bundles,
               tasks' = [tasks EXCEPT ![t].phase = "working", ![t].row = i]
        PROVE  Linked' /\ (crashes' = crashes => ChordCanFire')
    <3>1. i \in Nat
          BY <2>3, LenProperties
    <3> DEFINE task == [tasks[t] EXCEPT !.phase = "working", !.row = i]
    <3>2. task \in Task
          BY <3>1 DEF Task
    <3>3. /\ task.kind = tasks[t].kind /\ task.phase = "working"
          /\ task.callback = tasks[t].callback
          BY DEF Task
    <3>4. tasks' = [tasks EXCEPT ![t] = task]
          BY <2>3
    <3> HIDE DEF task
    <3>5. OnlySlot(t) /\ tasks'[t] = task
          BY <3>2, <3>4 DEF OnlySlot
    <3>6. QED BY <1>4, <3>3, <3>5, ExtractorGoesOn DEF ExtractorStart
  <2>4. QED BY <1>4, <2>1, <2>2, <2>3 DEF ExtractorStart
<1>5. CASE ExtractorDone(t)
      BY <1>5, HeaderEndsChord DEF ExtractorDone
<1>6. CASE ExtractorFails(t)
  <2>1. CASE HeaderEnds(t)
        BY <1>6, <2>1, HeaderEndsChord DEF ExtractorFails
  <2>2. CASE Retries(t)
        BY <1>6, <2>2, TaskSteps, CallbackSteps, ExtractorGoesOn
        DEF ExtractorFails
  <2>3. QED BY <1>6, <2>1, <2>2 DEF ExtractorFails
<1>7. QED BY <1>1, <1>2, <1>3, <1>4, <1>5, <1>6 DEF StageB

LEMMA StageCChord ==
    ASSUME TypeOK, ChordInv, NEW t \in Slot, StageC(t)
    PROVE  Linked' /\ (crashes' = crashes => ChordCanFire')
<1> USE DEF TypeOK, OwnStep, At, Modality, Kind, Phase
<1>1. CASE FusionNotReady(t)
      BY <1>1, OwnSteps DEF FusionNotReady
<1>2. CASE FusionStart(t)
  <2>1. CASE HandsOverTo(t, "taxonomy")
        BY <1>2, <2>1, OwnSteps DEF FusionStart
  <2>2. ASSUME NEW i \in DOMAIN bundles,
               tasks' = [tasks EXCEPT ![t].phase = "working",
                                      ![t].mods = bundles[i]]
        PROVE  OwnStep(t)
    <3>1. bundles[i] \in SUBSET Modality
          BY <2>2, ElementOfSeq, LenProperties
    <3>2. QED BY <2>2, <3>1
  <2>3. QED BY <1>2, <2>1, <2>2, OwnSteps DEF FusionStart
<1>3. CASE FusionDone(t)
      BY <1>3, OwnSteps DEF FusionDone
<1>4. CASE FusionDispatch(t)
      BY <1>4, OwnSteps DEF FusionDispatch
<1>5. CASE FusionFails(t)
      BY <1>5, OwnSteps DEF FusionFails
<1>6. QED BY <1>1, <1>2, <1>3, <1>4, <1>5 DEF StageC

LEMMA StageDChord ==
    ASSUME tasks \in [Slot -> Task], ChordInv, NEW t \in Slot, StageD(t)
    PROVE  Linked' /\ (crashes' = crashes => ChordCanFire')
<1> USE DEF OwnStep, At, Modality, Kind, Phase
<1>1. CASE TaxonomyStart(t)
      BY <1>1, OwnSteps DEF TaxonomyStart
<1>2. CASE TaxonomyCheck(t)
      BY <1>2, OwnSteps DEF TaxonomyCheck
<1>3. CASE TaxonomyStore(t)
      BY <1>3, OwnSteps DEF TaxonomyStore
<1>4. CASE TaxonomyComplete(t)
      BY <1>4, OwnSteps DEF TaxonomyComplete
<1>5. CASE TaxonomyFails(t)
      BY <1>5, OwnSteps DEF TaxonomyFails
<1>6. QED BY <1>1, <1>2, <1>3, <1>4, <1>5 DEF StageD

LEMMA WorkersLive ==
    ASSUME NEW t \in Slot, Work(t)
    PROVE  UNCHANGED env
<1> USE DEF env
<1>1. CASE Ingest(t)
      BY <1>1 DEF Ingest, DownloadStart, DownloadDone, DownloadDispatch,
                  DownloadRejected, DownloadFails, UploadStart, UploadDone,
                  UploadCleanup, UploadDispatch, UploadFails
<1>2. CASE StageA(t)
      BY <1>2 DEF StageA, CensusStart, CensusCheck, CensusProbe,
                  CensusDispatch, CensusFinish, CensusFails, CensusDies
<1>3. CASE StageB(t)
      BY <1>3 DEF StageB, ExtractionStart, ExtractionDispatch,
                  ExtractionDies, ExtractorStart, ExtractorDone,
                  ExtractorFails
<1>4. CASE StageC(t)
      BY <1>4 DEF StageC, FusionNotReady, FusionStart, FusionDone,
                  FusionDispatch, FusionFails
<1>5. CASE StageD(t)
      BY <1>5 DEF StageD, TaxonomyStart, TaxonomyCheck, TaxonomyStore,
                  TaxonomyComplete, TaxonomyFails
<1>6. QED BY <1>1, <1>2, <1>3, <1>4, <1>5 DEF Work

LEMMA StepKeepsChord ==
    ASSUME TypeOK, ChordInv, [Next]_vars
    PROVE  ChordInv'
<1>0. tasks \in [Slot -> Task]
      BY DEF TypeOK
<1>1. ASSUME NEW t \in Slot, Work(t)
      PROVE  ChordInv'
  <2>1. crashes' = crashes
        BY <1>1, WorkersLive DEF env
  <2>2. QED BY <1>0, <1>1, <2>1, IngestChord, StageAChord, StageBChord,
               StageCChord, StageDChord DEF Work, ChordInv
<1>2. ASSUME NEW t \in Slot, Crash(t)
      PROVE  ChordInv'
  <2>1. OnlySlot(t) /\ tasks'[t] = Free /\ tasks[t].phase # "waiting"
        BY <1>0, <1>2, TaskSteps DEF Crash
  <2>2. Free.callback = None
        BY DEF Free
  <2>3. ASSUME NEW s \in Slot, tasks'[s].callback # None
        PROVE  s # t /\ tasks'[s] = tasks[s]
        BY <2>1, <2>2, <2>3 DEF OnlySlot
  <2>4. ASSUME NEW s \in Slot, tasks'[s].callback # None
        PROVE  tasks'[tasks'[s].callback] = tasks[tasks[s].callback]
    <3>1. tasks'[s] = tasks[s]
          BY <2>3, <2>4
    <3>2. /\ tasks[s].callback \in Slot
          /\ tasks[tasks[s].callback].phase = "waiting"
          BY <1>0, <2>4, <3>1 DEF ChordInv, Linked, Answering, Task
    <3>3. tasks[s].callback # t
          BY <2>1, <3>2
    <3>4. QED BY <2>1, <3>1, <3>2, <3>3 DEF OnlySlot
  <2>5. Answering'
        BY <2>3, <2>4 DEF ChordInv, Linked, Answering
  <2>6. AnswersOnce'
        BY <2>3 DEF ChordInv, Linked, AnswersOnce
  <2>7. ChordCanFire'
        BY <1>2 DEF Crash, TypeOK, ChordCanFire
  <2>8. QED BY <2>5, <2>6, <2>7 DEF ChordInv, Linked
<1>3. CASE SubmitJob \/ RetryDispatch
  <2>1. ASSUME NEW s \in FreeSlots, NEW k \in Kind, HandsOverTo(s, k),
               crashes' = crashes
        PROVE  ChordInv'
    <3>1. /\ s \in Slot /\ OnlySlot(s)
          /\ Unlinked(tasks[s]) /\ Unlinked(tasks'[s])
          BY <1>0, <2>1, TaskSteps, CallbackSteps
          DEF FreeSlots, ChordInv, Linked, Answering, Unlinked
    <3>2. QED BY <1>0, <2>1, <3>1, UnlinkedSteps DEF OnlySlot, ChordInv
  <2>2. ResumePoint \in Kind /\ "download" \in Kind
        BY DEF ResumePoint, Kind
  <2>3. CASE UNCHANGED tasks /\ crashes' = crashes
        BY <2>3 DEF ChordInv, Linked, Answering, AnswersOnce, ChordCanFire
  <2>4. QED BY <1>3, <2>1, <2>2, <2>3 DEF SubmitJob, RetryDispatch, env
<1>4. CASE RetryCommit \/ UNCHANGED vars
      BY <1>4 DEF RetryCommit, vars, ChordInv, Linked, Answering, AnswersOnce,
                  ChordCanFire
<1>5. QED BY <1>1, <1>2, <1>3, <1>4 DEF Next

LEMMA ChordsKept == Spec => []ChordInv
<1>1. Init => ChordInv
      BY DEF Init, Free, ChordInv, Linked, Answering, AnswersOnce, ChordCanFire
<1>2. QED BY <1>1, StepKeepsChord, TypeCorrect, PTL DEF Spec

\* As long as no worker dies, a waiting fusion has all of its extractors
\* still coming, whatever fails and however often the job is retried.
THEOREM ChordsCanFire == Spec => []ChordCanFire
<1>1. ChordInv => ChordCanFire
      BY DEF ChordInv
<1>2. QED BY <1>1, ChordsKept, PTL
==============================================================================
