-------------------------- MODULE IngestNodeProofs ---------------------------
(***************************************************************************)
(* Theorems about IngestNode for every number of chains and extractors,    *)
(* of retries, and every pair of limits.                                   *)
(***************************************************************************)
EXTENDS IngestNode, TLAPS

StorageOK == present \in BOOLEAN /\ files \in SUBSET File /\ age \in 0..(MaxAge + 1)

\* The directory is as old as the longest work in it at most: what a task
\* creates in it renews its mtime.
OwnClock(c) ==
    chain[c].fresh /\ At(c, "download", {"fetching", "converting"}) =>
        age <= chain[c].clock

Clocked ==
    /\ \A m \in Extractor : extractor[m].reading => age <= extractor[m].clock
    /\ \A m \in Extractor : m \in files => extractor[m].reading
    /\ \A c \in Chain : OwnClock(c)

\* Nobody reads what is not stored.
Unread == ~uri => \A m \in Extractor : ~extractor[m].reading

\* What a chain that is alone can count on: the cleanup only removes what was
\* too old and has not been touched since.
Kept(c) ==
    /\ chain[c].task = "none" => ~present /\ ~condemned
    /\ condemned /\ chain[c].task # "over" => present /\ age > MaxAge
    /\ At(c, "download", {"converting"}) => chain[c].picked \in files
    /\ chain[c].task = "upload" /\ chain[c].waited + TimeLimit <= MaxAge =>
        /\ age <= chain[c].waited + TimeLimit
        /\ chain[c].picked \in files
        /\ chain[c].sound => "audio" \in files

Lone(c) == Alone(c) /\ chain[c].fresh /\ ~uri => Kept(c)

\* A chain that is not dispatched has found no directory.
Undispatched == \A c \in Chain : chain[c].task = "none" => chain[c].fresh

IInv == TypeOK /\ Clocked /\ Unread /\ Undispatched /\ \A c \in Chain : Lone(c)

-----------------------------------------------------------------------------
(* The records of a chain.                                                 *)

\* A clock that starts again.
LEMMA Zero == 0 \in 0..TimeLimit /\ 0 \in 0..MaxAge /\ None \in File \cup {None}
BY TimeAssumption

LEMMA IdleIsIngest ==
    /\ Idle \in Ingest
    /\ [Idle EXCEPT !.task = "download", !.phase = "queued"] \in Ingest
BY Zero DEF Idle, Ingest

LEMMA WorkedIsBoolean == \A c \in Chain : Worked(c) \in BOOLEAN
BY DEF Worked

LEMMA OverIs ==
    ASSUME chain \in [Chain -> Ingest], NEW c \in Chain, NEW left \in BOOLEAN
    PROVE  /\ Over(c, left) \in Ingest /\ Over(c, left).left = left
           /\ Over(c, left).task = "over" /\ Over(c, left).phase = "idle"
           /\ Over(c, left).fresh = chain[c].fresh /\ Over(c, left).picked = None
<1>1. chain[c].fresh \in BOOLEAN
      BY DEF Ingest
<1>2. Idle \in Ingest /\ Idle.phase = "idle" /\ Idle.picked = None
      BY IdleIsIngest DEF Idle
<1>3. QED BY <1>1, <1>2 DEF Over, Ingest

LEMMA RetriedIs ==
    ASSUME chain \in [Chain -> Ingest], NEW c \in Chain
    PROVE  /\ Retried(c) \in Ingest /\ Retried(c).phase = "queued"
           /\ Retried(c).task = chain[c].task /\ Retried(c).fresh = chain[c].fresh
           /\ Retried(c).picked = chain[c].picked /\ Retried(c).sound = chain[c].sound
           /\ Retried(c).waited = chain[c].waited /\ Retried(c).left = chain[c].left
           /\ Retried(c).retries > 0
<1>1. chain[c] \in Ingest
      OBVIOUS
<1>2. chain[c].retries \in Nat
      BY <1>1 DEF Ingest
<1> DEFINE more == chain[c].retries + 1
<1>3. more \in Nat /\ more > 0
      BY <1>2
<1>4. Retried(c) = [chain[c] EXCEPT !.phase = "queued", !.retries = more, !.clock = 0]
      BY <1>1 DEF Retried, Ingest
<1> HIDE DEF more
<1>5. QED BY Zero, <1>1, <1>3, <1>4 DEF Ingest

LEMMA BecomesOnly ==
    ASSUME chain \in [Chain -> Ingest], NEW c \in Chain, NEW record \in Ingest,
           Becomes(c, record)
    PROVE  /\ chain' \in [Chain -> Ingest] /\ chain'[c] = record
           /\ \A d \in Chain \ {c} : chain'[d] = chain[d]
BY DEF Becomes

LEMMA MovesToOnly ==
    ASSUME chain \in [Chain -> Ingest], NEW c \in Chain,
           NEW phase \in {"fetching", "converting", "sending", "sounding", "cleaning"},
           MovesTo(c, phase)
    PROVE  /\ chain' \in [Chain -> Ingest]
           /\ chain'[c].phase = phase /\ chain'[c].task = chain[c].task
           /\ chain'[c].fresh = chain[c].fresh /\ chain'[c].picked = chain[c].picked
           /\ chain'[c].sound = chain[c].sound /\ chain'[c].waited = chain[c].waited
           /\ chain'[c].clock = chain[c].clock /\ chain'[c].left = chain[c].left
           /\ \A d \in Chain \ {c} : chain'[d] = chain[d]
<1> DEFINE moved == [chain[c] EXCEPT !.phase = phase]
<1>1. chain[c] \in Ingest
      OBVIOUS
<1>2. moved \in Ingest
      BY <1>1 DEF Ingest
<1>3. chain' = [chain EXCEPT ![c] = moved]
      BY DEF MovesTo
<1>4. /\ moved.phase = phase /\ moved.task = chain[c].task
           /\ moved.fresh = chain[c].fresh /\ moved.picked = chain[c].picked
           /\ moved.sound = chain[c].sound /\ moved.waited = chain[c].waited
           /\ moved.clock = chain[c].clock /\ moved.left = chain[c].left
      BY <1>1 DEF Ingest
<1> HIDE DEF moved
<1>5. QED BY <1>2, <1>3, <1>4

-----------------------------------------------------------------------------
(* The directory.                                                          *)

\* What a task of the ingest does to the directory: it keeps its age or
\* renews it, and adds no copy of an extractor.
Touched ==
    /\ StorageOK'
    /\ age' \in {age, 0}
    /\ \A m \in Extractor : m \in files' => m \in files

LEMMA Touches ==
    ASSUME StorageOK,
           \/ MakeDir \/ RemoveDir \/ UNCHANGED storage
           \/ Holds(files \cup {"video"}) \/ Holds(files \cup {"audio"})
    PROVE  Touched
<1>1. 0 \in 0..(MaxAge + 1) /\ "video" \in File /\ "audio" \in File
      BY TimeAssumption DEF File
<1>2. "video" \notin Extractor /\ "audio" \notin Extractor
      BY NamesAssumption
<1>3. CASE MakeDir
      BY <1>1, <1>3 DEF MakeDir, StorageOK, Touched
<1>4. CASE RemoveDir
      BY <1>1, <1>4 DEF RemoveDir, StorageOK, Touched
<1>5. CASE UNCHANGED storage
      BY <1>5 DEF storage, StorageOK, Touched
<1>6. CASE Holds(files \cup {"video"})
      BY <1>1, <1>2, <1>6 DEF Holds, StorageOK, Touched
<1>7. CASE Holds(files \cup {"audio"})
      BY <1>1, <1>2, <1>7 DEF Holds, StorageOK, Touched
<1>8. QED BY <1>3, <1>4, <1>5, <1>6, <1>7

\* A step of one chain disturbs nobody else; what it owes is its own account.
LEMMA StepKeeps ==
    ASSUME IInv, NEW c \in Chain, Touched,
           chain' \in [Chain -> Ingest], chain'[c].task # "none",
           \A d \in Chain \ {c} : chain'[d] = chain[d],
           UNCHANGED <<condemned, extractor>>,
           uri' \in BOOLEAN, uri => uri', stored' \in {None, "video", "audio"},
           OwnClock(c)', Alone(c) /\ chain'[c].fresh /\ ~uri' => Kept(c)'
    PROVE  IInv'
<1>1. TypeOK'
      BY DEF IInv, TypeOK, Touched, StorageOK
<1>2. Clocked'
  <2>1. age \in Nat /\ age' \in {age, 0}
        BY DEF IInv, TypeOK, Touched
  <2>2. \A m \in Extractor : extractor[m].clock \in Nat
        BY DEF IInv, TypeOK, Run
  <2>3. \A m \in Extractor : extractor'[m].reading => age' <= extractor'[m].clock
        BY <2>1, <2>2 DEF IInv, Clocked
  <2>4. \A m \in Extractor : m \in files' => extractor'[m].reading
        BY DEF IInv, Clocked, Touched
  <2>5. ASSUME NEW d \in Chain PROVE OwnClock(d)'
    <3>1. CASE d = c
          BY <3>1
    <3>2. CASE d # c
      <4>1. chain'[d] = chain[d] /\ OwnClock(d)
            BY <3>2 DEF IInv, Clocked
      <4>2. chain[d].clock \in Nat
            BY DEF IInv, TypeOK, Ingest
      <4>3. QED BY <2>1, <4>1, <4>2 DEF OwnClock, At
    <3>3. QED BY <3>1, <3>2
  <2>6. QED BY <2>3, <2>4, <2>5 DEF Clocked
<1>3. Unread'
      BY DEF IInv, Unread
<1>4. ASSUME NEW d \in Chain PROVE Lone(d)'
  <2>1. CASE d = c
        BY <2>1 DEF Lone, Alone
  <2>2. CASE d # c
        BY <2>2 DEF Lone, Alone
  <2>3. QED BY <2>1, <2>2
<1>5. Undispatched'
  <2>1. ASSUME NEW d \in Chain, d # c PROVE chain'[d].task = "none" => chain'[d].fresh
        BY <2>1 DEF IInv, Undispatched
  <2>2. QED BY <2>1 DEF Undispatched
<1>6. QED BY <1>1, <1>2, <1>3, <1>4, <1>5 DEF IInv

LEMMA ClocksAreNumbers ==
    ASSUME IInv
    PROVE  \A c \in Chain : chain[c].clock \in Nat
<1>1. ASSUME NEW r \in Ingest PROVE r.clock \in Nat
      BY <1>1, TimeAssumption DEF Ingest
<1>2. QED BY <1>1 DEF IInv, TypeOK

\* The cleanup has not condemned what a first download works in.
LEMMA FreshIsYoung ==
    ASSUME IInv, NEW c \in Chain, Alone(c), ~uri, chain[c].fresh,
           At(c, "download", {"fetching", "converting"})
    PROVE  age <= chain[c].clock /\ chain[c].clock \in 0..TimeLimit /\ ~condemned
<1>1. age <= chain[c].clock
      BY DEF IInv, Clocked, OwnClock
<1>2. chain[c].clock \in 0..TimeLimit /\ age \in Nat
      BY DEF IInv, TypeOK, Ingest
<1>3. ~(age > MaxAge)
      BY <1>1, <1>2, TimeAssumption
<1>4. ~condemned
      BY <1>3 DEF IInv, Lone, Kept, At
<1>5. QED BY <1>1, <1>2, <1>4

-----------------------------------------------------------------------------
(* The tasks of the ingest, one by one.                                    *)

LEMMA InitEstablishes == Init => IInv
<1> SUFFICES ASSUME Init PROVE IInv
    OBVIOUS
<1>1. 0 \in 0..(MaxAge + 1) /\ 0 \in 0..ExtractorRuns /\ ExtractorRuns \in 0..ExtractorRuns
      BY TimeAssumption, RetriesAssumption
<1>2. chain \in [Chain -> Ingest]
      BY IdleIsIngest DEF Init
<1>3. extractor \in [Extractor -> Run]
      BY <1>1, Zero DEF Init, Run
<1>4. TypeOK
      BY <1>1, <1>2, <1>3 DEF Init, TypeOK
<1>5. \A c \in Chain : chain[c].task = "none"
      BY DEF Init, Idle
<1>6. \A m \in Extractor : ~extractor[m].reading
      BY DEF Init
<1>7. Clocked
      BY <1>5, <1>6 DEF Init, Clocked, OwnClock, At
<1>8. Unread
      BY <1>6 DEF Unread
<1>9. \A c \in Chain : Lone(c)
      BY <1>5 DEF Init, Lone, Kept, At
<1>10. Undispatched
      BY DEF Init, Idle, Undispatched
<1>11. QED BY <1>4, <1>7, <1>8, <1>9, <1>10 DEF IInv

\* A chain that is over is owed nothing.
LEMMA OverKeeps ==
    ASSUME IInv, NEW c \in Chain, NEW left \in BOOLEAN, Becomes(c, Over(c, left)),
           MakeDir \/ RemoveDir \/ UNCHANGED storage,
           UNCHANGED <<condemned, uri, stored, extractor>>
    PROVE  IInv'
<1>1. Touched
      BY Touches DEF IInv, TypeOK, StorageOK
<1>2. chain \in [Chain -> Ingest]
      BY DEF IInv, TypeOK
<1>3. /\ chain' \in [Chain -> Ingest]
      /\ chain'[c].task = "over"
      /\ \A d \in Chain \ {c} : chain'[d] = chain[d]
      BY <1>2, OverIs, BecomesOnly
<1>4. OwnClock(c)' /\ Kept(c)'
      BY <1>3 DEF OwnClock, Kept, At
<1>5. uri' \in BOOLEAN /\ stored' \in {None, "video", "audio"}
      BY DEF IInv, TypeOK
<1>6. QED BY <1>1, <1>3, <1>4, <1>5, StepKeeps

\* The same for a task that Celery repeats.
LEMMA RetryKeeps ==
    ASSUME IInv, NEW c \in Chain, Becomes(c, Retried(c)),
           chain[c].task \in {"download", "upload"},
           \/ UNCHANGED storage
           \/ At(c, "download", {"converting"}) /\ Holds(files \cup {"audio"}),
           UNCHANGED <<condemned, uri, stored, extractor>>
    PROVE  IInv'
<1>1. Touched
      BY Touches DEF IInv, TypeOK, StorageOK
<1>2. chain \in [Chain -> Ingest]
      BY DEF IInv, TypeOK
<1>3. /\ chain' \in [Chain -> Ingest] /\ chain'[c] = Retried(c)
      /\ \A d \in Chain \ {c} : chain'[d] = chain[d]
      BY <1>2, RetriedIs, BecomesOnly
<1>4. /\ chain'[c].phase = "queued"
      /\ chain'[c].task = chain[c].task /\ chain'[c].fresh = chain[c].fresh
      /\ chain'[c].picked = chain[c].picked /\ chain'[c].sound = chain[c].sound
      /\ chain'[c].waited = chain[c].waited
      BY <1>2, <1>3, RetriedIs
<1>5. OwnClock(c)'
      BY <1>4 DEF OwnClock, At
<1>6. ASSUME Alone(c), chain'[c].fresh, ~uri'
      PROVE  Kept(c)'
  <2>1. Kept(c) /\ OwnClock(c)
        BY <1>4, <1>6 DEF IInv, Lone, Clocked
  <2>2. CASE UNCHANGED storage
        BY <1>4, <2>1, <2>2 DEF Kept, At, storage
  <2>3. CASE At(c, "download", {"converting"}) /\ Holds(files \cup {"audio"})
    <3>1. ~condemned
          BY <1>4, <1>6, <2>1, <2>3, FreshIsYoung DEF At
    <3>2. QED BY <1>4, <2>3, <3>1 DEF Kept, At
  <2>4. QED BY <2>2, <2>3
<1>7. uri' \in BOOLEAN /\ stored' \in {None, "video", "audio"}
      BY DEF IInv, TypeOK
<1>8. chain'[c].task # "none"
      BY <1>4
<1>9. QED BY <1>1, <1>3, <1>5, <1>6, <1>7, <1>8, StepKeeps

LEMMA DispatchKeeps ==
    ASSUME IInv, NEW c \in Chain, Dispatch(c)
    PROVE  IInv'
<1> DEFINE queued == [Idle EXCEPT !.task = "download", !.phase = "queued"]
<1>1. Touched
      BY Touches DEF IInv, TypeOK, StorageOK, Dispatch
<1>2. chain \in [Chain -> Ingest]
      BY DEF IInv, TypeOK
<1>3. queued \in Ingest /\ queued.task = "download" /\ queued.phase = "queued"
      BY IdleIsIngest DEF Idle
<1>4. Becomes(c, queued)
      BY DEF Dispatch
<1> HIDE DEF queued
<1>5. /\ chain' \in [Chain -> Ingest]
      /\ chain'[c].task = "download" /\ chain'[c].phase = "queued"
      /\ \A d \in Chain \ {c} : chain'[d] = chain[d]
      BY <1>2, <1>3, <1>4, BecomesOnly
<1>6. OwnClock(c)'
      BY <1>5 DEF OwnClock, At
<1>7. UNCHANGED <<present, files, age, condemned, uri, stored, extractor>>
      BY DEF Dispatch, storage
<1>8. chain[c].task = "none" /\ chain[c].fresh => ~condemned \/ ~Alone(c) \/ uri
      BY DEF IInv, Lone, Kept
<1>9. chain[c].task = "none" => chain[c].fresh
      BY DEF IInv, Undispatched
<1>10. Alone(c) /\ chain'[c].fresh /\ ~uri' => Kept(c)'
      BY <1>5, <1>7, <1>8, <1>9 DEF Kept, At, Dispatch
<1>11. uri' \in BOOLEAN /\ stored' \in {None, "video", "audio"}
      BY <1>7 DEF IInv, TypeOK
<1>12. QED BY <1>1, <1>5, <1>6, <1>7, <1>10, <1>11, StepKeeps

\* download_video finds the video stored, or makes the directory.
LEMMA DownloadStartKeeps ==
    ASSUME IInv, NEW c \in Chain, DownloadStart(c)
    PROVE  IInv'
<1>1. CASE Becomes(c, Over(c, Worked(c))) /\ UNCHANGED storage
      BY <1>1, WorkedIsBoolean, OverKeeps DEF DownloadStart
<1> DEFINE started == [chain[c] EXCEPT !.phase = "fetching", !.clock = 0,
                                       !.fresh = @ /\ ~present]
<1>2. CASE MakeDir /\ Becomes(c, started)
  <2>1. Touched
        BY <1>2, Touches DEF IInv, TypeOK, StorageOK
  <2>2. chain \in [Chain -> Ingest] /\ chain[c] \in Ingest /\ present \in BOOLEAN
        BY DEF IInv, TypeOK
  <2>3. /\ started \in Ingest /\ started.task = chain[c].task
        /\ started.phase = "fetching" /\ started.clock = 0
        /\ started.fresh <=> chain[c].fresh /\ ~present
    <3>1. (chain[c].fresh /\ ~present) \in BOOLEAN
          OBVIOUS
    <3> DEFINE fresh == chain[c].fresh /\ ~present
    <3>2. started = [chain[c] EXCEPT !.phase = "fetching", !.clock = 0, !.fresh = fresh]
          BY <2>2 DEF Ingest
    <3>3. fresh \in BOOLEAN
          BY <3>1
    <3> HIDE DEF fresh
    <3>4. /\ started \in Ingest /\ started.task = chain[c].task
          /\ started.phase = "fetching" /\ started.clock = 0 /\ started.fresh = fresh
          BY <2>2, <3>2, <3>3, Zero DEF Ingest
    <3>5. QED BY <3>4 DEF fresh
  <2> HIDE DEF started
  <2>4. /\ chain' \in [Chain -> Ingest] /\ chain'[c] = started
        /\ \A d \in Chain \ {c} : chain'[d] = chain[d]
        BY <1>2, <2>2, <2>3, BecomesOnly
  <2>5. chain[c].task = "download" /\ UNCHANGED <<condemned, uri, stored, extractor>>
        BY DEF DownloadStart, At
  <2>6. OwnClock(c)'
    <3>1. ~present => age' = 0
          BY <1>2 DEF MakeDir
    <3>2. QED BY <2>3, <2>4, <3>1 DEF OwnClock
  <2>7. ASSUME Alone(c), chain'[c].fresh, ~uri'
        PROVE  Kept(c)'
    <3>1. chain[c].fresh /\ ~present
          BY <2>3, <2>4, <2>7
    <3>2. ~condemned
          BY <2>5, <2>7, <3>1 DEF IInv, Lone, Kept
    <3>3. QED BY <2>3, <2>4, <2>5, <3>2 DEF Kept, At
  <2>8. uri' \in BOOLEAN /\ stored' \in {None, "video", "audio"}
        BY <2>5 DEF IInv, TypeOK
  <2>9. QED BY <2>1, <2>3, <2>4, <2>5, <2>6, <2>7, <2>8, StepKeeps
<1>3. QED BY <1>1, <1>2 DEF DownloadStart

\* The file that is picked is in the directory.
LEMMA FetchKeeps ==
    ASSUME IInv, NEW c \in Chain, Fetch(c)
    PROVE  IInv'
<1>1. Touched
      BY Touches DEF IInv, TypeOK, StorageOK, Fetch
<1>2. PICK f \in files \cup {"video"} :
            Becomes(c, [chain[c] EXCEPT !.phase = "converting", !.picked = f])
      BY DEF Fetch
<1>3. f \in files' /\ f \in File
      BY DEF Fetch, Holds, IInv, TypeOK, File
<1> DEFINE fetched == [chain[c] EXCEPT !.phase = "converting", !.picked = f]
<1>4. chain \in [Chain -> Ingest] /\ chain[c] \in Ingest
      BY DEF IInv, TypeOK
<1>5. /\ fetched \in Ingest /\ fetched.task = chain[c].task
      /\ fetched.phase = "converting" /\ fetched.clock = chain[c].clock
      /\ fetched.fresh = chain[c].fresh /\ fetched.picked = f
      BY <1>3, <1>4 DEF Ingest
<1>6. Becomes(c, fetched)
      BY <1>2
<1> HIDE DEF fetched
<1>7. /\ chain' \in [Chain -> Ingest] /\ chain'[c] = fetched
      /\ \A d \in Chain \ {c} : chain'[d] = chain[d]
      BY <1>4, <1>5, <1>6, BecomesOnly
<1>8. /\ chain[c].task = "download" /\ chain[c].phase = "fetching"
      /\ UNCHANGED <<condemned, uri, stored, extractor>>
      BY DEF Fetch, At
<1>9. OwnClock(c)'
  <2>1. age \in Nat /\ chain[c].clock \in Nat /\ age' \in {age, 0}
        BY <1>1, <1>4 DEF Touched, IInv, TypeOK, Ingest
  <2>2. chain[c].fresh => age <= chain[c].clock
        BY <1>8 DEF IInv, Clocked, OwnClock, At
  <2>3. QED BY <1>5, <1>7, <2>1, <2>2 DEF OwnClock
<1>10. ASSUME Alone(c), chain'[c].fresh, ~uri'
       PROVE  Kept(c)'
  <2>1. ~condemned
        BY <1>5, <1>7, <1>8, <1>10, FreshIsYoung DEF At
  <2>2. QED BY <1>3, <1>5, <1>7, <1>8, <2>1 DEF Kept, At
<1>11. uri' \in BOOLEAN /\ stored' \in {None, "video", "audio"}
       BY <1>8 DEF IInv, TypeOK
<1>12. QED BY <1>1, <1>5, <1>7, <1>8, <1>9, <1>10, <1>11, StepKeeps

\* What an upload is given.
LEMMA HandsOverIs ==
    ASSUME chain \in [Chain -> Ingest], NEW c \in Chain,
           NEW video \in File \cup {None}, NEW sound \in BOOLEAN,
           HandsOver(c, video, sound)
    PROVE  /\ chain' \in [Chain -> Ingest]
           /\ chain'[c].task = "upload" /\ chain'[c].phase = "queued"
           /\ chain'[c].picked = video /\ chain'[c].sound = sound
           /\ chain'[c].waited = 0 /\ chain'[c].fresh = chain[c].fresh
           /\ chain'[c].left = chain[c].left
           /\ \A d \in Chain \ {c} : chain'[d] = chain[d]
<1> DEFINE handed == [chain[c] EXCEPT !.task = "upload", !.phase = "queued",
                                !.picked = video, !.sound = sound,
                                !.retries = 0, !.clock = 0, !.waited = 0]
<1>1. chain[c] \in Ingest
      OBVIOUS
<1>2. /\ handed \in Ingest
      /\ handed.task = "upload" /\ handed.phase = "queued"
      /\ handed.picked = video /\ handed.sound = sound
      /\ handed.waited = 0 /\ handed.fresh = chain[c].fresh
      /\ handed.left = chain[c].left
      BY <1>1, Zero DEF Ingest
<1>3. Becomes(c, handed)
      BY DEF HandsOver
<1> HIDE DEF handed
<1>4. QED BY <1>2, <1>3, BecomesOnly

LEMMA ConvertKeeps ==
    ASSUME IInv, NEW c \in Chain, Convert(c)
    PROVE  IInv'
<1>1. Touched
      BY Touches DEF IInv, TypeOK, StorageOK, Convert
<1>2. /\ chain \in [Chain -> Ingest] /\ chain[c].picked \in File \cup {None}
      BY DEF IInv, TypeOK, Ingest
<1>3. /\ chain[c].task = "download" /\ chain[c].phase = "converting"
      /\ UNCHANGED <<condemned, uri, stored, extractor>>
      BY DEF Convert, At
<1>4. PICK sound \in BOOLEAN :
        /\ HandsOver(c, chain[c].picked, sound)
        /\ IF sound THEN Holds(files \cup {"audio"}) ELSE UNCHANGED storage
      BY DEF Convert
<1>5. /\ chain' \in [Chain -> Ingest]
      /\ chain'[c].task = "upload" /\ chain'[c].phase = "queued"
      /\ chain'[c].picked = chain[c].picked /\ chain'[c].sound = sound
      /\ chain'[c].waited = 0 /\ chain'[c].fresh = chain[c].fresh
      /\ \A d \in Chain \ {c} : chain'[d] = chain[d]
      BY <1>2, <1>4, HandsOverIs
<1>6. OwnClock(c)'
      BY <1>5 DEF OwnClock, At
<1>7. ASSUME Alone(c), chain'[c].fresh, ~uri'
      PROVE  Kept(c)'
  <2>1. /\ age <= chain[c].clock /\ chain[c].clock \in 0..TimeLimit /\ ~condemned
        BY <1>3, <1>5, <1>7, FreshIsYoung DEF At
  <2>2. chain[c].picked \in files
        BY <1>3, <1>5, <1>7 DEF IInv, Lone, Kept, At
  <2>3. files \subseteq files' /\ (sound => "audio" \in files')
        BY <1>4 DEF Holds, storage
  <2>4. age' <= 0 + TimeLimit
    <3>1. age \in Nat /\ age' \in {age, 0}
          BY <1>1 DEF Touched, IInv, TypeOK
    <3>2. QED BY <2>1, <3>1, TimeAssumption
  <2>5. QED BY <1>3, <1>5, <2>1, <2>2, <2>3, <2>4 DEF Kept, At
<1>8. uri' \in BOOLEAN /\ stored' \in {None, "video", "audio"}
      BY <1>3 DEF IInv, TypeOK
<1>9. QED BY <1>1, <1>3, <1>5, <1>6, <1>7, <1>8, StepKeeps

LEMMA DownloadFailsKeeps ==
    ASSUME IInv, NEW c \in Chain, DownloadFails(c)
    PROVE  IInv'
<1>1. CASE Exhausted(c)
  <2>1. PICK left \in BOOLEAN :
                Becomes(c, Over(c, left)) /\ (RemoveDir \/ UNCHANGED storage)
        BY <1>1, WorkedIsBoolean DEF DownloadFails
  <2>2. QED BY <2>1, OverKeeps DEF DownloadFails
<1>2. CASE ~Exhausted(c)
  <2>1. /\ Becomes(c, Retried(c)) /\ chain[c].task = "download"
        /\ \/ UNCHANGED storage
           \/ At(c, "download", {"converting"}) /\ Holds(files \cup {"audio"})
        /\ UNCHANGED <<condemned, uri, stored, extractor>>
        BY <1>2 DEF DownloadFails, At
  <2>2. QED BY <2>1, RetryKeeps
<1>3. QED BY <1>1, <1>2

\* Every step of an upload but its last.
LEMMA MovesKeeps ==
    ASSUME IInv, NEW c \in Chain, chain[c].task = "upload",
           NEW phase \in {"sending", "sounding", "cleaning"}, MovesTo(c, phase),
           UNCHANGED <<storage, condemned, extractor>>,
           uri' \in BOOLEAN, uri => uri', stored' \in {None, "video", "audio"}
    PROVE  IInv'
<1>1. Touched
      BY Touches DEF IInv, TypeOK, StorageOK
<1>2. /\ chain' \in [Chain -> Ingest]
      /\ chain'[c].task = "upload" /\ chain'[c].phase = phase
      /\ chain'[c].picked = chain[c].picked /\ chain'[c].sound = chain[c].sound
      /\ chain'[c].waited = chain[c].waited /\ chain'[c].fresh = chain[c].fresh
      /\ \A d \in Chain \ {c} : chain'[d] = chain[d]
      BY MovesToOnly DEF IInv, TypeOK
<1>3. OwnClock(c)'
      BY <1>2 DEF OwnClock, At
<1>4. ASSUME Alone(c), chain'[c].fresh, ~uri'
      PROVE  Kept(c)'
  <2>1. Kept(c)
        BY <1>2, <1>4 DEF IInv, Lone
  <2>2. QED BY <1>2, <2>1 DEF Kept, At, storage
<1>5. QED BY <1>1, <1>2, <1>3, <1>4, StepKeeps

LEMMA UploadKeeps ==
    ASSUME IInv, NEW c \in Chain, UploadStart(c) \/ SendVideo(c) \/ SendSound(c)
    PROVE  IInv'
<1>1. chain[c].task = "upload" /\ UNCHANGED <<storage, condemned, extractor>>
      BY DEF UploadStart, SendVideo, SendSound, At
<1>2. uri' \in BOOLEAN /\ (uri => uri') /\ stored' \in {None, "video", "audio"}
      BY DEF UploadStart, SendVideo, SendSound, IInv, TypeOK
<1>3. MovesTo(c, "sending") \/ MovesTo(c, "sounding") \/ MovesTo(c, "cleaning")
      BY DEF UploadStart, SendVideo, SendSound
<1>4. QED BY <1>1, <1>2, <1>3, MovesKeeps

LEMMA UploadFailsKeeps ==
    ASSUME IInv, NEW c \in Chain, UploadFails(c)
    PROVE  IInv'
<1>1. CASE Exhausted(c)
  <2>1. /\ Becomes(c, Over(c, FALSE)) /\ RemoveDir
        /\ UNCHANGED <<condemned, uri, stored, extractor>>
        BY <1>1 DEF UploadFails
  <2>2. QED BY <2>1, OverKeeps
<1>2. CASE ~Exhausted(c)
  <2>1. /\ Becomes(c, Retried(c)) /\ chain[c].task = "upload" /\ UNCHANGED storage
        /\ UNCHANGED <<condemned, uri, stored, extractor>>
        BY <1>2 DEF UploadFails, At
  <2>2. QED BY <2>1, RetryKeeps
<1>3. QED BY <1>1, <1>2

LEMMA EndsKeeps ==
    ASSUME IInv, NEW c \in Chain,
           DownloadRejected(c) \/ UploadCleans(c) \/ IngestDies(c)
    PROVE  IInv'
<1>1. PICK left \in BOOLEAN :
            Becomes(c, Over(c, left)) /\ (RemoveDir \/ UNCHANGED storage)
      BY WorkedIsBoolean DEF DownloadRejected, UploadCleans, IngestDies
<1>2. UNCHANGED <<condemned, uri, stored, extractor>>
      BY DEF DownloadRejected, UploadCleans, IngestDies
<1>3. QED BY <1>1, <1>2, OverKeeps

-----------------------------------------------------------------------------
(* The extractors, the cleanup and time.                                   *)

\* An extractor only runs when the video is stored, and nobody waits for the
\* directory any more.
LEMMA ExtractorKeeps ==
    ASSUME IInv, NEW m \in Extractor, uri, UNCHANGED <<condemned, chain, uri, stored>>,
           StorageOK', age' \in {age, 0}, extractor' \in [Extractor -> Run],
           \A n \in Extractor \ {m} : extractor'[n] = extractor[n],
           \A n \in Extractor \ {m} : n \in files' => n \in files,
           extractor'[m].reading => age' <= extractor'[m].clock,
           m \in files' => extractor'[m].reading
    PROVE  IInv'
<1>1. TypeOK'
      BY DEF IInv, TypeOK, StorageOK
<1>2. Clocked'
  <2>1. age \in Nat /\ \A n \in Extractor : extractor[n].clock \in Nat
        BY DEF IInv, TypeOK, Run
  <2>2. \A c \in Chain : chain[c].clock \in Nat
        BY DEF IInv, TypeOK, Ingest
  <2>3. ASSUME NEW n \in Extractor
        PROVE  extractor'[n].reading => age' <= extractor'[n].clock
    <3>1. CASE n = m
          BY <3>1
    <3>2. CASE n # m
          BY <2>1, <3>2 DEF IInv, Clocked
    <3>3. QED BY <3>1, <3>2
  <2>4. ASSUME NEW n \in Extractor PROVE n \in files' => extractor'[n].reading
    <3>1. CASE n = m
          BY <3>1
    <3>2. CASE n # m
          BY <3>2 DEF IInv, Clocked
    <3>3. QED BY <3>1, <3>2
  <2>5. \A c \in Chain : OwnClock(c)'
        BY <2>1, <2>2 DEF IInv, Clocked, OwnClock, At
  <2>6. QED BY <2>3, <2>4, <2>5 DEF Clocked
<1>3. Unread' /\ Undispatched'
      BY DEF IInv, Unread, Undispatched
<1>4. \A c \in Chain : Lone(c)'
      BY DEF Lone
<1>5. QED BY <1>1, <1>2, <1>3, <1>4 DEF IInv

LEMMA ExtractorFetchesKeeps ==
    ASSUME IInv, NEW m \in Extractor, ExtractorFetches(m)
    PROVE  IInv'
<1>1. /\ uri /\ ~extractor[m].reading /\ Holds(files \cup {m})
      /\ UNCHANGED <<condemned, chain, uri, stored>>
      BY DEF ExtractorFetches
<1>2. m \notin files
      BY <1>1 DEF IInv, Clocked
<1>3. present' = TRUE /\ files' = files \cup {m} /\ age' = 0
      BY <1>1, <1>2 DEF Holds
<1>4. StorageOK'
  <2>1. files' \in SUBSET File
        BY <1>3 DEF IInv, TypeOK, File
  <2>2. age' \in 0..(MaxAge + 1)
        BY <1>3, TimeAssumption
  <2>3. QED BY <1>3, <2>1, <2>2 DEF StorageOK
<1> DEFINE run == [reading |-> TRUE, clock |-> 0, left |-> extractor[m].left - 1]
<1>5. extractor \in [Extractor -> Run] /\ extractor[m].left \in 0..ExtractorRuns
      BY DEF IInv, TypeOK, Run
<1>6. run \in Run
  <2>1. extractor[m].left - 1 \in 0..ExtractorRuns
        BY <1>5, RetriesAssumption DEF ExtractorFetches
  <2>2. QED BY <2>1, Zero DEF Run
<1>7. extractor' = [extractor EXCEPT ![m] = run]
      BY <1>5 DEF ExtractorFetches
<1>8. run.reading /\ run.clock = 0
      OBVIOUS
<1> HIDE DEF run
<1>9. /\ extractor' \in [Extractor -> Run] /\ extractor'[m] = run
      /\ \A n \in Extractor \ {m} : extractor'[n] = extractor[n]
      BY <1>5, <1>6, <1>7
<1>10. QED BY <1>1, <1>3, <1>4, <1>8, <1>9, ExtractorKeeps

LEMMA ExtractorEndsKeeps ==
    ASSUME IInv, NEW m \in Extractor, ExtractorEnds(m) \/ ExtractorDies(m)
    PROVE  IInv'
<1>1. extractor[m].reading /\ UNCHANGED <<condemned, chain, uri, stored>>
      BY DEF ExtractorEnds, ExtractorDies
<1>2. uri
      BY <1>1 DEF IInv, Unread
<1>3. /\ StorageOK' /\ age' \in {age, 0} /\ m \notin files'
      /\ \A n \in Extractor \ {m} : n \in files' => n \in files
  <2> USE DEF IInv, TypeOK, StorageOK
  <2>1. CASE ExtractorEnds(m)
    <3>1. 0 \in 0..(MaxAge + 1)
          BY TimeAssumption
    <3>2. CASE m \in files
          BY <2>1, <3>1, <3>2 DEF ExtractorEnds, Holds
    <3>3. CASE m \notin files
          BY <2>1, <3>3 DEF ExtractorEnds, storage
    <3>4. QED BY <3>2, <3>3
  <2>2. CASE ExtractorDies(m)
        BY <2>2, NamesAssumption DEF ExtractorDies, IInv, TypeOK, StorageOK, File
  <2>3. QED BY <2>1, <2>2
<1>4. /\ extractor' \in [Extractor -> Run]
      /\ ~extractor'[m].reading
      /\ \A n \in Extractor \ {m} : extractor'[n] = extractor[n]
  <2>1. extractor \in [Extractor -> Run]
        BY DEF IInv, TypeOK
  <2>2. extractor' = [extractor EXCEPT ![m].reading = FALSE]
        BY DEF ExtractorEnds, ExtractorDies
  <2>3. QED BY <2>1, <2>2 DEF Run
<1>5. QED BY <1>1, <1>2, <1>3, <1>4, ExtractorKeeps

LEMMA SweepKeeps ==
    ASSUME IInv, Sweep
    PROVE  IInv'
<1>1. UNCHANGED <<chain, uri, stored, extractor>>
      BY DEF Sweep, SweepLooks, SweepRemoves
<1>2. StorageOK' /\ condemned' \in BOOLEAN /\ age' \in {age, 0} /\ files' \subseteq files
  <2> USE DEF IInv, TypeOK, StorageOK
  <2>1. CASE SweepLooks
        BY <2>1 DEF SweepLooks, storage
  <2>2. CASE SweepRemoves
    <3>1. 0 \in 0..(MaxAge + 1)
          BY TimeAssumption
    <3>2. QED BY <2>2, <3>1 DEF SweepRemoves, RemoveDir
  <2>3. QED BY <2>1, <2>2 DEF Sweep
<1>3. TypeOK'
      BY <1>1, <1>2 DEF IInv, TypeOK, StorageOK
<1>4. Clocked'
  <2>1. age \in Nat /\ \A n \in Extractor : extractor[n].clock \in Nat
    <3>1. \A n \in Extractor : extractor[n] \in Run
          BY DEF IInv, TypeOK
    <3>2. age \in Nat
          BY DEF IInv, TypeOK
    <3>3. QED BY <3>1, <3>2 DEF Run
  <2>2. \A c \in Chain : chain[c].clock \in Nat
        BY ClocksAreNumbers
  <2>3. QED BY <1>1, <1>2, <2>1, <2>2 DEF IInv, Clocked, OwnClock, At
<1>5. Unread' /\ Undispatched'
      BY <1>1 DEF IInv, Unread, Undispatched
<1>6. ASSUME NEW c \in Chain, Alone(c), chain[c].fresh, ~uri
      PROVE  Kept(c)'
  <2>1. Kept(c)
        BY <1>6 DEF IInv, Lone
  <2>2. CASE SweepLooks
        BY <1>1, <2>1, <2>2 DEF SweepLooks, Kept, At, storage
  <2>3. CASE SweepRemoves
    <3>1. condemned /\ condemned' = FALSE /\ present' = FALSE
          BY <2>3 DEF SweepRemoves, RemoveDir
    <3>2. ~At(c, "download", {"converting"})
          BY <1>6, <3>1, FreshIsYoung DEF At
    <3>3. ~(chain[c].task = "upload" /\ chain[c].waited + TimeLimit <= MaxAge)
      <4>1. chain[c].waited \in Nat /\ age \in Nat
            BY DEF IInv, TypeOK, Ingest
      <4>2. chain[c].task = "upload" => age > MaxAge
            BY <2>1, <3>1 DEF Kept
      <4>3. QED BY <2>1, <4>1, <4>2, TimeAssumption DEF Kept
    <3>4. QED BY <1>1, <3>1, <3>2, <3>3 DEF Kept, At
  <2>4. QED BY <2>2, <2>3 DEF Sweep
<1>7. \A c \in Chain : Lone(c)'
      BY <1>1, <1>6 DEF Lone, Alone
<1>8. QED BY <1>3, <1>4, <1>5, <1>7 DEF IInv

\* A unit of time.
LEMMA TickKeeps ==
    ASSUME IInv, Tick
    PROVE  IInv'
<1>1. UNCHANGED <<present, files, condemned, uri, stored>>
      BY DEF Tick
<1>2. age \in 0..(MaxAge + 1) /\ present \in BOOLEAN
      BY DEF IInv, TypeOK
<1>3. age' \in 0..(MaxAge + 1) /\ age <= age' /\ age' <= age + 1
  <2>1. age' = age \/ (age < MaxAge + 1 /\ age' = age + 1)
        BY DEF Tick, Capped
  <2>2. QED BY <1>2, <2>1, TimeAssumption
<1>4. ASSUME NEW c \in Chain
      PROVE  /\ chain'[c] \in Ingest
             /\ chain'[c].task = chain[c].task /\ chain'[c].phase = chain[c].phase
             /\ chain'[c].fresh = chain[c].fresh /\ chain'[c].picked = chain[c].picked
             /\ chain'[c].sound = chain[c].sound
             /\ Running(c) => chain'[c].clock = chain[c].clock + 1
             /\ chain[c].task = "upload" => chain'[c].waited = Capped(chain[c].waited, MaxAge)
  <2> DEFINE clock == IF Running(c) THEN chain[c].clock + 1 ELSE chain[c].clock
             waited == IF chain[c].task = "upload" THEN Capped(chain[c].waited, MaxAge)
                       ELSE chain[c].waited
  <2>1. chain[c] \in Ingest
        BY DEF IInv, TypeOK
  <2>2. chain'[c] = [chain[c] EXCEPT !.clock = clock, !.waited = waited]
        BY <2>1 DEF Tick, Ingest
  <2>3. clock \in 0..TimeLimit
    <3>1. chain[c].clock \in 0..TimeLimit /\ (Running(c) => chain[c].clock < TimeLimit)
          BY <2>1 DEF Tick, Ingest
    <3>2. QED BY <3>1, TimeAssumption
  <2>4. waited \in 0..MaxAge
    <3>1. chain[c].waited \in 0..MaxAge
          BY <2>1 DEF Ingest
    <3>2. QED BY <3>1, TimeAssumption DEF Capped
  <2>5. /\ Running(c) => clock = chain[c].clock + 1
        /\ chain[c].task = "upload" => waited = Capped(chain[c].waited, MaxAge)
        OBVIOUS
  <2> HIDE DEF clock, waited
  <2>6. QED BY <2>1, <2>2, <2>3, <2>4, <2>5 DEF Ingest
<1>5. chain' \in [Chain -> Ingest]
  <2>1. chain' = [c \in Chain |-> chain'[c]]
        BY DEF Tick
  <2>2. QED BY <1>4, <2>1
<1>6. ASSUME NEW m \in Extractor
      PROVE  /\ extractor'[m] \in Run /\ extractor'[m].reading = extractor[m].reading
             /\ extractor[m].reading => extractor'[m].clock = extractor[m].clock + 1
  <2> DEFINE clock == IF extractor[m].reading THEN extractor[m].clock + 1
                      ELSE extractor[m].clock
  <2>1. extractor[m] \in Run
        BY DEF IInv, TypeOK
  <2>2. extractor'[m] = [extractor[m] EXCEPT !.clock = clock]
        BY <2>1 DEF Tick, Run
  <2>3. clock \in 0..TimeLimit
    <3>1. /\ extractor[m].clock \in 0..TimeLimit
          /\ extractor[m].reading => extractor[m].clock < TimeLimit
          BY <2>1 DEF Tick, Run
    <3>2. QED BY <3>1, TimeAssumption
  <2>4. extractor[m].reading => clock = extractor[m].clock + 1
        OBVIOUS
  <2> HIDE DEF clock
  <2>5. QED BY <2>1, <2>2, <2>3, <2>4 DEF Run
<1>7. extractor' \in [Extractor -> Run]
  <2>1. extractor' = [m \in Extractor |-> extractor'[m]]
        BY DEF Tick
  <2>2. QED BY <1>6, <2>1
<1>8. TypeOK'
      BY <1>1, <1>3, <1>5, <1>7 DEF IInv, TypeOK
<1>9. Clocked'
  <2>1. ASSUME NEW m \in Extractor, extractor'[m].reading
        PROVE  age' <= extractor'[m].clock
    <3>1. age <= extractor[m].clock /\ extractor[m].clock \in Nat
          BY <1>6, <2>1 DEF IInv, Clocked, TypeOK, Run
    <3>2. extractor'[m].clock = extractor[m].clock + 1
          BY <1>6, <2>1
    <3>3. QED BY <1>2, <1>3, <3>1, <3>2
  <2>2. \A m \in Extractor : m \in files' => extractor'[m].reading
        BY <1>1, <1>6 DEF IInv, Clocked
  <2>3. ASSUME NEW c \in Chain, chain'[c].fresh,
               chain'[c].task = "download", chain'[c].phase \in {"fetching", "converting"}
        PROVE  age' <= chain'[c].clock
    <3>1. age <= chain[c].clock /\ chain[c].clock \in Nat
          BY <1>4, <2>3 DEF IInv, Clocked, OwnClock, At, TypeOK, Ingest
    <3>2. chain'[c].clock = chain[c].clock + 1
          BY <1>4, <2>3 DEF Running
    <3>3. QED BY <1>2, <1>3, <3>1, <3>2
  <2>4. QED BY <2>1, <2>2, <2>3 DEF Clocked, OwnClock, At
<1>10. Unread' /\ Undispatched'
       BY <1>1, <1>4, <1>6 DEF IInv, Unread, Undispatched
<1>11. ASSUME NEW c \in Chain, Alone(c), chain[c].fresh, ~uri
       PROVE  Kept(c)'
  <2>1. Kept(c)
        BY <1>11 DEF IInv, Lone
  <2>2. chain'[c].task = "none" => ~present' /\ ~condemned'
        BY <1>1, <1>4, <2>1 DEF Kept
  <2>3. condemned' /\ chain'[c].task # "over" => present' /\ age' > MaxAge
    <3>1. condemned /\ chain[c].task # "over" => present /\ age > MaxAge
          BY <2>1 DEF Kept
    <3>2. age > MaxAge => age' > MaxAge
          BY <1>2, <1>3, TimeAssumption
    <3>3. QED BY <1>1, <1>4, <3>1, <3>2
  <2>4. At(c, "download", {"converting"})' => chain'[c].picked \in files'
        BY <1>1, <1>4, <2>1 DEF Kept, At
  <2>5. ASSUME chain'[c].task = "upload", chain'[c].waited + TimeLimit <= MaxAge
        PROVE  /\ age' <= chain'[c].waited + TimeLimit
               /\ chain'[c].picked \in files'
               /\ chain'[c].sound => "audio" \in files'
    <3>1. chain[c].task = "upload" /\ chain[c].waited \in 0..MaxAge
          BY <1>4, <2>5 DEF IInv, TypeOK, Ingest
    <3>2. chain'[c].waited = Capped(chain[c].waited, MaxAge)
          BY <1>4, <3>1
    <3>3. chain[c].waited < MaxAge /\ chain'[c].waited = chain[c].waited + 1
          BY <2>5, <3>1, <3>2, TimeAssumption DEF Capped
    <3>4. chain[c].waited + TimeLimit <= MaxAge
          BY <2>5, <3>1, <3>3, TimeAssumption
    <3>5. /\ age <= chain[c].waited + TimeLimit
          /\ chain[c].picked \in files /\ (chain[c].sound => "audio" \in files)
          BY <2>1, <3>1, <3>4 DEF Kept
    <3>6. age' <= chain'[c].waited + TimeLimit
          BY <1>2, <1>3, <3>1, <3>3, <3>5, TimeAssumption
    <3>7. QED BY <1>1, <1>4, <3>5, <3>6
  <2>6. QED BY <2>2, <2>3, <2>4, <2>5 DEF Kept
<1>12. \A c \in Chain : Lone(c)'
       BY <1>1, <1>4, <1>11 DEF Lone, Alone
<1>13. QED BY <1>8, <1>9, <1>10, <1>12 DEF IInv

LEMMA NextPreserves == IInv /\ [Next]_vars => IInv'
<1> SUFFICES ASSUME IInv, [Next]_vars PROVE IInv'
    OBVIOUS
<1>1. ASSUME NEW c \in Chain, Dispatch(c) \/ Ingests(c) PROVE IInv'
      BY <1>1, DispatchKeeps, DownloadStartKeeps, FetchKeeps, ConvertKeeps,
         DownloadFailsKeeps, UploadKeeps, UploadFailsKeeps, EndsKeeps DEF Ingests
<1>2. ASSUME NEW m \in Extractor,
             ExtractorFetches(m) \/ ExtractorEnds(m) \/ ExtractorDies(m)
      PROVE  IInv'
      BY <1>2, ExtractorFetchesKeeps, ExtractorEndsKeeps
<1>3. CASE Sweep
      BY <1>3, SweepKeeps
<1>4. CASE Tick
      BY <1>4, TickKeeps
<1>5. CASE UNCHANGED vars
      BY <1>5 DEF vars, storage, IInv, TypeOK, Clocked, OwnClock, At, Unread,
                  Undispatched, Lone, Alone, Kept
<1>6. QED BY <1>1, <1>2, <1>3, <1>4, <1>5 DEF Next

LEMMA InvariantHolds == Spec => []IInv
BY InitEstablishes, NextPreserves, PTL DEF Spec

-----------------------------------------------------------------------------
(* Theorems.                                                               *)

\* The bookkeeping of directory, chains and clocks is well typed: no task
\* outlives its time limit and no run of an extractor is started beyond its
\* bound.
THEOREM TypeCorrect == Spec => []TypeOK
<1>1. IInv => TypeOK
      BY DEF IInv
<1>2. QED BY <1>1, InvariantHolds, PTL

\* The cleanup takes a directory from no extractor and no first download,
\* for any two limits of which the time limit is the lower one.
THEOREM ExpiredIdles == Spec => []ExpiredIsIdle
<1>1. IInv => ExpiredIsIdle
  <2> SUFFICES ASSUME IInv, present, age > MaxAge
               PROVE  /\ \A m \in Extractor : ~extractor[m].reading
                      /\ \A c \in Chain : chain[c].fresh =>
                            ~At(c, "download", {"fetching", "converting"})
      BY DEF ExpiredIsIdle
  <2>1. age \in Nat
        BY DEF IInv, TypeOK
  <2>2. ASSUME NEW m \in Extractor, extractor[m].reading PROVE FALSE
    <3>1. age <= extractor[m].clock /\ extractor[m].clock \in 0..TimeLimit
          BY <2>2 DEF IInv, Clocked, TypeOK, Run
    <3>2. QED BY <2>1, <3>1, TimeAssumption
  <2>3. ASSUME NEW c \in Chain, chain[c].fresh,
               At(c, "download", {"fetching", "converting"})
        PROVE  FALSE
    <3>1. age <= chain[c].clock /\ chain[c].clock \in 0..TimeLimit
          BY <2>3 DEF IInv, Clocked, OwnClock, TypeOK, Ingest
    <3>2. QED BY <2>1, <3>1, TimeAssumption
  <2>4. QED BY <2>2, <2>3
<1>2. QED BY <1>1, InvariantHolds, PTL

\* The upload of a first download finds its files for as long as the age
\* limit exceeds the time limit, whatever fails and is repeated.
THEOREM UploadKept == Spec => []UploadWindow
<1>1. IInv => UploadWindow
      BY DEF IInv, Lone, Kept, UploadWindow, At
<1>2. QED BY <1>1, InvariantHolds, PTL

-----------------------------------------------------------------------------
(* The video is stored: two first downloads do not meet in one directory.  *)

Dispatched(c) == chain[c].task # "none"

\* At most two chains: the job and one retry by its user.
Few ==
    \A c, d, e \in Chain :
        Dispatched(c) /\ Dispatched(d) /\ Dispatched(e) => c = d \/ d = e \/ c = e

AllFresh == \A c \in Chain : chain[c].fresh

Working(c) == At(c, "download", {"fetching", "converting"})

\* While a first download works, the other one waits, and the directory is
\* not removed under it.
Separate ==
    \A c, d \in Chain : c # d /\ Working(c) /\ chain[d].task = "download" =>
        ~Working(d) /\ present /\ ~condemned

\* The cleanup that removes late has been overtaken by a chain that is over.
CondemnedExists == condemned /\ (\A c \in Chain : chain[c].task # "over") => present

\* Nothing but the video is in the directory when the video is picked.
NoSound ==
    /\ \A c \in Chain : At(c, "download", {"fetching"}) => "audio" \notin files
    /\ \A c \in Chain : chain[c].picked # "audio"
    /\ stored # "audio"

GoneIsEmpty == ~present => files = {}

VInv == GoneIsEmpty /\ (AllFresh /\ Few => Separate /\ CondemnedExists /\ NoSound)

\* What is few and fresh after a step was so before it.
LEMMA Before ==
    ASSUME NEW c \in Chain, chain'[c].task # "none",
           chain'[c].fresh => chain[c].fresh,
           \A d \in Chain \ {c} : chain'[d] = chain[d],
           AllFresh', Few'
    PROVE  AllFresh /\ Few
<1>1. ASSUME NEW d \in Chain PROVE chain[d].fresh /\ (Dispatched(d) => Dispatched(d)')
      BY DEF AllFresh, Dispatched
<1>2. QED BY Zenon, <1>1 DEF AllFresh, Few

\* A step of a chain that has begun, but the one that begins its work: it
\* removes the directory only at its end, and adds the sound track only when
\* it has picked the video.
LEMMA GoesOn ==
    ASSUME VInv, NEW c \in Chain, chain[c].task \in {"download", "upload"},
           \A d \in Chain \ {c} : chain'[d] = chain[d],
           chain'[c].task # "none", chain'[c].fresh = chain[c].fresh,
           chain'[c].task = "download" => chain[c].task = "download",
           Working(c)' => Working(c), ~At(c, "download", {"fetching"})',
           condemned' = condemned, present => present' \/ chain'[c].task = "over",
           GoneIsEmpty',
           "audio" \in files' => "audio" \in files \/ Working(c),
           AllFresh /\ Few /\ NoSound => chain'[c].picked # "audio" /\ stored' # "audio"
    PROVE  VInv'
<1> SUFFICES ASSUME AllFresh', Few' PROVE (Separate /\ CondemnedExists /\ NoSound)'
    BY DEF VInv
<1>1. AllFresh /\ Few
      BY Before
<1>2. Separate /\ CondemnedExists /\ NoSound
      BY <1>1 DEF VInv
<1>3. Separate'
  <2> SUFFICES ASSUME NEW x \in Chain, NEW y \in Chain, x # y, Working(x)',
                      chain'[y].task = "download"
               PROVE  ~Working(y)' /\ present' /\ ~condemned'
      BY DEF Separate
  <2>1. Working(x) /\ chain[y].task = "download" /\ (Working(y)' => Working(y))
        BY DEF Working, At
  <2>2. ~Working(y) /\ present /\ ~condemned
        BY <1>2, <2>1 DEF Separate
  <2>3. chain'[c].task # "over"
    <3>1. SUFFICES ASSUME chain'[c].task = "over" PROVE FALSE
          OBVIOUS
    <3>2. chain'[x].task = "download"
          BY DEF Working, At
    <3>3. c # x /\ c # y /\ Dispatched(c)' /\ Dispatched(x)' /\ Dispatched(y)'
          BY <3>1, <3>2 DEF Dispatched
    <3>4. QED BY <3>3 DEF Few
  <2>4. QED BY <2>1, <2>2, <2>3
<1>4. CondemnedExists'
  <2> SUFFICES ASSUME condemned', \A d \in Chain : chain'[d].task # "over"
               PROVE  present'
      BY DEF CondemnedExists
  <2>1. \A d \in Chain : chain[d].task # "over"
        OBVIOUS
  <2>2. QED BY <1>2, <2>1 DEF CondemnedExists
<1>5. NoSound'
  <2>1. ASSUME NEW d \in Chain, At(d, "download", {"fetching"})'
        PROVE  "audio" \notin files'
    <3>1. d # c /\ At(d, "download", {"fetching"})
          BY <2>1 DEF At
    <3>2. chain[d].task = "download" /\ Working(d)
          BY <3>1 DEF Working, At
    <3>3. ~Working(c)
          BY <1>2, <3>1, <3>2 DEF Separate
    <3>4. QED BY <1>2, <3>1, <3>3 DEF NoSound
  <2>2. ASSUME NEW d \in Chain PROVE chain'[d].picked # "audio"
        BY <1>1, <1>2 DEF NoSound
  <2>3. stored' # "audio"
        BY <1>1, <1>2
  <2>4. QED BY <2>1, <2>2, <2>3 DEF NoSound
<1>6. QED BY <1>3, <1>4, <1>5

\* The same for the steps of the others.
LEMMA ChainsStand ==
    ASSUME VInv, IInv,
           \A d \in Chain : /\ chain'[d].task = chain[d].task
                            /\ chain'[d].phase = chain[d].phase
                            /\ chain'[d].fresh = chain[d].fresh
                            /\ chain'[d].picked = chain[d].picked,
           stored' = stored, "audio" \in files' => "audio" \in files, GoneIsEmpty',
           \/ condemned' = condemned /\ (present => present')
           \/ condemned /\ ~condemned'
           \/ condemned' /\ present /\ present' /\ age > MaxAge
    PROVE  VInv'
<1> SUFFICES ASSUME AllFresh', Few' PROVE (Separate /\ CondemnedExists /\ NoSound)'
    BY DEF VInv
<1>1. AllFresh /\ Few
      BY DEF AllFresh, Few, Dispatched
<1>2. Separate /\ CondemnedExists /\ NoSound
      BY <1>1 DEF VInv
<1>3. Separate'
  <2> SUFFICES ASSUME NEW x \in Chain, NEW y \in Chain, x # y, Working(x)',
                      chain'[y].task = "download"
               PROVE  ~Working(y)' /\ present' /\ ~condemned'
      BY DEF Separate
  <2>1. Working(x) /\ chain[y].task = "download" /\ (Working(y)' => Working(y))
        BY DEF Working, At
  <2>2. ~Working(y) /\ present /\ ~condemned
        BY <1>2, <2>1 DEF Separate
  <2>3. age <= MaxAge
    <3>1. age <= chain[x].clock
          BY <1>1, <2>1 DEF IInv, Clocked, OwnClock, Working, AllFresh
    <3>2. chain[x] \in Ingest /\ age \in Nat
          BY DEF IInv, TypeOK
    <3>3. chain[x].clock \in 0..TimeLimit
          BY <3>2 DEF Ingest
    <3>4. QED BY <3>1, <3>2, <3>3, TimeAssumption
  <2>4. ~(age > MaxAge)
        BY <2>3, TimeAssumption DEF IInv, TypeOK
  <2>5. QED BY <2>1, <2>2, <2>4
<1>4. CondemnedExists'
      BY <1>2 DEF CondemnedExists
<1>5. NoSound'
      BY <1>2 DEF NoSound, At
<1>6. QED BY <1>3, <1>4, <1>5

\* A chain that is over, whether it removes the directory or not.
LEMMA OverGoesOn ==
    ASSUME VInv, IInv, NEW c \in Chain, chain[c].task \in {"download", "upload"},
           NEW left \in BOOLEAN, Becomes(c, Over(c, left)),
           MakeDir \/ RemoveDir \/ UNCHANGED storage,
           UNCHANGED <<condemned, stored>>
    PROVE  VInv'
<1>1. chain \in [Chain -> Ingest] /\ None # "audio"
      BY NamesAssumption DEF IInv, TypeOK, File
<1>2. /\ Over(c, left).task = "over" /\ Over(c, left).picked = None
      /\ Over(c, left).fresh = chain[c].fresh /\ Over(c, left) \in Ingest
      BY <1>1, OverIs
<1>3. /\ chain'[c] = Over(c, left)
      /\ \A d \in Chain \ {c} : chain'[d] = chain[d]
      BY <1>1, <1>2, BecomesOnly
<1>4. GoneIsEmpty' /\ ("audio" \in files' => "audio" \in files)
      BY DEF VInv, GoneIsEmpty, MakeDir, RemoveDir, storage
<1>5. QED BY <1>1, <1>2, <1>3, <1>4, GoesOn DEF NoSound, Working, At

\* A task that Celery repeats keeps what it has picked.
LEMMA RetryGoesOn ==
    ASSUME VInv, IInv, NEW c \in Chain, chain[c].task \in {"download", "upload"},
           Becomes(c, Retried(c)),
           \/ UNCHANGED storage
           \/ Working(c) /\ Holds(files \cup {"audio"}),
           UNCHANGED <<condemned, stored>>
    PROVE  VInv'
<1>1. chain \in [Chain -> Ingest]
      BY DEF IInv, TypeOK
<1>2. /\ Retried(c) \in Ingest /\ Retried(c).phase = "queued"
      /\ Retried(c).task = chain[c].task /\ Retried(c).fresh = chain[c].fresh
      /\ Retried(c).picked = chain[c].picked
      BY <1>1, RetriedIs
<1>3. /\ chain'[c] = Retried(c)
      /\ \A d \in Chain \ {c} : chain'[d] = chain[d]
      BY <1>1, <1>2, BecomesOnly
<1>4. /\ GoneIsEmpty' /\ (present => present')
      /\ "audio" \in files' => "audio" \in files \/ Working(c)
      BY DEF VInv, GoneIsEmpty, Holds, storage
<1>5. QED BY <1>2, <1>3, <1>4, GoesOn DEF NoSound, Working, At

LEMMA DispatchGoesOn ==
    ASSUME VInv, IInv, NEW c \in Chain, Dispatch(c)
    PROVE  VInv'
<1> DEFINE queued == [Idle EXCEPT !.task = "download", !.phase = "queued"]
<1>1. chain \in [Chain -> Ingest] /\ None # "audio"
      BY NamesAssumption DEF IInv, TypeOK, File
<1>2. /\ queued \in Ingest /\ queued.task = "download" /\ queued.phase = "queued"
      /\ queued.picked = None
      BY IdleIsIngest DEF Idle
<1>3. Becomes(c, queued)
      BY DEF Dispatch
<1> HIDE DEF queued
<1>4. /\ chain'[c] = queued /\ \A d \in Chain \ {c} : chain'[d] = chain[d]
      BY <1>1, <1>2, <1>3, BecomesOnly
<1>5. /\ chain[c].task = "none" /\ chain[c].fresh
      /\ UNCHANGED <<present, files, age, condemned, uri, stored, extractor>>
      BY DEF IInv, Undispatched, Dispatch, storage
<1>6. GoneIsEmpty'
      BY <1>5 DEF VInv, GoneIsEmpty
<1> SUFFICES ASSUME AllFresh', Few' PROVE (Separate /\ CondemnedExists /\ NoSound)'
    BY <1>6 DEF VInv
<1>7. Separate /\ CondemnedExists /\ NoSound
  <2>1. AllFresh /\ Few
        BY <1>2, <1>4, <1>5, Before
  <2>2. QED BY <2>1 DEF VInv
<1>8. \A d \in Chain : ~Working(d)'
  <2>1. ~Working(c)'
        BY <1>2, <1>4 DEF Working, At
  <2>2. ASSUME NEW d \in Chain \ {c} PROVE ~Working(d)'
        BY <1>4 DEF Dispatch, Working, At
  <2>3. QED BY <2>1, <2>2
<1>9. Separate'
      BY <1>8 DEF Separate
<1>10. CondemnedExists'
  <2>1. (\A d \in Chain : chain'[d].task # "over") => \A d \in Chain : chain[d].task # "over"
        BY <1>4, <1>5
  <2>2. QED BY <1>5, <1>7, <2>1 DEF CondemnedExists
<1>11. NoSound'
  <2>1. \A d \in Chain : At(d, "download", {"fetching"})' => At(d, "download", {"fetching"})
        BY <1>2, <1>4 DEF At
  <2>2. QED BY <1>1, <1>2, <1>4, <1>5, <1>7, <2>1 DEF NoSound
<1>12. QED BY <1>9, <1>10, <1>11

\* A first download begins its work in a directory of its own: nobody works
\* in it, and no cleanup is under way if there is another chain.
LEMMA StartGoesOn ==
    ASSUME VInv, IInv, NEW c \in Chain, DownloadStart(c)
    PROVE  VInv'
<1>1. /\ chain[c].task = "download" /\ chain[c].phase = "queued"
      /\ UNCHANGED <<condemned, uri, stored, extractor>>
      BY DEF DownloadStart, At
<1>2. CASE Becomes(c, Over(c, Worked(c))) /\ UNCHANGED storage
      BY <1>1, <1>2, WorkedIsBoolean, OverGoesOn
<1> DEFINE started == [chain[c] EXCEPT !.phase = "fetching", !.clock = 0,
                                       !.fresh = @ /\ ~present]
<1>3. CASE MakeDir /\ Becomes(c, started)
  <2>1. chain \in [Chain -> Ingest] /\ chain[c] \in Ingest /\ present \in BOOLEAN
        BY DEF IInv, TypeOK
  <2>2. chain' = [chain EXCEPT ![c] = started]
        BY <1>3 DEF Becomes
  <2>3. /\ started.task = "download" /\ started.phase = "fetching"
        /\ started.picked = chain[c].picked
        /\ started.fresh => chain[c].fresh /\ ~present
        BY <1>1, <2>1 DEF Ingest
  <2> HIDE DEF started
  <2>4. chain'[c] = started /\ \A d \in Chain \ {c} : chain'[d] = chain[d]
        BY <2>1, <2>2
  <2>5. present' = TRUE /\ files' = files
        BY <1>3 DEF MakeDir
  <2>6. GoneIsEmpty'
        BY <2>5 DEF GoneIsEmpty
  <2> SUFFICES ASSUME AllFresh', Few' PROVE (Separate /\ CondemnedExists /\ NoSound)'
      BY <2>6 DEF VInv
  <2>7. /\ Separate /\ CondemnedExists /\ NoSound /\ ~present /\ files = {}
    <3>1. AllFresh /\ Few
          BY <2>3, <2>4, Before
    <3>2. ~present
          BY <2>3, <2>4 DEF AllFresh
    <3>3. QED BY <3>1, <3>2 DEF VInv, GoneIsEmpty
  <2>8. Separate'
    <3> SUFFICES ASSUME NEW x \in Chain, NEW y \in Chain, x # y, Working(x)',
                        chain'[y].task = "download"
                 PROVE  ~Working(y)' /\ present' /\ ~condemned'
        BY DEF Separate
    <3>1. CASE x = c
      <4>1. chain[y].task = "download" /\ y # c /\ chain'[y] = chain[y]
            BY <2>4, <3>1
      <4>2. ~Working(y)
            BY <1>1, <2>7, <4>1 DEF Separate
      <4>3. ~Working(y)'
            BY <4>1, <4>2 DEF Working, At
      <4>4. \A d \in Chain : chain[d].task # "over"
        <5>1. SUFFICES ASSUME NEW d \in Chain, chain[d].task = "over" PROVE FALSE
              OBVIOUS
        <5>2. d # c /\ d # y /\ c # y /\ Dispatched(d)' /\ Dispatched(c)' /\ Dispatched(y)'
              BY <1>1, <2>3, <2>4, <4>1, <5>1 DEF Dispatched
        <5>3. QED BY <5>2 DEF Few
      <4>5. ~condemned
            BY <2>7, <4>4 DEF CondemnedExists
      <4>6. QED BY <1>1, <2>5, <4>3, <4>5
    <3>2. CASE x # c
      <4>1. Working(x)
            BY <2>4, <3>2 DEF Working, At
      <4>2. x # c /\ chain[c].task = "download"
            BY <1>1, <3>2
      <4>3. QED BY <2>7, <4>1, <4>2 DEF Separate
    <3>3. QED BY <3>1, <3>2
  <2>9. CondemnedExists'
        BY <2>5 DEF CondemnedExists
  <2>10. NoSound'
        BY <1>1, <2>3, <2>4, <2>5, <2>7 DEF NoSound
  <2>11. QED BY <2>8, <2>9, <2>10
<1>4. QED BY <1>2, <1>3 DEF DownloadStart

\* The first entry of the directory is the video, or the copy of an extractor.
LEMMA FetchGoesOn ==
    ASSUME VInv, IInv, NEW c \in Chain, Fetch(c)
    PROVE  VInv'
<1>1. PICK f \in files \cup {"video"} :
            Becomes(c, [chain[c] EXCEPT !.phase = "converting", !.picked = f])
      BY DEF Fetch
<1> DEFINE fetched == [chain[c] EXCEPT !.phase = "converting", !.picked = f]
<1>2. chain \in [Chain -> Ingest] /\ chain[c] \in Ingest
      BY DEF IInv, TypeOK
<1>3. /\ At(c, "download", {"fetching"}) /\ Working(c) /\ chain[c].task = "download"
      /\ UNCHANGED <<condemned, stored>>
      BY DEF Fetch, Working, At
<1>4. /\ fetched.task = chain[c].task /\ fetched.phase = "converting"
      /\ fetched.fresh = chain[c].fresh /\ fetched.picked = f
      BY <1>2 DEF Ingest
<1>5. chain' = [chain EXCEPT ![c] = fetched]
      BY <1>1 DEF Becomes
<1> HIDE DEF fetched
<1>6. chain'[c] = fetched /\ \A d \in Chain \ {c} : chain'[d] = chain[d]
      BY <1>2, <1>5
<1>7. present' = TRUE /\ files' = files \cup {"video"}
      BY DEF Fetch, Holds
<1>8. NoSound => f # "audio"
      BY <1>3 DEF NoSound
<1>9. GoneIsEmpty' /\ ~At(c, "download", {"fetching"})'
      BY <1>4, <1>6, <1>7 DEF GoneIsEmpty, At
<1>10. NoSound => chain'[c].picked # "audio" /\ stored' # "audio"
      BY <1>3, <1>4, <1>6, <1>8 DEF NoSound
<1>11. QED BY <1>3, <1>4, <1>6, <1>7, <1>9, <1>10, GoesOn

LEMMA ConvertGoesOn ==
    ASSUME VInv, IInv, NEW c \in Chain, Convert(c)
    PROVE  VInv'
<1>1. chain \in [Chain -> Ingest] /\ chain[c].picked \in File \cup {None}
      BY DEF IInv, TypeOK, Ingest
<1>2. /\ Working(c) /\ chain[c].task = "download" /\ UNCHANGED <<condemned, stored>>
      BY DEF Convert, Working, At
<1>3. PICK sound \in BOOLEAN :
        /\ HandsOver(c, chain[c].picked, sound)
        /\ IF sound THEN Holds(files \cup {"audio"}) ELSE UNCHANGED storage
      BY DEF Convert
<1>4. /\ chain'[c].task = "upload" /\ chain'[c].phase = "queued"
      /\ chain'[c].picked = chain[c].picked /\ chain'[c].fresh = chain[c].fresh
      /\ \A d \in Chain \ {c} : chain'[d] = chain[d]
      BY <1>1, <1>3, HandsOverIs
<1>5. GoneIsEmpty' /\ (present => present')
      BY <1>3 DEF VInv, GoneIsEmpty, Holds, storage
<1>6. QED BY <1>2, <1>4, <1>5, GoesOn DEF NoSound, Working, At

\* Every step of an upload but its last.
LEMMA UploadGoesOn ==
    ASSUME VInv, IInv, NEW c \in Chain, UploadStart(c) \/ SendVideo(c) \/ SendSound(c)
    PROVE  VInv'
<1>1. chain[c].task = "upload" /\ UNCHANGED <<storage, condemned>>
      BY DEF UploadStart, SendVideo, SendSound, At
<1>2. MovesTo(c, "sending") \/ MovesTo(c, "sounding") \/ MovesTo(c, "cleaning")
      BY DEF UploadStart, SendVideo, SendSound
<1>3. /\ chain'[c].task = chain[c].task /\ chain'[c].fresh = chain[c].fresh
      /\ chain'[c].picked = chain[c].picked
      /\ \A d \in Chain \ {c} : chain'[d] = chain[d]
      BY <1>2, MovesToOnly DEF IInv, TypeOK
<1>4. GoneIsEmpty' /\ files' = files /\ present' = present
      BY <1>1 DEF VInv, GoneIsEmpty, storage
<1>5. NoSound => stored' # "audio"
  <2>1. CASE SendVideo(c)
        BY <2>1 DEF SendVideo, NoSound
  <2>2. CASE UploadStart(c) \/ SendSound(c)
        BY <2>2 DEF UploadStart, SendSound, NoSound
  <2>3. QED BY <2>1, <2>2
<1>6. QED BY <1>1, <1>3, <1>4, <1>5, GoesOn DEF NoSound, Working, At

LEMMA IngestsGoesOn ==
    ASSUME VInv, IInv, NEW c \in Chain, Ingests(c)
    PROVE  VInv'
<1>1. CASE DownloadFails(c)
  <2>1. chain[c].task = "download" /\ UNCHANGED <<condemned, stored>>
        BY <1>1 DEF DownloadFails, At
  <2>2. CASE Exhausted(c)
    <3>1. PICK left \in BOOLEAN :
                Becomes(c, Over(c, left)) /\ (RemoveDir \/ UNCHANGED storage)
          BY <1>1, <2>2, WorkedIsBoolean DEF DownloadFails
    <3>2. QED BY <2>1, <3>1, OverGoesOn
  <2>3. CASE ~Exhausted(c)
    <3>1. /\ Becomes(c, Retried(c))
          /\ \/ UNCHANGED storage
             \/ chain[c].phase = "converting" /\ Holds(files \cup {"audio"})
          BY <1>1, <2>3 DEF DownloadFails
    <3>2. CASE UNCHANGED storage
          BY <2>1, <3>1, <3>2, RetryGoesOn
    <3>3. CASE chain[c].phase = "converting" /\ Holds(files \cup {"audio"})
      <4>1. Working(c)
            BY <2>1, <3>3 DEF Working, At
      <4>2. QED BY <2>1, <3>1, <3>3, <4>1, RetryGoesOn
    <3>4. QED BY <3>1, <3>2, <3>3
  <2>4. QED BY <2>2, <2>3
<1>2. CASE UploadFails(c)
  <2>1. chain[c].task = "upload" /\ UNCHANGED <<condemned, stored>>
        BY <1>2 DEF UploadFails, At
  <2>2. \/ RemoveDir /\ Becomes(c, Over(c, FALSE))
        \/ UNCHANGED storage /\ Becomes(c, Retried(c))
        BY <1>2 DEF UploadFails
  <2>3. CASE RemoveDir /\ Becomes(c, Over(c, FALSE))
        BY <2>1, <2>3, OverGoesOn
  <2>4. CASE UNCHANGED storage /\ Becomes(c, Retried(c))
        BY <2>1, <2>4, RetryGoesOn
  <2>5. QED BY <2>2, <2>3, <2>4
<1>3. CASE DownloadRejected(c) \/ UploadCleans(c) \/ IngestDies(c)
  <2>1. chain[c].task \in {"download", "upload"} /\ UNCHANGED <<condemned, stored>>
        BY <1>3 DEF DownloadRejected, UploadCleans, IngestDies, At
  <2>2. PICK left \in BOOLEAN :
                Becomes(c, Over(c, left)) /\ (RemoveDir \/ UNCHANGED storage)
        BY <1>3, WorkedIsBoolean DEF DownloadRejected, UploadCleans, IngestDies
  <2>3. QED BY <2>1, <2>2, OverGoesOn
<1>4. QED BY <1>1, <1>2, <1>3, StartGoesOn, FetchGoesOn, ConvertGoesOn, UploadGoesOn
          DEF Ingests

\* Extractors leave the sound track alone, and no cleanup takes the directory
\* of a first download that works.
LEMMA OthersGoOn ==
    ASSUME VInv, IInv,
           \/ Sweep \/ Tick
           \/ \E m \in Extractor :
                ExtractorFetches(m) \/ ExtractorEnds(m) \/ ExtractorDies(m)
    PROVE  VInv'
<1>1. ASSUME NEW m \in Extractor, ExtractorFetches(m) \/ ExtractorEnds(m) \/ ExtractorDies(m)
      PROVE  VInv'
  <2>1. UNCHANGED <<condemned, chain, stored>> /\ m # "audio"
        BY <1>1, NamesAssumption DEF ExtractorFetches, ExtractorEnds, ExtractorDies
  <2>2. /\ "audio" \in files' => "audio" \in files
        /\ GoneIsEmpty' /\ (present => present')
        BY <1>1, <2>1 DEF VInv, GoneIsEmpty, ExtractorFetches, ExtractorEnds,
                          ExtractorDies, Holds, storage
  <2>3. QED BY <2>1, <2>2, ChainsStand
<1>2. CASE Tick
  <2>1. UNCHANGED <<present, files, condemned, stored>>
        BY <1>2 DEF Tick
  <2>2. ASSUME NEW d \in Chain
        PROVE  /\ chain'[d].task = chain[d].task /\ chain'[d].phase = chain[d].phase
               /\ chain'[d].fresh = chain[d].fresh /\ chain'[d].picked = chain[d].picked
    <3>1. chain[d] \in Ingest
          BY DEF IInv, TypeOK
    <3>2. QED BY <1>2, <3>1 DEF Tick, Ingest
  <2>3. GoneIsEmpty'
        BY <2>1 DEF VInv, GoneIsEmpty
  <2>4. QED BY <2>1, <2>2, <2>3, ChainsStand
<1>3. CASE Sweep
  <2>1. UNCHANGED <<chain, stored>> /\ files' \subseteq files /\ GoneIsEmpty'
        BY <1>3 DEF Sweep, SweepLooks, SweepRemoves, RemoveDir, storage, VInv, GoneIsEmpty
  <2>2. \/ condemned /\ ~condemned'
        \/ condemned' /\ present /\ present' /\ age > MaxAge
        BY <1>3 DEF Sweep, SweepLooks, SweepRemoves, storage
  <2>3. QED BY <2>1, <2>2, ChainsStand
<1>4. QED BY <1>1, <1>2, <1>3

LEMMA VideoInvariant == Spec => []VInv
<1>1. Init => VInv
  <2> SUFFICES ASSUME Init PROVE VInv
      OBVIOUS
  <2>1. None # "audio"
        BY NamesAssumption DEF File
  <2>2. \A c \in Chain : chain[c].task = "none" /\ chain[c].picked = None
        BY DEF Init, Idle
  <2>3. QED BY <2>1, <2>2 DEF Init, VInv, GoneIsEmpty, Separate, Working, At,
                              CondemnedExists, NoSound
<1>2. VInv /\ IInv /\ [Next]_vars => VInv'
  <2> SUFFICES ASSUME VInv, IInv, [Next]_vars PROVE VInv'
      OBVIOUS
  <2>1. CASE Next
        BY <2>1, DispatchGoesOn, IngestsGoesOn, OthersGoOn DEF Next
  <2>2. CASE UNCHANGED vars
    <3>1. /\ UNCHANGED <<chain, stored, files, present, condemned>> /\ GoneIsEmpty'
          BY <2>2 DEF vars, storage, VInv, GoneIsEmpty
    <3>2. QED BY <3>1, ChainsStand
  <2>3. QED BY <2>1, <2>2
<1>3. QED BY <1>1, <1>2, InvariantHolds, PTL DEF Spec

\* A job that at most one retry of its user has joined stores the video,
\* whatever fails, is repeated, waits or dies, unless a download has found a
\* directory.
THEOREM VideoOfFew == Spec => [](Few => VideoIsStored)
<1>1. VInv => (Few => VideoIsStored)
      BY DEF VInv, AllFresh, NoSound, VideoIsStored
<1>2. QED BY <1>1, VideoInvariant, PTL

\* With two chains in all it is an invariant; with a third it is not.
THEOREM VideoKept ==
    ASSUME NEW a, NEW b, Chain \subseteq {a, b}
    PROVE  Spec => []VideoIsStored
<1>1. VInv => VideoIsStored
  <2>1. Few
        BY DEF Few
  <2>2. QED BY <2>1 DEF VInv, AllFresh, NoSound, VideoIsStored
<1>2. QED BY <1>1, VideoInvariant, PTL
-----------------------------------------------------------------------------
(* Nothing is forgotten: whoever ends has cleaned up or is on record.      *)

LeftIsOver == \A c \in Chain : chain[c].left => chain[c].task = "over"

FInv == NothingForgotten /\ LeftIsOver

\* A chain that goes on answers for all there is in the directory.
LEMMA WorksOn ==
    ASSUME FInv, NEW c \in Chain, chain[c].task \in {"download", "upload"},
           \A d \in Chain \ {c} : chain'[d] = chain[d],
           chain'[c].left = chain[c].left, Worked(c)'
    PROVE  FInv'
BY DEF FInv, NothingForgotten, LeftIsOver

\* One that ends removes the directory, or its record says that it has not.
LEMMA EndsOnRecord ==
    ASSUME IInv, FInv, NEW c \in Chain, chain[c].task \in {"download", "upload"},
           UNCHANGED extractor,
           \/ Becomes(c, Over(c, FALSE)) /\ RemoveDir
           \/ Becomes(c, Over(c, Worked(c))) /\ UNCHANGED storage
    PROVE  FInv'
<1>1. chain \in [Chain -> Ingest] /\ Worked(c) \in BOOLEAN
      BY WorkedIsBoolean DEF IInv, TypeOK
<1>2. CASE Becomes(c, Over(c, FALSE)) /\ RemoveDir
  <2>1. /\ chain'[c].task = "over"
        /\ \A d \in Chain \ {c} : chain'[d] = chain[d]
        BY <1>1, <1>2, OverIs, BecomesOnly
  <2>2. files' = {}
        BY <1>2 DEF RemoveDir
  <2>3. QED BY <2>1, <2>2 DEF FInv, NothingForgotten, LeftIsOver
<1>3. CASE Becomes(c, Over(c, Worked(c))) /\ UNCHANGED storage
  <2>1. /\ chain'[c].task = "over" /\ chain'[c].left = Worked(c)
        /\ \A d \in Chain \ {c} : chain'[d] = chain[d]
        BY <1>1, <1>3, OverIs, BecomesOnly
  <2>2. ~chain[c].left /\ LeftIsOver'
        BY <2>1 DEF FInv, LeftIsOver
  <2>3. ASSUME NEW d \in Chain, Worked(d) \/ chain[d].left
        PROVE  Worked(d)' \/ chain'[d].left
        BY <2>1, <2>2, <2>3 DEF Worked
  <2>4. files' = files
        BY <1>3 DEF storage
  <2>5. QED BY <2>2, <2>3, <2>4 DEF FInv, NothingForgotten
<1>4. QED BY <1>2, <1>3

LEMMA IngestsAccounts ==
    ASSUME IInv, FInv, NEW c \in Chain, Ingests(c)
    PROVE  FInv'
<1>1. chain \in [Chain -> Ingest] /\ chain[c] \in Ingest
      BY DEF IInv, TypeOK
<1>2. ASSUME Becomes(c, Retried(c)), chain[c].task \in {"download", "upload"}
      PROVE  FInv'
  <2>1. /\ chain'[c] = Retried(c)
        /\ \A d \in Chain \ {c} : chain'[d] = chain[d]
        BY <1>1, <1>2, RetriedIs, BecomesOnly
  <2>2. chain'[c].left = chain[c].left /\ Worked(c)'
        BY <1>1, <1>2, <2>1, RetriedIs DEF Worked
  <2>3. QED BY <1>2, <2>1, <2>2, WorksOn
<1>3. CASE DownloadStart(c)
  <2> DEFINE started == [chain[c] EXCEPT !.phase = "fetching", !.clock = 0,
                                         !.fresh = @ /\ ~present]
  <2>1. CASE Becomes(c, Over(c, Worked(c))) /\ UNCHANGED storage
        BY <1>3, <2>1, EndsOnRecord DEF DownloadStart, At
  <2>2. CASE Becomes(c, started)
    <3>1. /\ started.task = chain[c].task /\ started.phase = "fetching"
          /\ started.left = chain[c].left
          BY <1>1 DEF Ingest
    <3>2. chain' = [chain EXCEPT ![c] = started] /\ chain[c].task = "download"
          BY <1>3, <2>2 DEF Becomes, DownloadStart, At
    <3> HIDE DEF started
    <3>3. chain'[c] = started /\ \A d \in Chain \ {c} : chain'[d] = chain[d]
          BY <1>1, <3>2
    <3>4. QED BY <3>1, <3>2, <3>3, WorksOn DEF Worked
  <2>3. QED BY <1>3, <2>1, <2>2 DEF DownloadStart
<1>4. CASE Fetch(c)
  <2>1. PICK f \in files \cup {"video"} :
            Becomes(c, [chain[c] EXCEPT !.phase = "converting", !.picked = f])
        BY <1>4 DEF Fetch
  <2> DEFINE fetched == [chain[c] EXCEPT !.phase = "converting", !.picked = f]
  <2>2. /\ fetched.task = chain[c].task /\ fetched.phase = "converting"
        /\ fetched.left = chain[c].left
        BY <1>1 DEF Ingest
  <2>3. chain' = [chain EXCEPT ![c] = fetched] /\ chain[c].task = "download"
        BY <1>4, <2>1 DEF Becomes, Fetch, At
  <2> HIDE DEF fetched
  <2>4. chain'[c] = fetched /\ \A d \in Chain \ {c} : chain'[d] = chain[d]
        BY <1>1, <2>3
  <2>5. QED BY <2>2, <2>3, <2>4, WorksOn DEF Worked
<1>5. CASE Convert(c)
  <2>1. chain[c].picked \in File \cup {None} /\ chain[c].task = "download"
        BY <1>1, <1>5 DEF Ingest, Convert, At
  <2>2. PICK sound \in BOOLEAN : HandsOver(c, chain[c].picked, sound)
        BY <1>5 DEF Convert
  <2>3. /\ chain'[c].task = "upload" /\ chain'[c].left = chain[c].left
        /\ \A d \in Chain \ {c} : chain'[d] = chain[d]
        BY <1>1, <2>1, <2>2, HandsOverIs
  <2>4. QED BY <2>1, <2>3, WorksOn DEF Worked
<1>6. CASE DownloadFails(c)
  <2>1. CASE Exhausted(c)
        BY <1>6, <2>1, EndsOnRecord DEF DownloadFails, At
  <2>2. CASE ~Exhausted(c)
        BY <1>2, <1>6, <2>2 DEF DownloadFails, At
  <2>3. QED BY <2>1, <2>2
<1>7. CASE UploadFails(c)
  <2>1. CASE Exhausted(c)
        BY <1>7, <2>1, EndsOnRecord DEF UploadFails, At
  <2>2. CASE ~Exhausted(c)
        BY <1>2, <1>7, <2>2 DEF UploadFails, At
  <2>3. QED BY <2>1, <2>2
<1>8. CASE UploadStart(c) \/ SendVideo(c) \/ SendSound(c)
  <2>1. chain[c].task = "upload"
        BY <1>8 DEF UploadStart, SendVideo, SendSound, At
  <2>2. MovesTo(c, "sending") \/ MovesTo(c, "sounding") \/ MovesTo(c, "cleaning")
        BY <1>8 DEF UploadStart, SendVideo, SendSound
  <2>3. /\ chain'[c].task = "upload" /\ chain'[c].left = chain[c].left
        /\ \A d \in Chain \ {c} : chain'[d] = chain[d]
        BY <1>1, <2>1, <2>2, MovesToOnly
  <2>4. QED BY <2>1, <2>3, WorksOn DEF Worked
<1>9. CASE DownloadRejected(c) \/ UploadCleans(c) \/ IngestDies(c)
      BY <1>9, EndsOnRecord DEF DownloadRejected, UploadCleans, IngestDies, At
<1>10. QED BY <1>3, <1>4, <1>5, <1>6, <1>7, <1>8, <1>9 DEF Ingests

\* A chain that is dispatched has nothing to answer for yet.
LEMMA DispatchAccounts ==
    ASSUME IInv, FInv, NEW c \in Chain, Dispatch(c)
    PROVE  FInv'
<1> DEFINE queued == [Idle EXCEPT !.task = "download", !.phase = "queued"]
<1>1. chain \in [Chain -> Ingest]
      BY DEF IInv, TypeOK
<1>2. queued \in Ingest /\ queued.left = FALSE
      BY IdleIsIngest DEF Idle
<1>3. Becomes(c, queued)
      BY DEF Dispatch
<1> HIDE DEF queued
<1>4. chain'[c].left = FALSE /\ \A d \in Chain \ {c} : chain'[d] = chain[d]
      BY <1>1, <1>2, <1>3, BecomesOnly
<1>5. ~Worked(c) /\ ~chain[c].left /\ files' = files /\ extractor' = extractor
      BY DEF FInv, LeftIsOver, Worked, Dispatch, storage
<1>6. LeftIsOver'
      BY <1>4 DEF FInv, LeftIsOver
<1>7. ASSUME NEW f \in files' \ {"orphan"}, ~(f \in Extractor /\ extractor'[f].reading)
      PROVE  \E d \in Chain : Worked(d)' \/ chain'[d].left
  <2>1. PICK d \in Chain : Worked(d) \/ chain[d].left
        BY <1>5, <1>7 DEF FInv, NothingForgotten
  <2>2. d # c /\ chain'[d] = chain[d]
        BY <1>4, <1>5, <2>1
  <2>3. QED BY <2>1, <2>2 DEF Worked
<1>8. QED BY <1>6, <1>7 DEF FInv, NothingForgotten

\* An extractor takes its copy with it, dead or alive.
LEMMA OthersAccount ==
    ASSUME IInv, FInv,
           \/ Sweep \/ Tick
           \/ \E m \in Extractor :
                ExtractorFetches(m) \/ ExtractorEnds(m) \/ ExtractorDies(m)
    PROVE  FInv'
<1>1. ASSUME NEW m \in Extractor, ExtractorFetches(m) \/ ExtractorEnds(m) \/ ExtractorDies(m)
      PROVE  FInv'
  <2>1. UNCHANGED chain /\ extractor \in [Extractor -> Run]
        BY <1>1 DEF ExtractorFetches, ExtractorEnds, ExtractorDies, IInv, TypeOK
  <2>2. \A n \in Extractor \ {m} : extractor'[n].reading = extractor[n].reading
        BY <1>1, <2>1 DEF ExtractorFetches, ExtractorEnds, ExtractorDies
  <2>3. \/ files' \subseteq files \cup {m} /\ extractor'[m].reading
        \/ m \notin files' /\ files' \subseteq files \cup {"orphan"}
    <3>1. CASE ExtractorFetches(m)
          BY <2>1, <3>1 DEF ExtractorFetches, Holds
    <3>2. CASE ExtractorEnds(m)
          BY <3>2 DEF ExtractorEnds, Holds, storage
    <3>3. CASE ExtractorDies(m)
          BY <3>3, NamesAssumption DEF ExtractorDies
    <3>4. QED BY <1>1, <3>1, <3>2, <3>3
  <2>4. ASSUME NEW f \in files' \ {"orphan"}
        PROVE  \/ f \in Extractor /\ extractor'[f].reading
               \/ \E c \in Chain : Worked(c) \/ chain[c].left
    <3>1. CASE f = m
          BY <2>3, <3>1
    <3>2. CASE f # m
      <4>1. f \in files \ {"orphan"}
            BY <2>3, <2>4, <3>2
      <4>2. QED BY <2>2, <3>2, <4>1 DEF FInv, NothingForgotten
    <3>3. QED BY <3>1, <3>2
  <2>5. QED BY <2>1, <2>4 DEF FInv, NothingForgotten, LeftIsOver, Worked
<1>2. CASE Tick
  <2>1. UNCHANGED files
        BY <1>2 DEF Tick
  <2>2. ASSUME NEW c \in Chain
        PROVE  /\ chain'[c].task = chain[c].task /\ chain'[c].phase = chain[c].phase
               /\ chain'[c].retries = chain[c].retries /\ chain'[c].left = chain[c].left
    <3>1. chain[c] \in Ingest
          BY DEF IInv, TypeOK
    <3>2. QED BY <1>2, <3>1 DEF Tick, Ingest
  <2>3. ASSUME NEW m \in Extractor PROVE extractor'[m].reading = extractor[m].reading
    <3>1. extractor[m] \in Run
          BY DEF IInv, TypeOK
    <3>2. QED BY <1>2, <3>1 DEF Tick, Run
  <2>4. QED BY <2>1, <2>2, <2>3 DEF FInv, NothingForgotten, LeftIsOver, Worked
<1>3. CASE Sweep
  <2>1. UNCHANGED <<chain, extractor>> /\ files' \subseteq files
        BY <1>3 DEF Sweep, SweepLooks, SweepRemoves, RemoveDir, storage
  <2>2. QED BY <2>1 DEF FInv, NothingForgotten, LeftIsOver, Worked
<1>4. QED BY <1>1, <1>2, <1>3

\* Whatever fails, dies, waits or is repeated, for any number of chains and
\* extractors: what stays in the directory belongs to a task that goes on, to
\* a worker that has died, or to a chain that has ended without its cleanup.
THEOREM NothingIsForgotten == Spec => []NothingForgotten
<1>1. Init => FInv
  <2> SUFFICES ASSUME Init PROVE FInv
      OBVIOUS
  <2>1. \A c \in Chain : chain[c].left = FALSE
        BY DEF Init, Idle
  <2>2. QED BY <2>1 DEF Init, FInv, NothingForgotten, LeftIsOver
<1>2. FInv /\ IInv /\ [Next]_vars => FInv'
  <2> SUFFICES ASSUME FInv, IInv, [Next]_vars PROVE FInv'
      OBVIOUS
  <2>1. CASE Next
        BY <2>1, DispatchAccounts, IngestsAccounts, OthersAccount DEF Next
  <2>2. CASE UNCHANGED vars
        BY <2>2 DEF vars, storage, FInv, NothingForgotten, LeftIsOver, Worked
  <2>3. QED BY <2>1, <2>2
<1>3. FInv => NothingForgotten
      BY DEF FInv
<1>4. QED BY <1>1, <1>2, <1>3, InvariantHolds, PTL DEF Spec
==============================================================================
