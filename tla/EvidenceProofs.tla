--------------------------- MODULE EvidenceProofs ----------------------------
(***************************************************************************)
(* Theorems about Census and Evidence for every set of videos, of answers  *)
(* and of segments.                                                        *)
(***************************************************************************)
EXTENDS Evidence, TLAPS

\* What the audio probe knows so far, and how sure it says to be.
HeardSoFar ==
    /\ audio.step # "done" => lost \cap {"length", "audio"} = {}
    /\ audio.step \in {"measure", "voice"} => "voice" \notin lost
    /\ audio.step = "music" =>
            IF "voice" \in lost THEN audio.voiceConfidence <= 400
                                ELSE audio.speech = (video.voiced >= 20)
    /\ audio.step = "done" =>
        /\ "audio" \in lost => audio.confidence <= 200
        /\ "voice" \in lost => audio.confidence <= 600
        /\ lost \cap {"length", "voice", "audio"} = {} /\ ~audio.speech =>
                video.length = "short" \/ video.voiced < 20

SeenSoFar ==
    /\ visual = None => lost \cap {"visual", "text"} = {}
    /\ visual # None =>
        /\ "visual" \in lost => visual.confidence <= 100
        /\ lost \cap {"visual", "text"} = {} /\ ~visual.text => video.captions < 2

\* The manifest is what the probes say.
Assembled ==
    manifest # None =>
        /\ Probed
        /\ manifest.speech = audio.speech
        /\ manifest.ocrRequired = OcrRequired
        /\ manifest.confidence = ProbingConfidence

CensusInv == video \in Video /\ HeardSoFar /\ SeenSoFar /\ Assembled

\* What is left of Stage A for the stages after it.
Handed ==
    /\ manifest # None => manifest.asrValue = IF manifest.speech THEN 800 ELSE 0
    /\ bundle = None => graph = None
    /\ bundle # None =>
        /\ manifest # None
        /\ video = None /\ lost = {}
        /\ bundle.asr # <<>> => manifest.speech
    /\ graph # None =>
        /\ graph.type = EffectiveType(manifest, bundle)
        /\ graph.asrWeight = AsrWeight(manifest, bundle)
        /\ graph.confidence = GraphConfidence(manifest, bundle)

IInv == TypeOK /\ (bundle = None => CensusInv) /\ Handed

-----------------------------------------------------------------------------
(* The operators.                                                          *)

\* Two captioned frames are enough for any number of sampled frames.
LEMMA TwoFramesAreText ==
    ASSUME NEW frames \in Nat, frames >= 2, NEW captions \in Nat, captions >= 2
    PROVE  Lesser(captions, frames) >= TextMinimum(frames)
BY DEF Lesser, Greater, TextMinimum

\* The lesser one is not more than either.
LEMMA LesserIsBounded ==
    ASSUME NEW a \in 0..1000, NEW b \in 0..1000
    PROVE  /\ a <= 600 => Lesser(a, b) <= 600
           /\ a <= 200 \/ b <= 200 => Lesser(a, b) <= 200
BY DEF Lesser

\* Without OCR and speech extracted, or with one of them.
LEMMA GraphConfidenceRange ==
    ASSUME NEW m \in Manifest, NEW b \in Bundle
    PROVE  GraphConfidence(m, b) \in Confidence
BY DEF GraphConfidence, Greater, Cost, Confidence

LEMMA EffectiveTypeIsValid ==
    ASSUME NEW m \in Manifest, NEW b
    PROVE  EffectiveType(m, b) \in ValidType
<1>1. m.type \in ValidType
      BY DEF Manifest
<1>2. \A segments : Pattern(segments) \in ValidType
      BY DEF Pattern, ValidType, TextType
<1>3. QED BY <1>1, <1>2 DEF EffectiveType

\* Where the video has a structure and nothing was read, the graph is in
\* doubt.
LEMMA UnreadStructureCosts ==
    ASSUME NEW m \in Manifest, NEW b \in Bundle, m.type # "none", b.ocr = <<>>
    PROVE  GraphConfidence(m, b) <= 550
<1>1. EffectiveType(m, b) # "none"
      BY DEF EffectiveType
<1>2. QED BY <1>1 DEF GraphConfidence, Greater, Cost

\* Transcribed speech was asked for.
LEMMA TranscriptsOfSpeech ==
    ASSUME NEW t \in Transcripts
    PROVE  /\ t.asr \in Segments /\ t.degraded \in BOOLEAN
           /\ t.asr # <<>> => manifest.speech
<1>1. \A spoken, written, gap : Degraded(spoken, written, gap) \in BOOLEAN
      BY DEF Degraded
<1>2. <<>> \in Segments
      BY SegmentsAssumption
<1>3. CASE manifest.speech
      BY <1>1, <1>2, <1>3 DEF Transcripts, Transcribed, Untranscribed
<1>4. CASE ~manifest.speech
      BY <1>2, <1>4 DEF Transcripts
<1>5. QED BY <1>3, <1>4

\* The bundle c is b without what was read, or without what was said.
LacksText(c, b) == c.ocr = <<>> /\ c.asr = b.asr /\ c.degraded = b.degraded
LacksSpeech(c, b) == c.asr = <<>> /\ c.ocr = b.ocr /\ c.degraded = b.degraded

\* Nothing was transcribed that the census has not heard.
SpeechHeard(m, b) == b.asr # <<>> => m.speech

\* Text never costs more than its absence ...
LEMMA TextIsNoLess ==
    ASSUME NEW m \in Manifest, NEW b \in Bundle, NEW c \in Bundle,
           LacksText(c, b)
    PROVE  GraphConfidence(m, b) >= GraphConfidence(m, c)
<1>1. GraphConfidence(m, b) \in 0..1000 /\ GraphConfidence(m, c) \in 0..1000
      BY GraphConfidenceRange DEF Confidence
<1>2. CASE b.ocr = <<>>
  <2>1. GraphConfidence(m, c) = GraphConfidence(m, b)
        BY <1>2 DEF LacksText, GraphConfidence, EffectiveType, Modality, Conflict
  <2>2. QED BY <1>1, <2>1
<1>3. CASE b.ocr # <<>> /\ b.asr = <<>>
  <2>1. GraphConfidence(m, b) >= 800
        BY <1>3 DEF LacksText, GraphConfidence, Greater, Cost
  <2>2. GraphConfidence(m, c) = 200
        BY <1>3 DEF LacksText, GraphConfidence
  <2>3. QED BY <1>1, <2>1, <2>2
<1>4. CASE b.ocr # <<>> /\ b.asr # <<>>
  <2>1. Modality(m, b) = "mixed" => Modality(m, c) = "mixed"
        BY <1>4 DEF LacksText, Modality, Structural
  <2>2. GraphConfidence(m, b) = 900 - Cost(Modality(m, b) = "mixed", 100)
        BY <1>4 DEF LacksText, GraphConfidence, Greater, Cost
  <2>3. GraphConfidence(m, c) <= 900 - Cost(Modality(m, c) = "mixed", 100)
        BY <1>4 DEF LacksText, GraphConfidence, Greater, Cost, Conflict
  <2>4. CASE Modality(m, b) = "mixed"
        BY <1>1, <2>1, <2>2, <2>3, <2>4 DEF Cost
  <2>5. CASE Modality(m, b) # "mixed"
    <3>1. GraphConfidence(m, b) = 900 /\ GraphConfidence(m, c) <= 900
          BY <1>1, <2>2, <2>3, <2>5 DEF Cost
    <3>2. QED BY <1>1, <3>1
  <2>6. QED BY <2>4, <2>5
<1>5. QED BY <1>2, <1>3, <1>4

\* ... and neither does a transcript, of speech the census has heard.
LEMMA SpeechIsNoLess ==
    ASSUME NEW m \in Manifest, NEW b \in Bundle, NEW c \in Bundle,
           SpeechHeard(m, b), LacksSpeech(c, b)
    PROVE  GraphConfidence(m, b) >= GraphConfidence(m, c)
<1>1. GraphConfidence(m, b) \in 0..1000 /\ GraphConfidence(m, c) \in 0..1000
      BY GraphConfidenceRange DEF Confidence
<1>2. CASE b.asr = <<>>
  <2>1. GraphConfidence(m, c) = GraphConfidence(m, b)
        BY <1>2 DEF LacksSpeech, GraphConfidence, EffectiveType, Modality, Conflict
  <2>2. QED BY <1>1, <2>1
<1>3. CASE b.asr # <<>> /\ b.ocr = <<>>
  <2>1. GraphConfidence(m, b) >= 200
        BY <1>3 DEF LacksSpeech, GraphConfidence, Greater, Cost, Conflict
  <2>2. GraphConfidence(m, c) = 200
        BY <1>3 DEF LacksSpeech, GraphConfidence
  <2>3. QED BY <1>1, <2>1, <2>2
<1>4. CASE b.asr # <<>> /\ b.ocr # <<>>
  <2>1. Modality(m, b) # "mixed"
        BY <1>4 DEF SpeechHeard, Modality
  <2>2. GraphConfidence(m, b) = 900
        BY <1>4, <2>1 DEF LacksSpeech, GraphConfidence, Greater, Cost
  <2>3. GraphConfidence(m, c) <= 900
        BY <1>4 DEF LacksSpeech, GraphConfidence, Greater, Cost
  <2>4. QED BY <1>1, <2>2, <2>3
<1>5. QED BY <1>2, <1>3, <1>4

-----------------------------------------------------------------------------
(* The invariant.                                                          *)

LEMMA InitEstablishes == Init => IInv
<1> SUFFICES ASSUME Init PROVE IInv
    OBVIOUS
<1> USE DEF Init, CensusInit
<1>1. TypeOK
      BY DEF TypeOK, CensusTypeOK, Unheard, Before, AudioProbe, AudioType, Confidence
<1>2. CensusInv
      BY DEF CensusInv, HeardSoFar, SeenSoFar, Assembled, Unheard, Before
<1>3. Handed
      BY DEF Handed
<1>4. QED BY <1>1, <1>2, <1>3 DEF IInv

\* The mean of two confidences is one.
LEMMA MeanInRange ==
    ASSUME NEW m \in Confidence, NEW n \in Confidence
    PROVE  (m + n) \div 2 \in Confidence
BY DEF Confidence

LEMMA MeanIsBounded ==
    ASSUME NEW m \in 0..1000, NEW c \in 0..800, m <= 400
    PROVE  (m + c) \div 2 <= 600
<1>1. m + c \in 0..1200
      OBVIOUS
<1>2. \A n \in 0..1200 : n \div 2 <= 600
      OBVIOUS
<1>3. QED BY <1>1, <1>2

LEMMA ConcludesIsProbe ==
    ASSUME audio \in AudioProbe, NEW music \in BOOLEAN, NEW c \in Confidence
    PROVE  Concludes(music, c) \in AudioProbe
<1>1. TypeHeard(audio.speech, music) \in AudioType
      BY DEF TypeHeard, AudioType
<1>2. audio.speech \in BOOLEAN /\ audio.voiceConfidence \in Confidence
      BY DEF AudioProbe
<1>3. (audio.voiceConfidence + c) \div 2 \in Confidence
      BY <1>2, MeanInRange
<1>4. 0 \in Confidence
      BY DEF Confidence
<1>5. QED BY <1>1, <1>2, <1>3, <1>4 DEF Concludes, AudioProbe

\* The last part of the audio probe concludes, in one of these ways.
Concluded(c) == audio' = Concludes(TRUE, c) \/ audio' = Concludes(FALSE, c)

LEMMA MusicConcludes ==
    ASSUME Music
    PROVE  Concluded(300) \/ Concluded(500) \/ Concluded(700) \/ Concluded(800)
BY ZenonT(60) DEF Music, Hears, Concluded

\* What is certain of speech only to 400 thousandths stays below 600.
LEMMA ConcludedFields ==
    ASSUME NEW c \in 0..800, Concluded(c), audio \in AudioProbe
    PROVE  /\ audio'.step = "done" /\ audio'.speech = audio.speech
           /\ audio.voiceConfidence <= 400 => audio'.confidence <= 600
<1>1. /\ audio'.step = "done" /\ audio'.speech = audio.speech
      /\ audio'.confidence = (audio.voiceConfidence + c) \div 2
  <2>1. CASE audio' = Concludes(TRUE, c)
        BY <2>1 DEF Concludes
  <2>2. CASE audio' = Concludes(FALSE, c)
        BY <2>2 DEF Concludes
  <2>3. QED BY <2>1, <2>2 DEF Concluded
<1>2. audio.voiceConfidence \in 0..1000
      BY DEF AudioProbe, Confidence
<1>3. audio.voiceConfidence <= 400 => (audio.voiceConfidence + c) \div 2 <= 600
      BY <1>2, MeanIsBounded, ZenonT(60)
<1>4. QED BY <1>1, <1>3

\* One step of the audio probe keeps its types ...
LEMMA AudioKeepsTypes ==
    ASSUME audio \in AudioProbe, video \in Video,
           Measure \/ Voice \/ Music \/ AudioGivesUp
    PROVE  audio' \in AudioProbe
<1>1. 300 \in Confidence /\ 500 \in Confidence /\ 700 \in Confidence /\ 800 \in Confidence
      BY DEF Confidence
<1>2. CASE Measure
  <2>1. \/ audio' = Quiet("silent", 300) \/ audio' = Quiet("silent", 1000)
        \/ audio' = Before("voice", FALSE, 0)
        BY <1>2, ZenonT(60) DEF Measure, Hears
  <2>2. CASE audio' = Before("voice", FALSE, 0)
        BY <2>2 DEF Before, AudioProbe, AudioType, Confidence
  <2>3. CASE audio' = Quiet("silent", 300)
        BY <2>3 DEF Quiet, AudioProbe, AudioType, Confidence
  <2>4. CASE audio' = Quiet("silent", 1000)
        BY <2>4 DEF Quiet, AudioProbe, AudioType, Confidence
  <2>5. QED BY <2>1, <2>2, <2>3, <2>4, ZenonT(60)
<1>3. CASE Voice
  <2>1. video.voiced \in 0..100
        BY InputAssumption DEF Video
  <2>2. Lesser(50 * video.voiced, 1000) \in Confidence
        BY <2>1 DEF Lesser, Confidence
  <2>3. (video.voiced >= 20) \in BOOLEAN
        BY <2>1
  <2>4. \/ audio' = Before("music", video.voiced >= 20, Lesser(50 * video.voiced, 1000))
        \/ \E c \in {300, 400} : audio' = Before("music", FALSE, c)
        BY <1>3, ZenonT(60) DEF Voice, Hears
  <2>5. CASE audio' = Before("music", video.voiced >= 20, Lesser(50 * video.voiced, 1000))
        BY <2>2, <2>3, <2>5 DEF Before, AudioProbe, AudioType, Confidence
  <2>6. CASE \E c \in {300, 400} : audio' = Before("music", FALSE, c)
        BY <2>6 DEF Before, AudioProbe, AudioType, Confidence
  <2>7. QED BY <2>4, <2>5, <2>6, ZenonT(60)
<1>4. CASE Music
  <2>1. \A c \in Confidence : Concluded(c) => audio' \in AudioProbe
        BY ConcludesIsProbe DEF Concluded
  <2>2. QED BY <1>1, <1>4, <2>1, MusicConcludes
<1>5. CASE AudioGivesUp
      BY <1>5 DEF AudioGivesUp, Hears, Quiet, AudioProbe, AudioType, Confidence
<1>6. QED BY <1>2, <1>3, <1>4, <1>5

\* ... and the account of what it has heard.
LEMMA AudioKeepsAccount ==
    ASSUME CensusTypeOK, CensusInv, Measure \/ Voice \/ Music \/ AudioGivesUp
    PROVE  HeardSoFar' /\ SeenSoFar' /\ Assembled'
<1> USE DEF CensusInv, HeardSoFar
<1>1. manifest = None
      BY ZenonT(60) DEF Assembled, Probed, Measure, Voice, Music, AudioGivesUp
<1>2. Assembled'
      BY <1>1, ZenonT(60) DEF Assembled, Measure, Voice, Music, AudioGivesUp, Hears
<1>3. SeenSoFar'
  <2>1. /\ UNCHANGED <<video, visual>>
        /\ lost \subseteq lost'
        /\ lost' \subseteq lost \cup {"length", "voice", "music", "audio"}
        BY ZenonT(60) DEF Measure, Voice, Music, AudioGivesUp, Hears
  <2>2. /\ "visual" \in lost' <=> "visual" \in lost
        /\ "text" \in lost' <=> "text" \in lost
        BY <2>1
  <2>3. QED BY <2>1, <2>2 DEF SeenSoFar
<1>4. CASE Measure
      BY <1>2, <1>3, <1>4 DEF Measure, Hears, Quiet, Before
<1>5. CASE Voice
      BY <1>2, <1>3, <1>5 DEF Voice, Hears, Before
<1>6. CASE Music
  <2>1. /\ audio'.step = "done" /\ audio'.speech = audio.speech
        /\ audio.voiceConfidence <= 400 => audio'.confidence <= 600
        BY <1>6, MusicConcludes, ConcludedFields DEF CensusTypeOK
  <2>2. /\ "audio" \notin lost' /\ "length" \notin lost'
        /\ "voice" \in lost' <=> "voice" \in lost
        BY <1>6, ZenonT(60) DEF Music, Hears
  <2>3. video.voiced \in 0..100
        BY InputAssumption DEF Video
  <2>4. "voice" \in lost => audio'.confidence <= 600
        BY <1>6, <2>1 DEF Music
  <2>5. "voice" \notin lost /\ ~audio'.speech => video.voiced < 20
    <3>1. "voice" \notin lost => audio.speech = (video.voiced >= 20)
          BY <1>6 DEF Music
    <3>2. ~(video.voiced >= 20) => video.voiced < 20
          BY <2>3
    <3>3. QED BY <2>1, <3>1, <3>2
  <2>6. video' = video
        BY <1>6 DEF Music, Hears
  <2>7. HeardSoFar'
        BY <2>1, <2>2, <2>4, <2>5, <2>6
  <2>8. QED BY <1>2, <1>3, <2>7
<1>7. CASE AudioGivesUp
      BY <1>2, <1>3, <1>7 DEF AudioGivesUp, Hears, Quiet
<1>8. QED BY <1>4, <1>5, <1>6, <1>7

\* What the visual probe answers with.
LEMMA VisualSees ==
    ASSUME video \in Video, Visual
    PROVE  \E text \in BOOLEAN, confidence \in {500, 750}, missed \in {{}, {"text"}} :
                Sees(text, confidence, missed)
<1>1. video.captions \in Nat
      BY InputAssumption DEF Video
<1>2. PICK frames \in {n \in Sampled : n >= 2} :
        \/ Sees(Lesser(video.captions, frames) >= TextMinimum(frames),
                IF frames < 15 THEN 500 ELSE 750, {})
        \/ \E text \in {FALSE, video.captions > 0} :
                Sees(text, IF frames < 15 THEN 500 ELSE 750, {"text"})
      BY DEF Visual
<1>3. frames \in Nat
      BY InputAssumption
<1>4. (IF frames < 15 THEN 500 ELSE 750) \in {500, 750}
      OBVIOUS
<1>5. (Lesser(video.captions, frames) >= TextMinimum(frames)) \in BOOLEAN
      OBVIOUS
<1>6. (video.captions > 0) \in BOOLEAN
      OBVIOUS
<1>7. CASE Sees(Lesser(video.captions, frames) >= TextMinimum(frames),
                IF frames < 15 THEN 500 ELSE 750, {})
  <2> DEFINE text == Lesser(video.captions, frames) >= TextMinimum(frames)
             confidence == IF frames < 15 THEN 500 ELSE 750
  <2>1. Sees(text, confidence, {}) /\ text \in BOOLEAN /\ confidence \in {500, 750}
        BY <1>4, <1>5, <1>7
  <2> HIDE DEF text, confidence
  <2>2. QED BY <2>1
<1>8. ASSUME NEW text \in {FALSE, video.captions > 0},
             Sees(text, IF frames < 15 THEN 500 ELSE 750, {"text"})
      PROVE  \E t \in BOOLEAN, c \in {500, 750}, missed \in {{}, {"text"}} :
                Sees(t, c, missed)
  <2> DEFINE confidence == IF frames < 15 THEN 500 ELSE 750
  <2>1. Sees(text, confidence, {"text"}) /\ text \in BOOLEAN /\ confidence \in {500, 750}
        BY <1>4, <1>6, <1>8, ZenonT(60)
  <2> HIDE DEF confidence
  <2>2. QED BY <2>1
<1>9. QED BY <1>2, <1>7, <1>8, ZenonT(60)

\* Unless OCR was lost, two captioned frames are found.
LEMMA VisualFinds ==
    ASSUME video \in Video, Visual, lost \cap {"visual", "text"} = {}
    PROVE  /\ "visual" \notin lost'
           /\ lost' \cap {"visual", "text"} = {} /\ ~visual'.text => video.captions < 2
<1>1. video.captions \in Nat
      BY InputAssumption DEF Video
<1>2. PICK frames \in {n \in Sampled : n >= 2} :
        \/ Sees(Lesser(video.captions, frames) >= TextMinimum(frames),
                IF frames < 15 THEN 500 ELSE 750, {})
        \/ \E text \in {FALSE, video.captions > 0} :
                Sees(text, IF frames < 15 THEN 500 ELSE 750, {"text"})
      BY DEF Visual
<1>3. frames \in Nat /\ frames >= 2
      BY InputAssumption
<1>4. CASE Sees(Lesser(video.captions, frames) >= TextMinimum(frames),
                IF frames < 15 THEN 500 ELSE 750, {})
  <2>1. video.captions >= 2 => visual'.text
        BY <1>1, <1>3, <1>4, TwoFramesAreText DEF Sees
  <2>2. lost' = lost
        BY <1>4 DEF Sees
  <2>3. QED BY <1>1, <2>1, <2>2
<1>5. CASE \E text \in {FALSE, video.captions > 0} :
                Sees(text, IF frames < 15 THEN 500 ELSE 750, {"text"})
      BY <1>5 DEF Sees
<1>6. QED BY <1>2, <1>4, <1>5

\* The visual probe keeps what the audio probe has heard and accounts for
\* what it sees.
LEMMA VisualKeeps ==
    ASSUME CensusTypeOK, CensusInv, VisualGivesUp \/ Visual
    PROVE  CensusTypeOK' /\ CensusInv'
<1>1. /\ UNCHANGED <<video, audio, structure, manifest>>
      /\ visual = None
      /\ visual' \in VisualProbe
      /\ lost' \in {lost, lost \cup {"visual"}, lost \cup {"text"}}
  <2>1. CASE VisualGivesUp
        BY <2>1 DEF VisualGivesUp, Sees, VisualProbe, Confidence
  <2>2. CASE Visual
    <3>1. PICK text \in BOOLEAN, confidence \in {500, 750}, missed \in {{}, {"text"}} :
                    Sees(text, confidence, missed)
          BY <2>2, VisualSees DEF CensusInv
    <3>2. QED BY <3>1 DEF Sees, VisualProbe, Confidence
  <2>3. QED BY <2>1, <2>2
<1>2. manifest = None
      BY <1>1 DEF CensusInv, Assembled, Probed
<1>3. visual' # None
      BY <1>1, NoneAssumption
<1>4. CensusTypeOK'
  <2>1. lost' \in SUBSET {"length", "voice", "music", "audio", "visual", "text", "structure"}
        BY <1>1 DEF CensusTypeOK
  <2>2. QED BY <1>1, <2>1 DEF CensusTypeOK
<1>5. HeardSoFar'
  <2>1. /\ "length" \in lost' <=> "length" \in lost
        /\ "voice" \in lost' <=> "voice" \in lost
        /\ "audio" \in lost' <=> "audio" \in lost
        BY <1>1
  <2>2. QED BY <1>1, <2>1 DEF CensusInv, HeardSoFar
<1>6. SeenSoFar'
  <2>1. lost \cap {"visual", "text"} = {}
        BY <1>1 DEF CensusInv, SeenSoFar
  <2>2. CASE VisualGivesUp
        BY <1>3, <2>1, <2>2 DEF VisualGivesUp, Sees, SeenSoFar
  <2>3. CASE Visual
        BY <1>1, <1>3, <2>1, <2>3, VisualFinds DEF CensusInv, SeenSoFar
  <2>4. QED BY <2>2, <2>3
<1>7. QED BY <1>1, <1>2, <1>4, <1>5, <1>6 DEF CensusInv, Assembled

\* The structural probe only notes that it was lost itself.
LEMMA StructureKeeps ==
    ASSUME CensusTypeOK, CensusInv, Structure
    PROVE  CensusTypeOK' /\ CensusInv'
<1>1. /\ UNCHANGED <<video, audio, visual, manifest>>
      /\ structure = None
      /\ structure' \in StructureProbe
      /\ lost' \in {lost, lost \cup {"structure"}}
      BY DEF Structure, Answered, StructureProbe, ValidType, Density
<1>2. manifest = None
      BY <1>1 DEF CensusInv, Assembled, Probed
<1>3. CensusTypeOK'
  <2>1. lost' \in SUBSET {"length", "voice", "music", "audio", "visual", "text", "structure"}
        BY <1>1 DEF CensusTypeOK
  <2>2. QED BY <1>1, <2>1 DEF CensusTypeOK
<1>4. \A p \in {"length", "voice", "audio", "visual", "text"} : p \in lost' <=> p \in lost
      BY <1>1
<1>5. HeardSoFar' /\ SeenSoFar'
  <2>1. /\ "length" \in lost' <=> "length" \in lost
        /\ "voice" \in lost' <=> "voice" \in lost
        /\ "audio" \in lost' <=> "audio" \in lost
        /\ "visual" \in lost' <=> "visual" \in lost
        /\ "text" \in lost' <=> "text" \in lost
        BY <1>4
  <2>2. HeardSoFar'
        BY <1>1, <2>1 DEF CensusInv, HeardSoFar
  <2>3. SeenSoFar'
        BY <1>1, <2>1 DEF CensusInv, SeenSoFar
  <2>4. QED BY <2>2, <2>3
<1>6. QED BY <1>1, <1>2, <1>3, <1>5 DEF CensusInv, Assembled

\* A manifest says what the probes say.
LEMMA AssembleKeeps ==
    ASSUME CensusTypeOK, CensusInv, Assemble
    PROVE  /\ CensusTypeOK' /\ CensusInv'
           /\ manifest'.asrValue = IF manifest'.speech THEN 800 ELSE 0
<1>1. /\ UNCHANGED <<video, audio, visual, structure, lost>>
      /\ manifest' = [audioType |-> audio.type, speech |-> audio.speech,
                    music |-> audio.music, ocrRequired |-> OcrRequired,
                    asrValue |-> AsrValue, type |-> structure.type,
                    confidence |-> ProbingConfidence]
      /\ Probed
      BY DEF Assemble
<1>2. visual \in VisualProbe /\ structure \in StructureProbe /\ audio \in AudioProbe
      BY <1>1 DEF CensusTypeOK, Probed
<1>3. manifest' \in Manifest
  <2>1. audio.type \in AudioType /\ audio.speech \in BOOLEAN /\ audio.music \in BOOLEAN
        BY <1>2 DEF AudioProbe
  <2>2. structure.type \in ValidType /\ structure.density \in Int
        BY <1>2 DEF StructureProbe, Density
  <2>3. OcrRequired \in BOOLEAN
    <3>1. visual.text \in BOOLEAN /\ video.titled \in BOOLEAN
          BY <1>2 DEF VisualProbe, CensusInv, Video
    <3>2. QED BY <2>2, <3>1 DEF OcrRequired
  <2>4. AsrValue \in {0, 800}
        BY DEF AsrValue
  <2>5. ProbingConfidence \in Confidence
        BY <1>2 DEF ProbingConfidence, Lesser, AudioProbe, VisualProbe
  <2>6. QED BY <1>1, <2>1, <2>2, <2>3, <2>4, <2>5 DEF Manifest
<1>4. CensusTypeOK'
      BY <1>1, <1>3 DEF CensusTypeOK
<1>5. HeardSoFar'
      BY <1>1 DEF CensusInv, HeardSoFar
<1>6. SeenSoFar'
      BY <1>1 DEF CensusInv, SeenSoFar
<1>7. Assembled'
      BY <1>1 DEF Assembled, Probed, OcrRequired, ProbingConfidence
<1>8. QED BY <1>1, <1>4, <1>5, <1>6, <1>7 DEF CensusInv, AsrValue

\* The stage begins anew.
LEMMA RefusedKeeps ==
    ASSUME CensusTypeOK, CensusInv, Refused
    PROVE  CensusTypeOK' /\ CensusInv'
<1> USE DEF Refused
<1>1. CensusTypeOK'
      BY DEF CensusTypeOK, Unheard, Before, AudioProbe, AudioType, Confidence
<1>2. CensusInv'
      BY DEF CensusInv, HeardSoFar, SeenSoFar, Assembled, Unheard, Before
<1>3. QED BY <1>1, <1>2

\* A step of Stage A, and what it owes to the stages after it.
LEMMA CensusKeeps ==
    ASSUME CensusTypeOK, CensusInv, CensusNext,
           manifest # None => manifest.asrValue = IF manifest.speech THEN 800 ELSE 0
    PROVE  /\ CensusTypeOK' /\ CensusInv'
           /\ manifest' # None =>
                manifest'.asrValue = IF manifest'.speech THEN 800 ELSE 0
<1>1. CASE Measure \/ Voice \/ Music \/ AudioGivesUp
  <2>1. UNCHANGED <<video, visual, structure, manifest>>
        BY <1>1, ZenonT(60) DEF Measure, Voice, Music, AudioGivesUp, Hears
  <2>2. lost' \subseteq lost \cup {"length", "voice", "music", "audio"}
    <3>1. lost' \in {lost, lost \cup {"length"}, lost \cup {"voice"},
                    lost \cup {"music"}, lost \cup {"audio"}}
          BY <1>1, ZenonT(60) DEF Measure, Voice, Music, AudioGivesUp, Hears
    <3>2. QED BY <3>1
  <2>3. audio' \in AudioProbe
        BY <1>1, AudioKeepsTypes DEF CensusTypeOK, CensusInv
  <2>4. HeardSoFar' /\ SeenSoFar' /\ Assembled'
        BY <1>1, AudioKeepsAccount
  <2>5. CensusTypeOK'
    <3>1. lost' \in SUBSET {"length", "voice", "music", "audio", "visual", "text", "structure"}
          BY <2>2 DEF CensusTypeOK
    <3>2. QED BY <2>1, <2>3, <3>1 DEF CensusTypeOK
  <2>6. CensusInv'
        BY <2>1, <2>4 DEF CensusInv
  <2>7. QED BY <2>1, <2>5, <2>6
<1>2. CASE VisualGivesUp \/ Visual
  <2>1. manifest' = manifest
        BY <1>2 DEF VisualGivesUp, Visual, Sees
  <2>2. QED BY <1>2, <2>1, VisualKeeps
<1>3. CASE Structure
  <2>1. manifest' = manifest
        BY <1>3 DEF Structure, Answered
  <2>2. QED BY <1>3, <2>1, StructureKeeps
<1>4. CASE Assemble
      BY <1>4, AssembleKeeps
<1>5. CASE Refused
  <2>1. manifest' = manifest
        BY <1>5 DEF Refused
  <2>2. QED BY <1>5, <2>1, RefusedKeeps
<1>6. QED BY <1>1, <1>2, <1>3, <1>4, <1>5 DEF CensusNext

-----------------------------------------------------------------------------
(* The stages after it.                                                    *)

\* Stage B stores what was asked for.
LEMMA ExtractKeeps ==
    ASSUME TypeOK, Handed, Extract
    PROVE  TypeOK' /\ Handed' /\ bundle' # None
<1>1. manifest # None /\ bundle = None /\ graph = None
      BY DEF Extract, Handed
<1>2. PICK t \in Transcripts, ocr \in Texts :
            bundle' = [asr |-> t.asr, ocr |-> ocr, degraded |-> t.degraded]
      BY DEF Extract
<1>3. t.asr \in Segments /\ t.degraded \in BOOLEAN /\ (t.asr # <<>> => manifest.speech)
      BY TranscriptsOfSpeech
<1>4. ocr \in Segments
      BY SegmentsAssumption DEF Texts
<1>5. bundle' \in Bundle
      BY <1>2, <1>3, <1>4 DEF Bundle
<1>6. bundle' # None
      BY <1>5, NoBundleAssumption
<1>7. /\ video' = None /\ audio' = Unheard /\ visual' = None /\ structure' = None
      /\ lost' = {} /\ UNCHANGED <<manifest, graph>>
      BY DEF Extract
<1>8. Unheard \in AudioProbe
      BY DEF Unheard, Before, AudioProbe, AudioType, Confidence
<1>9. TypeOK'
      BY <1>5, <1>7, <1>8 DEF TypeOK, CensusTypeOK
<1>10. bundle'.asr # <<>> => manifest.speech
      BY <1>2, <1>3
<1>11. Handed'
      BY <1>1, <1>6, <1>7, <1>10 DEF Handed
<1>12. QED BY <1>6, <1>9, <1>11

\* Stage C stores what it makes of it.
LEMMA FuseKeeps ==
    ASSUME TypeOK, Handed, Fuse
    PROVE  TypeOK' /\ Handed' /\ bundle' # None
<1>1. /\ bundle # None /\ UNCHANGED <<census, bundle>>
      /\ graph' = [type |-> EffectiveType(manifest, bundle),
                   modality |-> Modality(manifest, bundle),
                   asrWeight |-> AsrWeight(manifest, bundle),
                   confidence |-> GraphConfidence(manifest, bundle)]
      BY DEF Fuse
<1>2. manifest \in Manifest /\ bundle \in Bundle
      BY <1>1 DEF TypeOK, CensusTypeOK, Handed
<1>3. graph' \in Graph
  <2>1. EffectiveType(manifest, bundle) \in ValidType
        BY <1>2, EffectiveTypeIsValid
  <2>2. Modality(manifest, bundle) \in {"asr", "ocr", "mixed"}
        BY DEF Modality
  <2>3. AsrWeight(manifest, bundle) \in {0, 500, 800, 1000}
        BY <1>2 DEF AsrWeight, Manifest
  <2>4. GraphConfidence(manifest, bundle) \in Confidence
        BY <1>2, GraphConfidenceRange
  <2>5. QED BY <1>1, <2>1, <2>2, <2>3, <2>4 DEF Graph
<1>4. TypeOK'
      BY <1>1, <1>3 DEF TypeOK, CensusTypeOK, census
<1>5. Handed'
      BY <1>1 DEF Handed, census
<1>6. QED BY <1>1, <1>4, <1>5

LEMMA NextPreserves == IInv /\ [Next]_vars => IInv'
<1> SUFFICES ASSUME IInv, [Next]_vars PROVE IInv'
    OBVIOUS
<1>1. TypeOK /\ Handed
      BY DEF IInv
<1>2. CASE bundle = None /\ CensusNext /\ UNCHANGED <<bundle, graph>>
  <2>1. CensusTypeOK /\ CensusInv /\ graph = None
        BY <1>2 DEF IInv, TypeOK, Handed
  <2>2. /\ CensusTypeOK' /\ CensusInv'
        /\ manifest' # None =>
                manifest'.asrValue = IF manifest'.speech THEN 800 ELSE 0
        BY <1>1, <1>2, <2>1, CensusKeeps DEF Handed
  <2>3. bundle' = None /\ graph' = None
        BY <1>2, <2>1
  <2>4. TypeOK'
        BY <2>2, <2>3 DEF TypeOK
  <2>5. Handed'
        BY <2>2, <2>3 DEF Handed
  <2>6. QED BY <2>2, <2>4, <2>5 DEF IInv
<1>3. CASE Extract
      BY <1>1, <1>3, ExtractKeeps DEF IInv
<1>4. CASE Fuse
      BY <1>1, <1>4, FuseKeeps DEF IInv
<1>5. CASE UNCHANGED vars
  <2>1. UNCHANGED <<video, audio, visual, structure, lost, manifest, bundle, graph>>
        BY <1>5 DEF vars, census
  <2>2. TypeOK'
        BY <1>1, <2>1 DEF TypeOK, CensusTypeOK
  <2>3. Handed'
        BY <1>1, <2>1 DEF Handed
  <2>4. bundle = None => CensusInv'
        BY <2>1 DEF IInv, CensusInv, HeardSoFar, SeenSoFar, Assembled, Probed,
                    OcrRequired, ProbingConfidence
  <2>5. QED BY <2>1, <2>2, <2>3, <2>4 DEF IInv
<1>6. QED BY <1>2, <1>3, <1>4, <1>5 DEF Next

LEMMA InvariantHolds == Spec => []IInv
BY InitEstablishes, NextPreserves, PTL DEF Spec

-----------------------------------------------------------------------------
(* Theorems.                                                               *)

\* Stages A to C only store what the contracts allow: manifest, bundle and
\* graph have the types and the ranges of signal_manifests,
\* v3_extractor_bundles and v3_evidence_graphs.
THEOREM TypeCorrect == Spec => []TypeOK
<1>1. IInv => TypeOK
      BY DEF IInv
<1>2. QED BY <1>1, InvariantHolds, PTL

\* Stage A asks for no extractor only if there is nothing to hear and nothing
\* to read, or a failure has kept a probe from looking; however many frames
\* ffmpeg delivers and whatever the VLM answers.
THEOREM Overlooked == Spec => []NothingOverlooked
<1>1. IInv => NothingOverlooked
  <2> SUFFICES ASSUME IInv, video # None, manifest # None,
                      ~manifest.speech, ~manifest.ocrRequired,
                      lost \cap {"length", "voice", "audio", "visual", "text"} = {}
               PROVE  /\ video.length = "short" \/ video.voiced < 20
                      /\ video.captions < 2 /\ ~video.titled
      BY DEF NothingOverlooked
  <2>1. bundle = None
        BY DEF IInv, Handed
  <2>2. HeardSoFar /\ SeenSoFar /\ Assembled
        BY <2>1 DEF IInv, CensusInv
  <2>3. ~audio.speech /\ ~OcrRequired /\ audio.step = "done" /\ visual # None
        BY <2>2 DEF Assembled, Probed
  <2>4. /\ lost \cap {"length", "voice", "audio"} = {}
        /\ lost \cap {"visual", "text"} = {}
        OBVIOUS
  <2>5. video.length = "short" \/ video.voiced < 20
        BY <2>2, <2>3, <2>4 DEF HeardSoFar
  <2>6. ~visual.text /\ ~video.titled
        BY <2>3 DEF OcrRequired
  <2>7. video.captions < 2
        BY <2>2, <2>3, <2>4, <2>6 DEF SeenSoFar
  <2>8. QED BY <2>5, <2>6, <2>7
<1>2. QED BY <1>1, InvariantHolds, PTL

\* What the probes have lost lowers probing_confidence, however sure the
\* other probe is.
THEOREM LossShows == Spec => []LossIsVisible
<1>1. IInv => LossIsVisible
  <2> SUFFICES ASSUME IInv, manifest # None
               PROVE  /\ "voice" \in lost => manifest.confidence <= 600
                      /\ lost \cap {"audio", "visual"} # {} => manifest.confidence <= 200
      BY DEF LossIsVisible
  <2>1. CASE bundle # None
        BY <2>1 DEF IInv, Handed
  <2>2. CASE bundle = None
    <3>1. /\ HeardSoFar /\ SeenSoFar
          /\ audio.step = "done" /\ visual # None
          /\ manifest.confidence = Lesser(audio.confidence, visual.confidence)
          BY <2>2 DEF IInv, CensusInv, Assembled, Probed, ProbingConfidence
    <3>2. audio.confidence \in 0..1000 /\ visual.confidence \in 0..1000
          BY <3>1 DEF IInv, TypeOK, CensusTypeOK, AudioProbe, VisualProbe, Confidence
    <3>3. /\ "audio" \in lost => audio.confidence <= 200
          /\ "voice" \in lost => audio.confidence <= 600
          BY <3>1 DEF HeardSoFar
    <3>4. "visual" \in lost => visual.confidence <= 200
          BY <3>1, <3>2 DEF SeenSoFar
    <3>5. /\ audio.confidence <= 600 => manifest.confidence <= 600
          /\ audio.confidence <= 200 \/ visual.confidence <= 200
                => manifest.confidence <= 200
      <4>1. manifest.confidence = Lesser(audio.confidence, visual.confidence)
            BY <3>1
      <4>2. /\ audio.confidence <= 600
                  => Lesser(audio.confidence, visual.confidence) <= 600
            /\ audio.confidence <= 200 \/ visual.confidence <= 200
                  => Lesser(audio.confidence, visual.confidence) <= 200
            BY <3>2, LesserIsBounded, ZenonT(60)
      <4>3. QED BY <4>1, <4>2
    <3>6. "voice" \in lost => manifest.confidence <= 600
          BY <3>3, <3>5, ZenonT(60)
    <3>7. lost \cap {"audio", "visual"} # {} => "audio" \in lost \/ "visual" \in lost
          OBVIOUS
    <3>8. lost \cap {"audio", "visual"} # {} => manifest.confidence <= 200
          BY <3>3, <3>4, <3>5, <3>7, ZenonT(60)
    <3>9. QED BY <3>6, <3>8
  <2>3. QED BY <2>1, <2>2
<1>2. QED BY <1>1, InvariantHolds, PTL

\* A transcript exists only where the census has heard speech, and there the
\* expected value takes nothing away from it.
THEOREM SpeechIsHeard == Spec => []SpeechIsNotSilenced
<1>1. ASSUME IInv, graph # None
      PROVE  /\ manifest # None /\ manifest \in Manifest
             /\ SpeechHeard(manifest, bundle)
             /\ manifest.speech => manifest.asrValue = 800
             /\ graph.asrWeight = AsrWeight(manifest, bundle)
  <2>1. bundle # None /\ graph.asrWeight = AsrWeight(manifest, bundle)
        BY <1>1 DEF IInv, Handed
  <2>2. manifest # None /\ SpeechHeard(manifest, bundle)
        BY <1>1, <2>1 DEF IInv, Handed, SpeechHeard
  <2>3. manifest.asrValue = IF manifest.speech THEN 800 ELSE 0
        BY <1>1, <2>2 DEF IInv, Handed
  <2>4. manifest \in Manifest
        BY <1>1, <2>2 DEF IInv, TypeOK, CensusTypeOK
  <2>5. QED BY <2>1, <2>2, <2>3, <2>4
<1>2. IInv => SpeechIsNotSilenced
      BY <1>1 DEF SpeechIsNotSilenced, SpeechHeard, AsrWeight
<1>3. QED BY <1>2, InvariantHolds, PTL

\* The type the VLM has answered with is the type of the graph, and a
\* structure of which nothing was read costs confidence.
THEOREM StructureKept == Spec => []StructureIsKept
<1>1. IInv => StructureIsKept
  <2> SUFFICES ASSUME IInv, graph # None, manifest.type # "none"
               PROVE  /\ graph.type = manifest.type
                      /\ bundle.ocr = <<>> => graph.confidence <= 550
      BY DEF StructureIsKept
  <2>1. manifest \in Manifest /\ bundle \in Bundle
        BY DEF IInv, Handed, TypeOK, CensusTypeOK
  <2>2. /\ graph.type = EffectiveType(manifest, bundle)
        /\ graph.confidence = GraphConfidence(manifest, bundle)
        BY DEF IInv, Handed
  <2>3. graph.type = manifest.type
        BY <2>2 DEF EffectiveType
  <2>4. bundle.ocr = <<>> => graph.confidence <= 550
        BY <2>1, <2>2, UnreadStructureCosts
  <2>5. QED BY <2>3, <2>4
<1>2. QED BY <1>1, InvariantHolds, PTL

\* Evidence of one kind never costs more than it is worth, for every manifest
\* and every bundle Stages A and B can store.
THEOREM EvidenceIsWorth == Spec => []MoreEvidenceIsNoLess
<1>1. IInv => MoreEvidenceIsNoLess
  <2> SUFFICES ASSUME IInv, graph # None
               PROVE  MoreEvidenceIsNoLess
      BY DEF MoreEvidenceIsNoLess
  <2> DEFINE unread == [bundle EXCEPT !.ocr = <<>>]
             unsaid == [bundle EXCEPT !.asr = <<>>]
  <2>1. manifest \in Manifest /\ bundle \in Bundle
        BY DEF IInv, Handed, TypeOK, CensusTypeOK
  <2>2. graph.confidence = GraphConfidence(manifest, bundle)
        BY DEF IInv, Handed
  <2>3. unread \in Bundle /\ LacksText(unread, bundle)
        BY <2>1, SegmentsAssumption DEF Bundle, LacksText
  <2>4. unsaid \in Bundle /\ LacksSpeech(unsaid, bundle)
        BY <2>1, SegmentsAssumption DEF Bundle, LacksSpeech
  <2>5. SpeechHeard(manifest, bundle)
        BY DEF IInv, Handed, SpeechHeard
  <2> HIDE DEF unread, unsaid
  <2>6. GraphConfidence(manifest, bundle) >= GraphConfidence(manifest, unread)
        BY <2>1, <2>3, TextIsNoLess
  <2>7. GraphConfidence(manifest, bundle) >= GraphConfidence(manifest, unsaid)
        BY <2>1, <2>4, <2>5, SpeechIsNoLess
  <2>8. QED BY <2>2, <2>6, <2>7 DEF MoreEvidenceIsNoLess, unread, unsaid
<1>2. QED BY <1>1, InvariantHolds, PTL
==============================================================================
