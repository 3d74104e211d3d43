------------------------------- MODULE Census --------------------------------
(***************************************************************************)
(* What Stage A makes of one video: the probes and the manifest.           *)
(*                                                                         *)
(* Every probe has ways to fail of its own and answers a failure with safe *)
(* defaults, so the stage itself hardly ever fails; what the defaults hide *)
(* is what the later stages will never look for.  Confidences and the      *)
(* density of text are in thousandths.  Faces, motion, aspect ratio and    *)
(* content format are read by no later stage and left out.                 *)
(***************************************************************************)
EXTENDS Integers, FiniteSets

CONSTANTS
    None,       \* no manifest, no result yet
    Voiced,     \* shares of voiced frames, in percent
    Captioned,  \* numbers of sampled frames with readable text
    Sampled,    \* numbers of frames ffmpeg may deliver
    Answers     \* structural types the VLM may answer with

\* valid_types of vlm_structural_probe.py, and the types that suggest text.
TextType == {"list", "ranking", "countdown", "compilation", "slideshow",
             "infographic"}
ValidType == TextType \cup {"none"}

ASSUME InputAssumption ==
    /\ Voiced \subseteq 0..100 /\ Captioned \subseteq Nat /\ Sampled \subseteq Nat
    /\ "none" \in Answers

\* The densities of text the VLM answers with: below and above
\* OVERLAY_TEXT_DENSITY_OCR_THRESHOLD, and one the contract refuses.
Density == {-1, 0, 150}

VARIABLES
    video,      \* what there is to hear and to see, or None once it is probed
    audio,      \* the audio probe
    visual,     \* the visual probe, or None
    structure,  \* the answer of the VLM, or None
    lost,       \* what a failure has kept a probe from looking at
    manifest    \* the row of signal_manifests, or None

census == <<video, audio, visual, structure, lost, manifest>>

\* length: what ffprobe reports, under or over a second; a container need
\* not name its duration.
\* titled: the title has ordinals or list keywords.
Video == [length : {"unnamed", "short", "long"}, voiced : Voiced,
          music : BOOLEAN, captions : Captioned, titled : BOOLEAN]

Confidence == 0..1000

\* "sfx", which the contract allows, is never found.
AudioType == {"speech_music", "speech_only", "music_only", "ambient", "silent"}

AudioProbe ==
    [step : {"measure", "voice", "music", "done"}, type : AudioType,
     speech : BOOLEAN, music : BOOLEAN, voiceConfidence : Confidence,
     confidence : Confidence]

VisualProbe == [text : BOOLEAN, confidence : Confidence]
StructureProbe == [type : ValidType, density : Density]

Manifest ==
    [audioType : AudioType, speech : BOOLEAN, music : BOOLEAN,
     ocrRequired : BOOLEAN, asrValue : {0, 800}, type : ValidType, confidence : Confidence]

ASSUME NoneAssumption ==
    None \notin Video \cup VisualProbe \cup StructureProbe \cup Manifest

CensusTypeOK ==
    /\ video \in Video \cup {None}
    /\ audio \in AudioProbe
    /\ visual = None \/ visual \in VisualProbe
    /\ structure = None \/ structure \in StructureProbe
    /\ lost \in SUBSET {"length", "voice", "music", "audio", "visual", "text", "structure"}
    /\ manifest \in Manifest \cup {None}

\* Before a part of the audio probe: what the parts before it have heard.
Before(step, speech, voiceConfidence) ==
    [step |-> step, type |-> "silent", speech |-> speech, music |-> FALSE,
     voiceConfidence |-> voiceConfidence, confidence |-> 0]

Unheard == Before("measure", FALSE, 0)

CensusInit ==
    /\ video \in Video
    /\ audio = Unheard
    /\ visual = None
    /\ structure = None
    /\ lost = {}
    /\ manifest = None

-----------------------------------------------------------------------------
(* probe_audio.                                                            *)

Lesser(a, b) == IF a < b THEN a ELSE b

Hears(record, missed) ==
    /\ audio' = record
    /\ lost' = lost \cup missed
    /\ UNCHANGED <<video, visual, structure, manifest>>

\* Without speech and music.
Quiet(type, confidence) ==
    [step |-> "done", type |-> type, speech |-> FALSE, music |-> FALSE,
     voiceConfidence |-> 0, confidence |-> confidence]

\* ffprobe names the duration, or does not, or cannot be run.  Without a
\* duration of a second the video is silent; it counts as certain unless
\* ffprobe raised.
Measure ==
    /\ audio.step = "measure"
    /\ \/ Hears(Quiet("silent", 300), {"length"})
       \/ video.length = "unnamed" /\ Hears(Quiet("silent", 1000), {"length"})
       \/ video.length = "short" /\ Hears(Quiet("silent", 1000), {})
       \/ video.length = "long" /\ Hears(Before("voice", FALSE, 0), {})

\* webrtcvad: speech from a fifth of the frames on.  300: it fails or gets no
\* frames; 400: it is not installed.
Voice ==
    /\ audio.step = "voice"
    /\ \/ Hears(Before("music", video.voiced >= 20,
                       Lesser(50 * video.voiced, 1000)), {})
       \/ \E c \in {300, 400} : Hears(Before("music", FALSE, c), {"voice"})

TypeHeard(speech, music) ==
    IF speech THEN IF music THEN "speech_music" ELSE "speech_only"
              ELSE IF music THEN "music_only" ELSE "ambient"

Concludes(music, confidence) ==
    [step |-> "done", speech |-> audio.speech, music |-> music,
     type |-> TypeHeard(audio.speech, music), voiceConfidence |-> 0,
     confidence |-> (audio.voiceConfidence + confidence) \div 2]

\* librosa; without it the bitrate decides, whatever there is to hear.
Music ==
    /\ audio.step = "music"
    /\ \/ video.music /\ Hears(Concludes(TRUE, 800), {})
       \/ ~video.music /\ Hears(Concludes(FALSE, 700), {})
       \/ Hears(Concludes(TRUE, 500), {"music"})
       \/ \E c \in {300, 500} : Hears(Concludes(FALSE, c), {"music"})

\* The timer of 60 seconds has run out at one of the checks, or something
\* unexpected is raised: what was heard so far is thrown away.
AudioGivesUp ==
    /\ audio.step # "done"
    /\ \E c \in {100, 200} : Hears(Quiet("ambient", c), {"audio"})

-----------------------------------------------------------------------------
(* probe_visual and probe_structure_vlm.                                   *)

Greater(a, b) == IF a > b THEN a ELSE b

\* Seeded fault: the full number of frames is asked for.
TextMinimumUnhalved(frames) == Lesser(5, frames)

\* adaptive_text_min.
TextMinimum(frames) == Greater(1, Lesser(5, frames) \div 2)

Sees(text, confidence, missed) ==
    /\ visual = None
    /\ visual' = [text |-> text, confidence |-> confidence]
    /\ lost' = lost \cup missed
    /\ UNCHANGED <<video, audio, structure, manifest>>

\* Too few frames, a timeout, an unreadable video.
VisualGivesUp == Sees(FALSE, 100, {"visual"})

\* OCR looks at every sampled frame; where it is not installed it finds
\* nothing, and says so to nobody.  If it fails, one frame is enough.
Visual ==
    \E frames \in {n \in Sampled : n >= 2} :
        LET confidence == IF frames < 15 THEN 500 ELSE 750 IN
        \/ Sees(Lesser(video.captions, frames) >= TextMinimum(frames),
                confidence, {})
        \/ \E text \in {FALSE, video.captions > 0} :
                Sees(text, confidence, {"text"})

Answered(type, density, missed) ==
    /\ visual # None /\ structure = None
    /\ structure' = [type |-> type, density |-> density]
    /\ lost' = lost \cup missed
    /\ UNCHANGED <<video, audio, visual, manifest>>

\* Seeded fault: the answer of the VLM is taken as it is.
StructureUnchecked ==
    \E type \in Answers, density \in Density : Answered(type, density, {})

\* An answer that is not a valid type becomes "none"; the density stays.
Structure ==
    \/ \E type \in Answers, density \in Density :
            Answered(IF type \in ValidType THEN type ELSE "none", density, {})
    \/ Answered("none", 0, {"structure"})

-----------------------------------------------------------------------------
(* The manifest.                                                           *)

Probed == audio.step = "done" /\ visual # None /\ structure # None

\* _compute_ocr_required.
OcrRequired ==
    \/ visual.text
    \/ structure.type \in TextType
    \/ structure.density >= 150
    \/ video.titled

\* Seeded fault: the confidences of the probes are averaged.
ProbingConfidenceAveraged == (audio.confidence + visual.confidence) \div 2

ProbingConfidence == Lesser(audio.confidence, visual.confidence)

\* Seeded fault: speech over a structural video counts as lyrics.
AsrValueByStructure ==
    IF audio.speech /\ structure.type = "none" THEN 800 ELSE 0

AsrValue == IF audio.speech THEN 800 ELSE 0

Assemble ==
    /\ Probed /\ manifest = None
    /\ structure.density >= 0
    /\ manifest' = [audioType |-> audio.type, speech |-> audio.speech,
                    music |-> audio.music, ocrRequired |-> OcrRequired,
                    asrValue |-> AsrValue, type |-> structure.type,
                    confidence |-> ProbingConfidence]
    /\ UNCHANGED <<video, audio, visual, structure, lost>>

\* The contract refuses the manifest and the stage is retried.
Refused ==
    /\ Probed /\ manifest = None
    /\ structure.density < 0
    /\ audio' = Unheard
    /\ visual' = None
    /\ structure' = None
    /\ lost' = {}
    /\ UNCHANGED <<video, manifest>>

CensusNext ==
    \/ Measure \/ Voice \/ Music \/ AudioGivesUp
    \/ VisualGivesUp \/ Visual \/ Structure
    \/ Assemble \/ Refused

-----------------------------------------------------------------------------
(* Properties.                                                             *)

\* A manifest that asks for no extractor leaves the job without evidence:
\* unless a failure has kept a probe from looking, there is nothing to hear
\* and nothing to read in the video.  One sampled frame with text may be
\* noise, two are not.
NothingOverlooked ==
    video # None /\ manifest # None /\ ~manifest.speech /\ ~manifest.ocrRequired =>
        \/ lost \cap {"length", "voice", "audio", "visual", "text"} # {}
        \/ /\ video.length = "short" \/ video.voiced < 20
           /\ video.captions < 2 /\ ~video.titled

\* probing_confidence shows that a probe has answered with its defaults, or
\* has not looked for speech, however well the other one did; but not that a
\* duration is unnamed, nor that OCR or librosa is not installed.
LossIsVisible ==
    manifest # None =>
        /\ "voice" \in lost => manifest.confidence <= 600
        /\ lost \cap {"audio", "visual"} # {} => manifest.confidence <= 200
==============================================================================
