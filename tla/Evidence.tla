------------------------------ MODULE Evidence ------------------------------
(***************************************************************************)
(* What Stages A to C make of one video: the manifest of Stage A (Census)  *)
(* decides what Stage B extracts, and Stage C fuses it into a graph.  Each *)
(* stage knows only what the one before has stored, and each judges by     *)
(* itself whether the video has a structure and what can be trusted.       *)
(* How the stages are dispatched, repeated and lost is in JobPipeline;     *)
(* what is made of the graph is in Reasoning.                              *)
(***************************************************************************)
EXTENDS Census, SequencesExt

CONSTANT
    Segments    \* what an extractor may deliver: for every segment the first number
                \* in its text, 0 for none from 1 to 100

ASSUME SegmentsAssumption ==
    Segments \subseteq Seq(0..100) /\ <<>> \in Segments

VARIABLES
    bundle,    \* the row of v3_extractor_bundles, or None
    graph      \* the row of v3_evidence_graphs, or None

vars == <<census, bundle, graph>>

Bundle == [asr : Segments, ocr : Segments, degraded : BOOLEAN]

Graph == [type : ValidType, modality : {"asr", "ocr", "mixed"},
          asrWeight : {0, 500, 800, 1000}, confidence : Confidence]

ASSUME NoBundleAssumption == None \notin Bundle \cup Graph

TypeOK ==
    /\ CensusTypeOK
    /\ bundle \in Bundle \cup {None}
    /\ graph \in Graph \cup {None}

Init ==
    /\ CensusInit
    /\ bundle = None
    /\ graph = None

-----------------------------------------------------------------------------
(* Stage B: V3ASRExtractor.extract and the frames v3_run_ocr reads.        *)

\* More than three tenths of the speech, or two seconds and a half in one
\* piece, are not transcribed.  In milliseconds.
Degraded(spoken, written, gap) ==
    /\ spoken > 0
    /\ 10 * (spoken - written) > 3 * spoken \/ gap > 2500

\* Whisper may hear more, or less, than the voice detection.
Transcribed ==
    [asr : Segments \ {<<>>},
     degraded : {Degraded(spoken, written, gap) :
        spoken \in {0, 3000}, written \in {2000, 4000}, gap \in {0, 2600}}]

\* Without a segment nothing is transcribed.
Untranscribed ==
    [asr : {<<>>}, degraded : {Degraded(spoken, 0, spoken) : spoken \in {0, 3000}}]

\* An extractor that is not asked for, or fails, leaves no segments.
Transcripts ==
    IF manifest.speech THEN Untranscribed \cup Transcribed
                       ELSE [asr : {<<>>}, degraded : {FALSE}]

Texts == IF manifest.ocrRequired THEN Segments ELSE {<<>>}

\* The probes' results are local to Stage A; only the manifest is left.
Extract ==
    /\ manifest # None /\ bundle = None
    /\ \E t \in Transcripts, ocr \in Texts :
            bundle' = [asr |-> t.asr, ocr |-> ocr, degraded |-> t.degraded]
    /\ video' = None
    /\ audio' = Unheard
    /\ visual' = None
    /\ structure' = None
    /\ lost' = {}
    /\ UNCHANGED <<manifest, graph>>

-----------------------------------------------------------------------------
(* Stage C: v3_resolve_conflicts, for a manifest m and a bundle b.         *)

Structural(m) == m.type # "none"

Modality(m, b) ==
    IF Structural(m) \/ b.degraded
    THEN IF b.ocr # <<>> THEN "ocr" ELSE "mixed"
    ELSE IF m.speech THEN "asr"
    ELSE IF b.ocr # <<>> /\ b.asr = <<>> THEN "ocr" ELSE "mixed"

Conflict(m, b) ==
    b.asr # <<>> /\ b.ocr # <<>> /\ (Structural(m) \/ b.degraded)

\* What is left of the confidence of the ASR segments.
AsrWeight(m, b) ==
    IF Conflict(m, b) THEN 500
    ELSE IF b.asr # <<>> /\ m.asrValue < 500 THEN m.asrValue ELSE 1000

-----------------------------------------------------------------------------
(* Stage C: score_ordinal_patterns and the effective type.                 *)

Numbers(segments) == SelectSeq(segments, LAMBDA n : n # 0)

\* The steps down, and up, from one number to the next.
Decrements(ns) == Cardinality({i \in 2..Len(ns) : ns[i] < ns[i - 1]})
Increments(ns) == Cardinality({i \in 2..Len(ns) : ns[i] > ns[i - 1]})

\* countdown_likelihood >= 0.5.
CountsDown(segments) ==
    LET ns == Numbers(segments) IN
    /\ Len(ns) >= 3
    /\ Decrements(ns) > Increments(ns)
    /\ 3 * Decrements(ns) >= Len(ns) - 1

\* ordinal_pattern_score >= 0.5: one segment in ten has a number.
Enumerates(segments) ==
    Numbers(segments) # <<>> /\ 10 * Len(Numbers(segments)) >= Len(segments)

Pattern(segments) ==
    IF CountsDown(segments) THEN "countdown"
    ELSE IF Enumerates(segments) THEN "list" ELSE "none"

\* Seeded fault: the pattern of the text outweighs the type of the manifest.
EffectiveTypeByPattern(m, b) ==
    IF Pattern(b.ocr) # "none" THEN Pattern(b.ocr) ELSE m.type

\* The text is asked first, the speech only if the text has no pattern.
EffectiveType(m, b) ==
    IF m.type # "none" THEN m.type
    ELSE IF Pattern(b.ocr) # "none" THEN Pattern(b.ocr) ELSE Pattern(b.asr)

-----------------------------------------------------------------------------
(* Stage C: _compute_evidence_confidence and the graph.                    *)

Cost(condition, amount) == IF condition THEN amount ELSE 0

\* Seeded fault: a conflict costs also if OCR has settled it.
GraphConfidenceConflict(m, b) ==
    IF b.asr = <<>> /\ b.ocr = <<>> THEN 200
    ELSE Greater(150, 900
            - Cost(EffectiveType(m, b) # "none" /\ b.ocr = <<>>, 350)
            - Cost(b.degraded /\ b.ocr = <<>>, 250)
            - Cost(Modality(m, b) = "mixed", 100)
            - Cost(Conflict(m, b), 50))

GraphConfidence(m, b) ==
    IF b.asr = <<>> /\ b.ocr = <<>> THEN 200
    ELSE Greater(150, 900
            - Cost(EffectiveType(m, b) # "none" /\ b.ocr = <<>>, 350)
            - Cost(b.degraded /\ b.ocr = <<>>, 250)
            - Cost(Modality(m, b) = "mixed", 100)
            - Cost(Conflict(m, b) /\ b.ocr = <<>>, 50))

Fuse ==
    /\ bundle # None /\ graph = None
    /\ graph' = [type |-> EffectiveType(manifest, bundle),
                 modality |-> Modality(manifest, bundle),
                 asrWeight |-> AsrWeight(manifest, bundle),
                 confidence |-> GraphConfidence(manifest, bundle)]
    /\ UNCHANGED <<census, bundle>>

Next ==
    \/ bundle = None /\ CensusNext /\ UNCHANGED <<bundle, graph>>
    \/ Extract
    \/ Fuse

Spec == Init /\ [][Next]_vars

-----------------------------------------------------------------------------
(* Properties.                                                             *)

\* Speech the census has heard is never silenced: a conflict halves the
\* confidence of a transcript at most, and the discount for a low expected
\* value is never applied to one, as Stage A stores 0.8 for any speech.
SpeechIsNotSilenced ==
    graph # None /\ bundle.asr # <<>> => graph.asrWeight >= 500

\* What the VLM has called a structure stays one, whatever numbers occur in
\* the text, and where nothing was read the graph shows what is missing.
StructureIsKept ==
    graph # None /\ manifest.type # "none" =>
        /\ graph.type = manifest.type
        /\ bundle.ocr = <<>> => graph.confidence <= 550

\* More evidence never lowers the confidence in the graph: what OCR adds to
\* a transcript and what a transcript adds to OCR may reveal a structure or
\* a conflict, but costs no more than its absence.
MoreEvidenceIsNoLess ==
    graph # None =>
        /\ graph.confidence >= GraphConfidence(manifest, [bundle EXCEPT !.ocr = <<>>])
        /\ graph.confidence >= GraphConfidence(manifest, [bundle EXCEPT !.asr = <<>>])
==============================================================================
