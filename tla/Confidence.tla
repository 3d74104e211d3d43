------------------------------ MODULE Confidence -----------------------------
(***************************************************************************)
(* The confidence controller: evaluate() scores what the extractors and    *)
(* the alignment have delivered and decides whether to go on or to scan    *)
(* again.  It is pure logic; who scans again, and calls it with the next   *)
(* attempt, is not part of the source and modelled by what a verdict asks  *)
(* of it.  Scores are percentages.                                         *)
(***************************************************************************)
EXTENDS Integers

CONSTANTS
    Percent,      \* the averages of the confidences of segments
    None,         \* a result that is missing, an error, or without segments
    NoAudio,      \* a result with the label no_audio
    Low,          \* [signal |-> the score below which its level is "low"]
    RescanAt,     \* [{"asr", "ocr"} |-> RESCAN_ASR_THRESHOLD, ..._OCR_...]
    DowngradeAt,  \* DOWNGRADE_THRESHOLD
    GapPenalty,   \* what gaps take off the score of the timeline
    MaxAttempts   \* MAX_RESCAN_ATTEMPTS

Extracted == {"asr", "ocr", "audio"}
Signal == Extracted \cup {"timeline"}

ASSUME PercentAssumption ==
    /\ Percent \subseteq 0..100
    /\ None \notin 0..100 /\ NoAudio \notin 0..100 /\ None # NoAudio
ASSUME PolicyAssumption == GapPenalty \in Nat /\ MaxAttempts \in Nat

\* The thresholds of scorer.py and rules.py fit together: nothing is scanned
\* again that is not low, and what is not low is not downgraded.
ASSUME ThresholdAssumption ==
    /\ Low \in [Signal -> 1..100]
    /\ RescanAt \in [{"asr", "ocr"} -> 0..100]
    /\ DowngradeAt \in 0..100
    /\ \A s \in {"asr", "ocr"} : RescanAt[s] <= Low[s]
    /\ \A s \in Signal : DowngradeAt <= Low[s]

VARIABLES
    result,    \* what every extractor has delivered
    timeline,  \* the aligned timeline: average confidence and gaps, or None
    attempt,   \* current_attempt
    verdict    \* the ConfidenceVerdict of this attempt, or None

vars == <<result, timeline, attempt, verdict>>

Result(s) == Percent \cup {None} \cup (IF s = "audio" THEN {NoAudio} ELSE {})

Results ==
    {r \in [Extracted -> Percent \cup {None, NoAudio}] :
        \A s \in Extracted : r[s] \in Result(s)}

Timelines == [score : Percent, gaps : BOOLEAN]

Verdict == [rescan : SUBSET {"asr", "ocr"}, downgraded : BOOLEAN,
            markers : SUBSET Signal, proceed : BOOLEAN, confident : BOOLEAN]

TypeOK ==
    /\ result \in Results
    /\ timeline \in Timelines \cup {None}
    /\ attempt \in 0..MaxAttempts
    /\ verdict \in Verdict \cup {None}

\* The alignment works on ASR and OCR only.
Aligned(r) ==
    IF r["asr"] = None /\ r["ocr"] = None THEN {None} ELSE Timelines

Init ==
    /\ result \in Results
    /\ timeline \in Aligned(result)
    /\ attempt = 0
    /\ verdict = None

-----------------------------------------------------------------------------
(* scorer.py.                                                              *)

AtLeast(n, floor) == IF n < floor THEN floor ELSE n

Reduced ==
    IF timeline.gaps THEN AtLeast(timeline.score - GapPenalty, 0)
                     ELSE timeline.score

HasData(s) ==
    IF s = "timeline" THEN timeline # None ELSE result[s] # None

Score(s) ==
    IF s = "timeline" THEN IF timeline = None THEN 0 ELSE Reduced
    ELSE IF result[s] \in {None, NoAudio} THEN 0 ELSE result[s]

IsLow(s) == Score(s) < Low[s]

-----------------------------------------------------------------------------
(* rules.py, policy.py and controller.py.                                  *)

\* Seeded fault: OCR that has just reached the threshold is scanned again.
RescansAtThreshold ==
    IF attempt >= MaxAttempts THEN {}
    ELSE {s \in {"asr", "ocr"} :
            Score(s) <= RescanAt[s] /\ (s = "asr" => HasData(s))}

\* Seeded fault: speech recognition that delivered nothing is repeated.
RescansWithoutData ==
    IF attempt >= MaxAttempts THEN {}
    ELSE {s \in {"asr", "ocr"} : Score(s) < RescanAt[s]}

\* Seeded fault: one attempt too many.
RescansOnceMore ==
    IF attempt > MaxAttempts THEN {}
    ELSE {s \in {"asr", "ocr"} :
            Score(s) < RescanAt[s] /\ (s = "asr" => HasData(s))}

\* Speech recognition that has delivered nothing is not repeated; OCR is.
Rescans ==
    IF attempt >= MaxAttempts THEN {}
    ELSE {s \in {"asr", "ocr"} :
            Score(s) < RescanAt[s] /\ (s = "asr" => HasData(s))}

Downgraded ==
    attempt >= MaxAttempts /\ \E s \in Signal : Score(s) < DowngradeAt

Trusted == Rescans = {} /\ ~Downgraded

Markers == {s \in Signal : IsLow(s)}

Evaluate ==
    /\ verdict = None
    /\ verdict' = [rescan |-> Rescans, downgraded |-> Downgraded,
                   markers |-> Markers, proceed |-> Rescans = {},
                   confident |-> Trusted /\ Markers = {}]
    /\ UNCHANGED <<result, timeline, attempt>>

Again(s) == IF s \in verdict.rescan THEN Result(s) ELSE {result[s]}

\* Seeded fault: the caller does not count the attempt.
RescanUncounted ==
    /\ verdict # None /\ verdict.rescan # {}
    /\ \E ocr \in Result("ocr") :
            result' = [result EXCEPT !["ocr"] = ocr]
    /\ timeline' \in Aligned(result')
    /\ verdict' = None
    /\ UNCHANGED attempt

\* The caller does what the verdict asks for, and aligns what it has got.
Rescan ==
    /\ verdict # None /\ verdict.rescan # {}
    /\ \E asr \in Again("asr"), ocr \in Again("ocr") :
            result' = [result EXCEPT !["asr"] = asr, !["ocr"] = ocr]
    /\ timeline' \in Aligned(result')
    /\ attempt' = attempt + 1
    /\ verdict' = None

Next == Evaluate \/ Rescan

Spec == Init /\ [][Next]_vars

\* The controller is called, and its caller does what it asks for.
FairSpec == Spec /\ WF_vars(Next)

-----------------------------------------------------------------------------
(* Properties.                                                             *)

\* evaluate() joins two judgements that know nothing of each other, the
\* levels of the scorer and the branches of the rules: the verdict is
\* confident exactly if no output is marked as uncertain, and what it wants
\* scanned again is marked, at every attempt.
MarksAgree ==
    verdict # None =>
        /\ verdict.confident <=> verdict.markers = {}
        /\ verdict.rescan \subseteq verdict.markers

\* Speech recognition that has failed is never asked for again, whatever
\* else is rescanned: the doubt about it stays to the last verdict.
LostSpeechStaysMarked ==
    []((verdict # None /\ result["asr"] = None) =>
            [](verdict # None => "asr" \in verdict.markers))

\* "Rescan stops at max attempt limit" (build.md:252): however the rescans
\* turn out, the controller lets the pipeline go on.
ComesToAVerdict == <>(verdict # None /\ verdict.proceed)
==============================================================================
