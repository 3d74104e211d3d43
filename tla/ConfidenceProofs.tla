-------------------------- MODULE ConfidenceProofs ---------------------------
(***************************************************************************)
(* Theorems about Confidence for every table of thresholds that fits       *)
(* together, every penalty and every limit of attempts.                    *)
(***************************************************************************)
EXTENDS Confidence, TLAPS

\* The verdict is the one the scores of this attempt give.
Judged ==
    verdict # None =>
        /\ verdict.rescan = Rescans
        /\ verdict.markers = Markers
        /\ verdict.confident = (Trusted /\ Markers = {})

IInv == TypeOK /\ Judged

-----------------------------------------------------------------------------
(* The operators.                                                          *)

\* Whatever was delivered, a score is a number from 0 to 100.
LEMMA ScoreInRange ==
    ASSUME TypeOK, NEW s \in Signal
    PROVE  Score(s) \in 0..100
<1>1. CASE s = "timeline"
  <2>1. CASE timeline = None
        BY <1>1, <2>1 DEF Score
  <2>2. CASE timeline # None
    <3>1. timeline.score \in 0..100 /\ timeline.gaps \in BOOLEAN
          BY <2>2, PercentAssumption DEF TypeOK, Timelines
    <3>2. Reduced \in 0..100
          BY <3>1, PolicyAssumption DEF Reduced, AtLeast
    <3>3. QED BY <1>1, <2>2, <3>2 DEF Score
  <2>3. QED BY <2>1, <2>2
<1>2. CASE s # "timeline"
  <2>1. s \in Extracted
        BY <1>2 DEF Signal
  <2>2. result[s] \in Percent \cup {None, NoAudio}
        BY <2>1 DEF TypeOK, Results
  <2>3. CASE result[s] \in {None, NoAudio}
        BY <1>2, <2>3 DEF Score
  <2>4. CASE result[s] \notin {None, NoAudio}
    <3>1. result[s] \in 0..100
          BY <2>2, <2>4, PercentAssumption
    <3>2. QED BY <1>2, <2>4, <3>1 DEF Score
  <2>5. QED BY <2>3, <2>4
<1>3. QED BY <1>1, <1>2

\* What delivered nothing is low.
LEMMA NothingIsLow ==
    ASSUME TypeOK, result["asr"] = None
    PROVE  "asr" \in Markers /\ "asr" \notin Rescans
<1>1. Score("asr") = 0
      BY DEF Score
<1>2. Low["asr"] \in 1..100
      BY ThresholdAssumption DEF Signal, Extracted
<1>3. "asr" \in Markers
      BY <1>1, <1>2 DEF Markers, IsLow, Signal, Extracted
<1>4. ~HasData("asr")
      BY DEF HasData
<1>5. QED BY <1>3, <1>4 DEF Rescans

\* What is scanned again is below the threshold of the scorer, too.
LEMMA RescansAreMarked ==
    ASSUME TypeOK
    PROVE  Rescans \subseteq Markers
<1> SUFFICES ASSUME NEW s \in Rescans PROVE s \in Markers
    OBVIOUS
<1>1. s \in {"asr", "ocr"} /\ Score(s) < RescanAt[s]
      BY DEF Rescans
<1>2. s \in Signal
      BY <1>1 DEF Signal, Extracted
<1>3. RescanAt[s] <= Low[s] /\ RescanAt[s] \in Int /\ Low[s] \in Int
      BY <1>1, <1>2, ThresholdAssumption
<1>4. Score(s) < Low[s]
      BY <1>1, <1>2, <1>3, ScoreInRange
<1>5. QED BY <1>2, <1>4 DEF Markers, IsLow

\* Without a mark the rules have nothing to object to.
LEMMA UnmarkedIsTrusted ==
    ASSUME TypeOK, Markers = {}
    PROVE  Trusted
<1>1. Rescans = {}
      BY RescansAreMarked
<1>2. ~Downgraded
  <2> SUFFICES ASSUME NEW s \in Signal, Score(s) < DowngradeAt PROVE FALSE
      BY DEF Downgraded
  <2>1. DowngradeAt <= Low[s] /\ DowngradeAt \in Int /\ Low[s] \in Int
        BY ThresholdAssumption
  <2>2. Score(s) < Low[s]
        BY <2>1, ScoreInRange
  <2>3. QED BY <2>2 DEF Markers, IsLow
<1>3. QED BY <1>1, <1>2 DEF Trusted

-----------------------------------------------------------------------------
(* The invariant.                                                          *)

LEMMA InitEstablishes == Init => IInv
<1> SUFFICES ASSUME Init PROVE IInv
    OBVIOUS
<1>1. result \in Results
      BY DEF Init
<1>2. timeline \in Timelines \cup {None}
      BY DEF Init, Aligned
<1>3. QED BY <1>1, <1>2, PolicyAssumption DEF Init, IInv, TypeOK, Judged

LEMMA NextPreserves == IInv /\ [Next]_vars => IInv'
<1> SUFFICES ASSUME IInv, [Next]_vars PROVE IInv'
    OBVIOUS
<1> USE DEF IInv
<1>1. CASE Evaluate
  <2>1. Rescans \in SUBSET {"asr", "ocr"} /\ Markers \in SUBSET Signal
        BY DEF Rescans, Markers
  <2>2. Downgraded \in BOOLEAN /\ (Rescans = {}) \in BOOLEAN
        BY DEF Downgraded
  <2>3. (Trusted /\ Markers = {}) \in BOOLEAN
        BY DEF Trusted
  <2>4. verdict' \in Verdict
        BY <1>1, <2>1, <2>2, <2>3 DEF Evaluate, Verdict
  <2>5. TypeOK'
        BY <1>1, <2>4 DEF Evaluate, TypeOK
  <2>6. Judged'
    <3>1. Rescans' = Rescans /\ Markers' = Markers /\ Trusted' = Trusted
          BY <1>1 DEF Evaluate, Rescans, Markers, Trusted, Downgraded, IsLow,
                      Score, Reduced, HasData
    <3>2. QED BY <1>1, <3>1 DEF Evaluate, Judged
  <2>7. QED BY <2>5, <2>6
<1>2. CASE Rescan
  <2>1. result' \in Results
        BY <1>2 DEF Rescan, Again, TypeOK, Results, Result, Extracted
  <2>2. timeline' \in Timelines \cup {None}
        BY <1>2 DEF Rescan, Aligned
  <2>3. attempt' \in 0..MaxAttempts
    <3>1. Rescans # {}
          BY <1>2 DEF Rescan, Judged
    <3>2. attempt < MaxAttempts
          BY <3>1, PolicyAssumption DEF Rescans, TypeOK
    <3>3. QED BY <1>2, <3>2, PolicyAssumption DEF Rescan, TypeOK
  <2>4. QED BY <1>2, <2>1, <2>2, <2>3 DEF Rescan, TypeOK, Judged
<1>3. CASE UNCHANGED vars
  <2>1. Rescans' = Rescans /\ Markers' = Markers /\ Trusted' = Trusted
        BY <1>3 DEF vars, Rescans, Markers, Trusted, Downgraded, IsLow,
                    Score, Reduced, HasData
  <2>2. QED BY <1>3, <2>1 DEF vars, TypeOK, Judged
<1>4. QED BY <1>1, <1>2, <1>3 DEF Next

-----------------------------------------------------------------------------
(* The theorems.                                                           *)

\* Types are kept, and the attempts of evaluate()'s caller never pass
\* MAX_RESCAN_ATTEMPTS.
THEOREM TypeCorrect == Spec => []TypeOK
BY InitEstablishes, NextPreserves, PTL DEF Spec, IInv

\* For all thresholds that fit together, the verdict of rules.py and the
\* marks of policy.py agree at every attempt.
THEOREM MarksAlwaysAgree == Spec => []MarksAgree
<1>1. IInv => MarksAgree
  <2> SUFFICES ASSUME IInv, verdict # None
               PROVE  /\ verdict.confident <=> verdict.markers = {}
                      /\ verdict.rescan \subseteq verdict.markers
      BY DEF MarksAgree
  <2>1. Markers = {} => Trusted
        BY UnmarkedIsTrusted DEF IInv
  <2>2. verdict.confident <=> verdict.markers = {}
        BY <2>1 DEF IInv, Judged
  <2>3. QED BY <2>2, RescansAreMarked DEF IInv, Judged
<1>2. QED BY <1>1, InitEstablishes, NextPreserves, PTL DEF Spec

\* Speech recognition that has delivered nothing is marked as uncertain by
\* this verdict and by every later one: no rescan brings it back.
THEOREM LostSpeechMarked == Spec => LostSpeechStaysMarked
<1> DEFINE Lost == result["asr"] = None
           Marked == verdict # None => "asr" \in verdict.markers
<1>1. IInv /\ Lost => Marked
      BY NothingIsLow DEF IInv, Judged
<1>2. IInv /\ Lost /\ [Next]_vars => Lost'
  <2> SUFFICES ASSUME IInv, Lost, [Next]_vars PROVE Lost'
      OBVIOUS
  <2>1. CASE Rescan
    <3>1. "asr" \notin verdict.rescan
          BY <2>1, NothingIsLow DEF Rescan, IInv, Judged
    <3>2. QED BY <2>1, <3>1 DEF Rescan, Again, IInv, TypeOK, Results, Extracted
  <2>2. CASE Evaluate \/ UNCHANGED vars
        BY <2>2 DEF Evaluate, vars
  <2>3. QED BY <2>1, <2>2 DEF Next
<1>3. IInv /\ verdict # None /\ result["asr"] = None => Lost
      OBVIOUS
<1> HIDE DEF Lost, Marked
<1>4. Spec /\ []IInv => []((verdict # None /\ result["asr"] = None) => []Marked)
      BY <1>1, <1>2, <1>3, PTL DEF Spec
<1>5. QED BY <1>4, InitEstablishes, NextPreserves, PTL
          DEF Spec, LostSpeechStaysMarked, Marked
==============================================================================
