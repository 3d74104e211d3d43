---------------------------- MODULE MCConfidence -----------------------------
(* Confidence with the thresholds of the source and the scores around them. *)
EXTENDS Confidence

SourceLow == [s \in Signal |-> CASE s = "asr" -> 40 [] s = "ocr" -> 35
                                 [] s = "audio" -> 50 [] s = "timeline" -> 40]

SourceRescanAt == [s \in {"asr", "ocr"} |-> IF s = "asr" THEN 40 ELSE 35]
==============================================================================
