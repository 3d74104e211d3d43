---------------------------- MODULE MCJobPipeline ----------------------------
(* Small instances of JobPipeline for TLC.                                 *)
EXTENDS JobPipeline, TLC, FiniteSets

AllKinds == Kind \cup {"submit"}
Workers == Kind

\* One retry per task instead of the code's two to five: enough for a task
\* to be repeated and to be exhausted.
OneRetry == [k \in Kind |-> 1]
FewRetries ==
    [k \in Kind |-> IF k \in {"download", "fusion"} THEN 1 ELSE 0]
NoRetry == [k \in Kind |-> 0]

BothOrNeither == {{}, Modality}
AnyProbe == SUBSET Modality

Interchangeable == Permutations(Slot)
==============================================================================
