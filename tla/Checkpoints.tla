----------------------------- MODULE Checkpoints -----------------------------
(***************************************************************************)
(* What the pipeline promises about the durable results of a job: each is  *)
(* stored after the one it is computed from, none is ever taken back, and  *)
(* the evidence graph, from which the response is made, is written once.   *)
(* The retry endpoint relies on it: it resumes after the last result it    *)
(* finds and repeats nothing before it.                                    *)
(***************************************************************************)
CONSTANT None

VARIABLES
    video,      \* the video is in S3
    manifest,   \* the job has a signal manifest
    evidence,   \* the evidence graph, or None
    response    \* the final response is stored

stored == <<video, manifest, evidence, response>>

Init ==
    /\ video = FALSE
    /\ manifest = FALSE
    /\ evidence = None
    /\ response = FALSE

StoreVideo ==
    /\ ~video
    /\ video' = TRUE
    /\ UNCHANGED <<manifest, evidence, response>>

StoreManifest ==
    /\ video /\ ~manifest
    /\ manifest' = TRUE
    /\ UNCHANGED <<video, evidence, response>>

StoreEvidence ==
    /\ manifest /\ evidence = None
    /\ evidence' # None
    /\ UNCHANGED <<video, manifest, response>>

StoreResponse ==
    /\ evidence # None /\ ~response
    /\ response' = TRUE
    /\ UNCHANGED <<video, manifest, evidence>>

Next == StoreVideo \/ StoreManifest \/ StoreEvidence \/ StoreResponse

Spec == Init /\ [][Next]_stored
==============================================================================
