---------------------------- MODULE MCIngestNode -----------------------------
(* A small instance of IngestNode for TLC: half an hour is a unit of time. *)
EXTENDS IngestNode

\* One retry of the download, so that a user's retry may overtake it.
RetryDownload ==
    [t \in {"download", "upload"} |-> IF t = "download" THEN 1 ELSE 0]
==============================================================================
