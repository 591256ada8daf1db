----------------------------- MODULE MCSyncJobs -----------------------------
(* SyncJobs on two workers, two jobs and two deduplication keys. *)
EXTENDS SyncJobs
=============================================================================
