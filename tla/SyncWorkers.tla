---------------------------- MODULE SyncWorkers ----------------------------
(* Who runs the syncs: declared here for the queue and for the item, which *)
(* SyncPipeline puts together.                                             *)

CONSTANT Workers  \* the polling workers, one per backend process; in ItemSync
                  \* also the requests that sync an item
=============================================================================
