--------------------------- MODULE MCSyncPipeline ---------------------------
(* SyncPipeline on two workers and two jobs.  Nothing tells the workers,   *)
(* the jobs or the keys apart.                                             *)
EXTENDS SyncPipeline, TLC
Symmetry == Permutations(Workers) \union Permutations(Jobs) \union Permutations(Keys)
=============================================================================
