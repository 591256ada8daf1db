----------------------------- MODULE MCItemSync -----------------------------
(* ItemSync with two workers and two transactions, one of them too old for *)
(* the backfill window.                                                    *)
EXTENDS ItemSync
=============================================================================
