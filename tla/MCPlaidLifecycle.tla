-------------------------- MODULE MCPlaidLifecycle --------------------------
\* An instance of PlaidLifecycle for TLC.
EXTENDS PlaidLifecycle
=============================================================================
