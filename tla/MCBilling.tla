----------------------------- MODULE MCBilling -----------------------------
\* An instance of Billing for TLC.
EXTENDS Billing
=============================================================================
