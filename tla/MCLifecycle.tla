---------------------------- MODULE MCLifecycle ----------------------------
EXTENDS Lifecycle

PidsMC == 1..3
=============================================================================
