---------------------------- MODULE MCLifecycle ----------------------------
EXTENDS UtpLifecycle
=============================================================================
