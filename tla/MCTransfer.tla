----------------------------- MODULE MCTransfer -----------------------------
EXTENDS UtpTransfer
=============================================================================
