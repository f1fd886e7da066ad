------------------------------ MODULE MCBuffer ------------------------------
EXTENDS BlockingBuffer
=============================================================================
