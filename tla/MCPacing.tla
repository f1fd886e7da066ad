------------------------------ MODULE MCPacing ------------------------------
EXTENDS UtpPacing
=============================================================================
