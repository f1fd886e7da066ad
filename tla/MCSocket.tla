------------------------------ MODULE MCSocket ------------------------------
EXTENDS UtpSocket

Symmetry == Permutations(Sockets)
=============================================================================
