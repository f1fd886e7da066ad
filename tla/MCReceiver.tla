------------------------------ MODULE MCReceiver ------------------------------
EXTENDS ReceiverSack
=============================================================================
