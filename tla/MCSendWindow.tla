---------------------------- MODULE MCSendWindow ----------------------------
EXTENDS UtpSendWindow

\* A closed window, which still lets one packet in, and one that is wide open.
MCRemoteWindows == {0, 3}
=============================================================================
