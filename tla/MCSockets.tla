----------------------------- MODULE MCSockets ------------------------------
EXTENDS Sockets, TLC
=============================================================================
