------------------------------- MODULE MCTcp --------------------------------
EXTENDS Tcp, TLC
=============================================================================
