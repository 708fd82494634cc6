------------------------------- MODULE MCBtp --------------------------------
EXTENDS Btp

\* Two messages each way.
MCMaxSent == [central |-> 2, peripheral |-> 2]
=============================================================================
