-------------------------- MODULE MCReceptionWindow --------------------------
\* Small instances of ReceptionWindow: one for each kind of window.
EXTENDS ReceptionWindow

\* NewCounter and newDataCounter seed below the wrap, and never with 0.
MCSeeds == {3}
=============================================================================
