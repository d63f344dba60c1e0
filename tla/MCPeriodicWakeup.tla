--------------------------- MODULE MCPeriodicWakeup ---------------------------
\* Instance of PeriodicWakeup for TLC.
EXTENDS PeriodicWakeup, TLC
=============================================================================
