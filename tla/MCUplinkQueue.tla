---------------------------- MODULE MCUplinkQueue ----------------------------
\* Instance of UplinkQueue for TLC.
EXTENDS UplinkQueue, TLC
=============================================================================
