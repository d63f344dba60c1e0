--------------------------- MODULE MCNodeLiveness ----------------------------
\* Instances of NodeLiveness for TLC.
EXTENDS NodeLiveness, TLC

\* State constraint: once the fault has happened, a sweep and a follow-up do not
\* overlap any more; without a fault they do.
Bounded == faults > 0 => sweep = NoSweep \/ drain = NoDrain
=============================================================================
