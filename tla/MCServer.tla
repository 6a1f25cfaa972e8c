------------------------------ MODULE MCServer ------------------------------
\* Server on a few descriptors, connections and workers, for TLC.
EXTENDS Server, TLC

\* Connections and workers are interchangeable; descriptors are not: accept
\* returns the lowest.
Symmetry == Permutations(Conns) \cup Permutations(Workers)
=============================================================================
