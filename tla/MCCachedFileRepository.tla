----------------------- MODULE MCCachedFileRepository -----------------------
\* Instances of CachedFileRepository for TLC: a directory d with one file, the
\* path ef that file has once d is moved.
EXTENDS CachedFileRepository, TLC

CONSTANTS df, ef, d

MCUnder == d :> {df}
MCRenamed == [f \in {df, ef} |-> ef]
Symmetry == Permutations(Callers) \cup Permutations(Caches)
=============================================================================
