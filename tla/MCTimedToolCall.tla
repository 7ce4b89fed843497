--------------------------- MODULE MCTimedToolCall ---------------------------
EXTENDS TimedToolCall, TLC

Symmetry == Permutations(Doc) \cup Permutations(CorrId)
=============================================================================
