--------------------------- MODULE MCPriorityQueue ---------------------------
EXTENDS PriorityQueue

Symmetry == Permutations(JobIds) \cup Permutations(Keys) \cup Permutations(Conns)
=============================================================================
