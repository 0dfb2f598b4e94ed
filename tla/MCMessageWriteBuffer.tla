----------------------- MODULE MCMessageWriteBuffer -----------------------
EXTENDS MessageWriteBuffer, TLC

Symmetry == Permutations(Rows) \cup Permutations(Outcomes)
===========================================================================
