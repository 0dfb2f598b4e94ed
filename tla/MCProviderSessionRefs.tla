----------------------- MODULE MCProviderSessionRefs -----------------------
EXTENDS ProviderSessionRefs, TLC

Symmetry == Permutations(Sessions) \cup Permutations(Attempts)
=============================================================================
