-------------------------- MODULE MCSessionBinding --------------------------
EXTENDS SessionBinding, TLC
Symmetry == Permutations(Clients) \cup Permutations(Generations)
            \cup Permutations(Providers) \cup Permutations(Keys)
=============================================================================
