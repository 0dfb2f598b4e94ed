---------------------- MODULE MCSessionBindingFallback ----------------------
EXTENDS SessionBindingFallback, TLC
Symmetry == Permutations(LegacyClients) \cup Permutations(Clients)
            \cup Permutations(Generations) \cup Permutations(Providers)
            \cup Permutations(Keys)
=============================================================================
