------------------------ MODULE MCRefreshTransaction ------------------------
\* Creations are interchangeable.
EXTENDS RefreshTransaction, TLC
CreationSymmetry == Permutations(Candidates)
=============================================================================
