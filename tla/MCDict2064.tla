----------------------------- MODULE MCDict2064 -----------------------------
(* Instance of Dict2064 for TLC: two clock domains that share dictionaries *)
(* of four keys, three cycles, enough for a clock to leave two of them.    *)
EXTENDS Dict2064, TLC

Symmetry == Permutations(Clocks) \cup Permutations(Values \ Watched)
=============================================================================
