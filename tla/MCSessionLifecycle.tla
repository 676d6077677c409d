------------------------- MODULE MCSessionLifecycle -------------------------
EXTENDS SessionLifecycle, TLC
CONSTANTS amara, ben, bay1, bay2
DriverSymmetry == Permutations({amara, ben})
Symmetry == Permutations({amara, ben}) \cup Permutations({bay1, bay2})
=============================================================================
