----------------------------- MODULE MCDispatch -----------------------------
EXTENDS Dispatch, TLC
CONSTANTS van, shopper
Symmetry == Permutations({van, shopper})
=============================================================================
