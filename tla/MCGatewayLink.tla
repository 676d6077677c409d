--------------------------- MODULE MCGatewayLink ---------------------------
EXTENDS GatewayLink, TLC
CONSTANTS cp1, cp2
Symmetry == Permutations({cp1, cp2})
=============================================================================
