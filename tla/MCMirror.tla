------------------------------ MODULE MCMirror ------------------------------
EXTENDS Mirror

CONSTANTS s1, s2, b1, b2
=============================================================================
