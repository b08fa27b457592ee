------------------------------ MODULE MCNetIo ------------------------------
EXTENDS NetIo, TLC
CONSTANTS c1, c2, c3

\* Connection objects are interchangeable.
Symmetric == Permutations(Cons)
=============================================================================
