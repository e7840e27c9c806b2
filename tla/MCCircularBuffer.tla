-------------------------- MODULE MCCircularBuffer --------------------------
EXTENDS CircularBuffer, TLC

CONSTANTS a, b

MCElements == {a, b}
MCSymmetry == Permutations(MCElements)
=============================================================================
