------------------------------ MODULE MCErrorBank ------------------------------
EXTENDS ErrorBank, TLC

ThreadSymmetry == Permutations(Threads)
=============================================================================
