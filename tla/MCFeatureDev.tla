----------------------------- MODULE MCFeatureDev -----------------------------
EXTENDS FeatureDev, TLC

ThreadSymmetry == Permutations(Threads)
=============================================================================
