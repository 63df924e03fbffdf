---------------------------- MODULE MCOnboarding ----------------------------
EXTENDS Onboarding, TLC

Interchangeable == Permutations(Runs) \cup Permutations(Orders)
=============================================================================
