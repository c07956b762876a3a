------------------------------ MODULE MCEvents -------------------------------
\* Symmetry for the run of Events: wrappers differ only by name.
EXTENDS Events, TLC

WrapperSymmetry == Permutations(Wrappers)
=============================================================================
