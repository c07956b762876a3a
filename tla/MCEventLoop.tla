----------------------------- MODULE MCEventLoop -----------------------------
\* Model values and symmetry for the runs of EventLoop.
EXTENDS EventLoop, TLC

RequestSymmetry == Permutations(Requests)
=============================================================================
