------------------------------ MODULE MCInotify ------------------------------
\* Model values and symmetry for the run of Inotify: requests, descriptors and
\* listener ids differ only by name.
EXTENDS Inotify, TLC

InotifySymmetry == Permutations(Requests) \cup Permutations(WatchIds)
                     \cup Permutations(FuncIds)
=============================================================================
