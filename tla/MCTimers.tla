------------------------------ MODULE MCTimers ------------------------------
\* Model values and symmetry for the runs of Timers: timers are alike, and so
\* are the requests of each pool.
EXTENDS Timers, TLC

TimersSymmetry == Permutations(TimerIds) \cup Permutations(TickRequests)
                    \cup Permutations(Requests \ TickRequests)
=============================================================================
