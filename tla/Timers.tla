------------------------------- MODULE Timers -------------------------------
(***************************************************************************)
(* core/timer.cc on the event loop.  A timer is a POSIX timer of the       *)
(* kernel, an entry of timerMap, and one unit of `pending` that keeps the  *)
(* loop alive.  Its expiry is a signal: the handler interrupts the thread  *)
(* at any moment and submits a NOP request whose callback, timer_cb, runs  *)
(* the JavaScript function from the loop.                                  *)
(*                                                                         *)
(* The handler is one step here, for SIGUSR2 is blocked while it runs.  It *)
(* comes between any two steps of the thread, and these are cut where it   *)
(* tells: between timer_settime and the insert, between the erase and      *)
(* timer_delete, inside SubmitRequest, and between the load and the store  *)
(* of each `++pending` and `--pending`, two instructions in the build      *)
(* (Makefile:3, no optimisation).  An operation on timerMap and the load   *)
(* after it are one step: a signal between them is as one after the store. *)
(***************************************************************************)
EXTENDS EventLoop

CONSTANTS
    TickRequests,  \* the requests for expiries, of Requests (the bound)
    TimerIds,      \* the timers the program can make (the bound)
    MaxSurplus,    \* clears of dead timers the program makes (the bound)
    MaxOverwritten \* increments that may be overwritten (the bound)

ASSUME TickAssumption == TickRequests \subseteq Requests
ASSUME TimerAssumption == IsFiniteSet(TimerIds) /\ None \notin TimerIds
ASSUME SurplusAssumption == MaxSurplus \in Nat
ASSUME OverwrittenAssumption == MaxOverwritten \in Nat

VARIABLES
    made,      \* the timers timer_create has made; ids are not used again
    armed,     \* those that will expire
    interval,  \* those with an interval (flag INTERVAL, it_interval # 0)
    timerMap,  \* the keys of timerMap
    target,    \* the timer setTimeout or clearTimeout is working on
    timerOf,   \* the timer id in the data of a tick request
    calling,   \* the timer whose context timer_cb holds
    cleared,   \* history: clearTimeout was called with this id
    lost,      \* history: disarmed without a tick ever submitted
    loaded,    \* the value `++pending` or `--pending` has read
    surplus,   \* history: decPending calls for timers not in timerMap
    overwritten \* history: increments of the handler that were overwritten

countVars == <<loaded, surplus, overwritten>>
timerVars == <<made, armed, interval, timerMap, target, timerOf, calling,
               cleared, lost, countVars>>
timersVars == <<ringVars, timerVars>>

TimersInit ==
    /\ RingInit
    /\ made = {} /\ armed = {} /\ interval = {} /\ timerMap = {}
    /\ target = None /\ calling = None
    /\ timerOf = [r \in Requests |-> None]
    /\ cleared = {} /\ lost = {}
    /\ loaded = 0 /\ surplus = 0 /\ overwritten = 0

-----------------------------------------------------------------------------
(* The two halves of `++pending` and `--pending` on the thread *)

\* Where the thread is between the load and the store.
Windows == {"counting", "uncounting", "retiring", "uncount"}

\* The load, after which the thread is in window w.
Load(w) == phase' = w /\ loaded' = pending /\ UNCHANGED <<pending, overwritten>>

\* The store of the value loaded plus d: what the handler has counted in
\* between is overwritten.
Store(d) ==
    /\ pending' = loaded + d
    /\ overwritten' = overwritten + (pending - loaded)
    /\ loaded' = 0

-----------------------------------------------------------------------------
\* setTimeout or setInterval, up to timer_settime: a repeating timer has a
\* third argument; a timeout of zero leaves the kernel's timer disarmed.
SetTimer(t) ==
    /\ phase = "js" /\ t \notin made
    /\ made' = made \cup {t}
    /\ interval' \in {interval, interval \cup {t}}
    /\ \/ armed' = armed \cup {t} /\ UNCHANGED lost
       \/ lost' = lost \cup {t} /\ UNCHANGED armed
    /\ phase' = "setting" /\ target' = t
    /\ UNCHANGED <<cur, pending, where, kind, cq, ready,
                   timerMap, timerOf, calling, cleared, countVars>>

\* Its insert: only now does the handler find the timer ...
RegisterTimer ==
    /\ phase = "setting"
    /\ timerMap' = timerMap \cup {target}
    /\ Load("counting")
    /\ UNCHANGED <<cur, where, kind, cq, ready, made, armed, interval, target,
                   timerOf, calling, cleared, lost, surplus>>

\* Mutant: the timer is not counted.
SetTimerDoneUncounted ==
    /\ phase = "counting"
    /\ Store(0)
    /\ phase' = "js" /\ target' = None
    /\ UNCHANGED <<cur, where, kind, cq, ready, made, armed, interval,
                   timerMap, timerOf, calling, cleared, lost, surplus>>

\* ... and its incPending.
SetTimerDone ==
    /\ phase = "counting"
    /\ Store(1)
    /\ phase' = "js" /\ target' = None
    /\ UNCHANGED <<cur, where, kind, cq, ready, made, armed, interval,
                   timerMap, timerOf, calling, cleared, lost, surplus>>

\* clearTimeout or clearInterval of any id the program was ever given, up to
\* the erase.
ClearTimer(t) ==
    /\ phase = "js" /\ t \in made
    /\ t \notin timerMap => surplus < MaxSurplus
    /\ timerMap' = timerMap \ {t}
    /\ cleared' = cleared \cup {t}
    /\ surplus' = IF t \in timerMap THEN surplus ELSE surplus + 1
    /\ phase' = "clearing" /\ target' = t
    /\ UNCHANGED <<cur, pending, where, kind, cq, ready, made, armed, interval,
                   timerOf, calling, lost, loaded, overwritten>>

\* Its timer_delete ...
DeleteTimer ==
    /\ phase = "clearing"
    /\ armed' = armed \ {target}
    /\ Load("uncounting")
    /\ UNCHANGED <<cur, where, kind, cq, ready, made, interval, timerMap,
                   target, timerOf, calling, cleared, lost, surplus>>

\* Mutant: a cleared timer stays counted.
ClearTimerDoneForgets ==
    /\ phase = "uncounting"
    /\ Store(0)
    /\ phase' = "js" /\ target' = None
    /\ UNCHANGED <<cur, where, kind, cq, ready, made, armed, interval,
                   timerMap, timerOf, calling, cleared, lost, surplus>>

\* ... and its decPending, whether or not a timer was erased.
ClearTimerDone ==
    /\ phase = "uncounting"
    /\ Store(-1)
    /\ phase' = "js" /\ target' = None
    /\ UNCHANGED <<cur, where, kind, cq, ready, made, armed, interval,
                   timerMap, timerOf, calling, cleared, lost, surplus>>

-----------------------------------------------------------------------------
\* The bound on overwritten increments leaves room for one more.
Room == phase \in Windows =>
          overwritten + (pending - loaded) < MaxOverwritten

\* Mutant: expiries count only while the loop waits.
TickOnlyInWait(t) ==
    /\ Live /\ t \in armed
    /\ armed' = IF t \in interval THEN armed ELSE armed \ {t}
    /\ IF t \in timerMap /\ phase = "wait"
       THEN /\ \E r \in TickRequests :
                 /\ where[r] = "free"
                 /\ SubmitRequest(r, "tick", "drain")
                 /\ timerOf' = [timerOf EXCEPT ![r] = t]
            /\ UNCHANGED lost
       ELSE /\ phase' = IF phase = "wait" THEN "drain" ELSE phase
            /\ lost' = IF t \in interval THEN lost ELSE lost \cup {t}
            /\ UNCHANGED <<pending, where, kind, cq, ready, timerOf>>
    /\ UNCHANGED <<cur, made, interval, timerMap, target, calling,
                   cleared, countVars>>

\* Timer t expires and signalHandler runs: a tick is submitted if the timer
\* is in the map, else the expiry is dropped.  The signal ends a wait.
Tick(t) ==
    /\ Live /\ t \in armed
    /\ armed' = IF t \in interval THEN armed ELSE armed \ {t}
    /\ IF t \in timerMap
       THEN /\ Room
            /\ \E r \in TickRequests :
                 /\ where[r] = "free"
                 /\ SubmitRequest(r, "tick",
                                  IF phase = "wait" THEN "drain" ELSE phase)
                 /\ timerOf' = [timerOf EXCEPT ![r] = t]
            /\ UNCHANGED lost
       ELSE /\ phase' = IF phase = "wait" THEN "drain" ELSE phase
            /\ lost' = IF t \in interval THEN lost ELSE lost \cup {t}
            /\ UNCHANGED <<pending, where, kind, cq, ready, timerOf>>
    /\ UNCHANGED <<cur, made, interval, timerMap, target, calling,
                   cleared, countVars>>

\* The signal comes while the thread is itself inside SubmitRequest, with the
\* only sqe in its hand: the handler gets NULL, and writes to it.
TickInSubmit(t) ==
    /\ t \in armed \cap timerMap
    /\ \/ phase = "js" /\ \E r \in Requests \ TickRequests : where[r] = "free"
       \/ phase = "after" /\ kind[cur] \in Listeners
    /\ phase' = "crashed"
    /\ UNCHANGED <<cur, pending, where, kind, cq, ready, timerVars>>

-----------------------------------------------------------------------------
\* The load of the loop's `--pending`, when a completion is there.
LoadPending ==
    /\ phase = "drain" /\ ready > 0
    /\ Load("uncount")
    /\ UNCHANGED <<cur, where, kind, cq, ready, made, armed, interval, timerMap,
                   target, timerOf, calling, cleared, lost, surplus>>

\* Its store, and the callback of another request: makeCallback or openAfter.
ReapIO ==
    /\ phase = "uncount" /\ kind[Head(cq)] \in IOKinds
    /\ Store(-1)
    /\ CallBack(IF kind[Head(cq)] \in CallsJS THEN "js" ELSE "after")
    /\ UNCHANGED <<made, armed, interval, timerMap, target, timerOf, calling,
                   cleared, lost, surplus>>

\* Mutant: timer_cb trusts the timer to be there still.
ReapTickNoLookup ==
    /\ phase = "uncount" /\ kind[Head(cq)] = "tick"
    /\ Store(-1)
    /\ CallBack("js") /\ calling' = timerOf[Head(cq)]
    /\ UNCHANGED <<made, armed, interval, timerMap, target, timerOf,
                   cleared, lost, surplus>>

\* Its store, and the callback of a tick: timer_cb looks the timer up.
ReapTick ==
    /\ phase = "uncount" /\ kind[Head(cq)] = "tick"
    /\ Store(-1)
    /\ LET t == timerOf[Head(cq)] IN
         IF t \in timerMap
         THEN CallBack("js") /\ calling' = t
         ELSE CallBack("after") /\ UNCHANGED calling
    /\ UNCHANGED <<made, armed, interval, timerMap, target, timerOf,
                   cleared, lost, surplus>>

\* timer_cb has called a one-shot timer.
OneShot == phase = "after" /\ kind[cur] = "tick"
             /\ calling # None /\ calling \notin interval

\* It erases the timer, whether or not the callback has cleared it ...
RetireTimer ==
    /\ OneShot
    /\ timerMap' = timerMap \ {calling}
    /\ surplus' = IF calling \in timerMap THEN surplus ELSE surplus + 1
    /\ Load("retiring")
    /\ UNCHANGED <<cur, where, kind, cq, ready, made, armed, interval, target,
                   timerOf, calling, cleared, lost>>

\* The end of timer_cb: its request is freed.
FreeTick ==
    /\ Free
    /\ timerOf' = [timerOf EXCEPT ![cur] = None]
    /\ calling' = None
    /\ UNCHANGED <<cq, ready, made, armed, interval, timerMap, target, cleared,
                   lost, surplus>>

\* Mutant: an interval is uncounted after its callback.
TimerCbDoneUncountsAll ==
    /\ \/ phase = "retiring" /\ Store(-1)
       \/ /\ phase = "after" /\ kind[cur] = "tick" /\ ~OneShot
          /\ pending' = IF calling # None THEN pending - 1 ELSE pending
          /\ UNCHANGED <<loaded, overwritten>>
    /\ FreeTick

\* Mutant: a one-shot timer is not erased.
TimerCbDoneKeepsTimer ==
    /\ phase = "after" /\ kind[cur] = "tick"
    /\ UNCHANGED <<pending, loaded, overwritten>>
    /\ FreeTick

\* ... and uncounts it; after an interval, or a timer that is gone, there is
\* nothing to uncount.
TimerCbDone ==
    /\ \/ phase = "retiring" /\ Store(-1)
       \/ /\ phase = "after" /\ kind[cur] = "tick" /\ ~OneShot
          /\ UNCHANGED <<pending, loaded, overwritten>>
    /\ FreeTick

-----------------------------------------------------------------------------
\* The steps of the thread that are not about timers, and do not count down.
LoopOnlyStep == LoopCheck \/ Enter \/ Wake \/ Rearm \/ Release \/ DrainDone

LoopOnly ==
    /\ \/ \E r \in Requests \ TickRequests : JSOperation(r)
       \/ \E r \in Requests : Complete(r)
       \/ JSReturn
       \/ Terminate
       \/ Interrupted
       \/ LoopOnlyStep
    /\ UNCHANGED timerVars

TimerStep ==
    \/ LoadPending \/ ReapIO \/ ReapTick
    \/ RetireTimer \/ TimerCbDone
    \/ RegisterTimer \/ SetTimerDone
    \/ DeleteTimer \/ ClearTimerDone

TimersNext ==
    \/ LoopOnly
    \/ \E t \in TimerIds : SetTimer(t) \/ ClearTimer(t) \/ Tick(t)
                             \/ TickInSubmit(t)
    \/ TimerStep
    \/ Over /\ UNCHANGED timerVars

TimersSpec == TimersInit /\ [][TimersNext]_timersVars

\* The thread runs, callbacks return, an armed timer expires sooner or later,
\* and the kernel completes a NOP.
TimersFairness ==
    /\ WF_timersVars((LoopOnlyStep /\ UNCHANGED timerVars) \/ TimerStep)
    /\ WF_timersVars(JSReturn /\ UNCHANGED timerVars)
    /\ \A t \in TimerIds : SF_timersVars(Tick(t))
    /\ \A r \in TickRequests : WF_timersVars(Complete(r) /\ UNCHANGED timerVars)

TimersFairSpec == TimersSpec /\ TimersFairness
-----------------------------------------------------------------------------
(* Properties *)

TimerPhases == Phases \cup Windows \cup {"setting", "clearing"}

\* Types of the state.
TimersTypeOK ==
    /\ RingTypeOK
    /\ phase \in TimerPhases
    /\ made \subseteq TimerIds /\ armed \subseteq made
    /\ interval \subseteq made /\ timerMap \subseteq made
    /\ cleared \subseteq made /\ lost \subseteq made
    /\ target \in TimerIds \cup {None}
    /\ calling \in TimerIds \cup {None}
    /\ timerOf \in [Requests -> TimerIds \cup {None}]
    /\ loaded \in Int /\ surplus \in Nat /\ overwritten \in Nat

\* What the thread is about to count or uncount.
Due == CASE phase = "counting" -> -1
         [] phase \in {"clearing", "uncounting", "retiring"} -> 1
         [] OTHER -> 0

\* `pending` counts the outstanding requests and the registered timers.  It is
\* short by exactly the decPending calls of clearTimer and timer_cb
\* (timer.cc:15, 113) made for a timer that was no longer registered, and the
\* increments of signalHandler that a store of the thread overwrote
\* (io_uring.cc:82, 86, 101): nothing else makes it wrong, and nothing makes
\* it too large.
TimerAccounting ==
    phase # "crashed" =>
        Balance = Cardinality(timerMap) - surplus - overwritten + Due

\* A timer's JavaScript function does not start once clearTimeout was called
\* with its id, although its ticks may be anywhere in the two queues
\* (timer.cc:9 looks the timer up again).
NoCallbackAfterClear ==
    [][calling' # calling /\ calling' # None => calling' \notin cleared]_timersVars

\* The process ends by itself with a timer registered or a request
\* outstanding only after a clear of a dead timer or an overwritten increment.
ExitsOnlyWhenDone ==
    phase = "exited" /\ surplus = 0 /\ overwritten = 0 =>
        timerMap = {} /\ Outstanding = {}

\* A registered timer has something left that will run its callback: the
\* kernel's timer, a tick under way, or the callback itself.  The exceptions
\* are a timeout of zero and an expiry in the window timer.cc:86-92.
RegisteredTimerIsAlive ==
    Live => \A t \in timerMap :
                \/ t \in armed \cup lost
                \/ \E r \in Requests : kind[r] = "tick" /\ timerOf[r] = t

\* The loop sleeps only if something is left that will wake it, except after
\* a lost expiry, a clear of a dead timer or an overwritten increment: then it
\* may sleep for ever.
SleepsOnlyIfSomethingIsLeft ==
    phase = "wait" /\ surplus = 0 /\ overwritten = 0 /\ lost = {} =>
        At("kernel") \cup At("cq") # {} \/ timerMap \cap armed # {}

\* test/signal/signal.js:14: an interval timer keeps the process alive.
IntervalKeepsProcessAlive == phase = "exited" => timerMap \cap interval = {}

\* An armed and registered timer runs its callback, again and again if it is
\* an interval, unless it is cleared or the process is over.
ArmedTimerFires ==
    \A t \in TimerIds :
        (t \in armed \cap timerMap) ~> (calling = t \/ t \in cleared \/ ~Live)
=============================================================================
