---------------------------- MODULE Timers_proofs ----------------------------
(***************************************************************************)
(* The timers of module Timers, for any number of timers, ticks and        *)
(* requests: what `pending` counts although the handler interrupts every   *)
(* `++` and `--` of the thread, that a cleared timer stays silent, and     *)
(* when the process may end or sleep.                                      *)
(***************************************************************************)
EXTENDS Timers, EventLoop_proofs

\* The timer the thread is in the middle of setting or clearing.
TargetInv ==
    /\ phase \in {"setting", "clearing"} => target \in made /\ target \notin timerMap
    /\ phase = "setting" => target \notin cleared
    /\ phase = "setting" => target \in armed \cup lost

\* Between a load and its store the handler only counts up, and the thread's
\* callback and the completion it is at stay what they are.
WindowInv ==
    /\ phase \in Windows => loaded <= pending
    /\ phase = "uncount" => cur = None /\ ready > 0
    /\ phase = "retiring" => /\ cur # None /\ kind[cur] = "tick"
                             /\ calling # None
                             /\ calling \notin timerMap \cup interval

TimersIInv ==
    /\ CoreInv
    /\ TimersTypeOK
    /\ TimerAccounting
    /\ TargetInv
    /\ WindowInv
    /\ timerMap \cap cleared = {}

-----------------------------------------------------------------------------
(* Counting timers *)

\* timerMap is finite, for its timers are of TimerIds.
LEMMA TimerSetFinite ==
    ASSUME NEW S \in SUBSET TimerIds
    PROVE  IsFiniteSet(S) /\ Cardinality(S) \in Nat
BY TimerAssumption, FS_Subset, FS_CardinalityType

\* Registering a timer that is not registered, and erasing any.
LEMMA TimerSetChanges ==
    ASSUME NEW S \in SUBSET TimerIds, NEW t
    PROVE  /\ t \notin S => Cardinality(S \cup {t}) = Cardinality(S) + 1
           /\ Cardinality(S \ {t}) =
                IF t \in S THEN Cardinality(S) - 1 ELSE Cardinality(S)
BY TimerSetFinite, FS_AddElement, FS_RemoveElement

\* No timers at the start.
LEMMA TimersInitIInv == TimersInit => TimersIInv
<1> SUFFICES ASSUME TimersInit PROVE TimersIInv
  OBVIOUS
<1>1. RingInit  BY DEF TimersInit
<1>2. CoreInv /\ Balance = 0 /\ phase = "js"
  BY <1>1, InitIInv DEF IInv, RingInit
<1>3. TimersTypeOK
  BY <1>2 DEF TimersInit, TimersTypeOK, CoreInv, RingCore, RingTypeOK, Phases,
     TimerPhases
<1>4. TimerAccounting
  BY <1>2, FS_EmptySet DEF TimersInit, TimerAccounting, Due
<1>5. QED
  BY <1>2, <1>3, <1>4
     DEF TimersInit, TimersIInv, TargetInv, WindowInv, Windows

\* The timers' part of the type invariant.
TimerTypes ==
    /\ phase \in TimerPhases
    /\ made \subseteq TimerIds /\ armed \subseteq made
    /\ interval \subseteq made /\ timerMap \subseteq made
    /\ cleared \subseteq made /\ lost \subseteq made
    /\ target \in TimerIds \cup {None}
    /\ calling \in TimerIds \cup {None}
    /\ timerOf \in [Requests -> TimerIds \cup {None}]
    /\ loaded \in Int /\ surplus \in Nat /\ overwritten \in Nat

LEMMA TypesSplit ==
    /\ TimersTypeOK <=> RingTypeOK /\ TimerTypes
    /\ TimersTypeOK' <=> RingTypeOK' /\ TimerTypes'
    /\ CoreInv => RingTypeOK
    /\ CoreInv' => RingTypeOK'
BY DEF TimersTypeOK, TimerTypes, CoreInv, RingCore, RingTypeOK

\* The numbers in the books are numbers.
LEMMA Numbers ==
    TimersIInv => /\ Balance \in Int /\ pending \in Int /\ loaded \in Int
                  /\ Cardinality(timerMap) \in Nat
                  /\ surplus \in Nat /\ overwritten \in Nat
BY BalanceType, TimerSetFinite DEF TimersIInv, CoreInv, RingCore, TimersTypeOK

\* The books, with what is due spelled out.
LEMMA Books ==
    ASSUME TimersIInv, phase # "crashed"
    PROVE  /\ Balance = Cardinality(timerMap) - surplus - overwritten + Due
           /\ phase = "counting" => Due = 0 - 1
           /\ phase \in {"clearing", "uncounting", "retiring"} => Due = 1
           /\ phase \notin {"counting", "clearing", "uncounting", "retiring"}
                => Due = 0
BY DEF TimersIInv, TimerAccounting, Due

\* The load of a counter moves nothing.
LEMMA LoadKeeps ==
    ASSUME TimersIInv, NEW w \in Windows, Load(w),
           UNCHANGED <<cur, where, kind, cq, ready>>
    PROVE  /\ CoreInv' /\ Balance' = Balance
           /\ phase' = w /\ phase' \in TimerPhases
           /\ loaded' = pending /\ pending' = pending
           /\ overwritten' = overwritten /\ loaded' \in Int
<1>1. phase' = w /\ loaded' = pending /\ pending' = pending
      /\ overwritten' = overwritten
  BY DEF Load
<1>2. /\ w \notin {"check", "enter", "wait", "drain", "exited", "after"}
      /\ w \in TimerPhases
  BY DEF Windows, TimerPhases
<1>3. CoreInv' /\ Balance' = Balance + (pending' - pending)
  BY <1>1, <1>2, CounterKeepsCore DEF TimersIInv, CoreInv, RingCore
<1>4. Balance' = Balance  BY <1>1, <1>3, Numbers
<1>5. QED  BY <1>1, <1>2, <1>3, <1>4, Numbers

\* Its store makes the counter wrong by what it overwrites.
LEMMA StoreFacts ==
    ASSUME TimersIInv, phase \in Windows, NEW d \in Int, Store(d)
    PROVE  /\ pending' \in Int /\ loaded' \in Int /\ overwritten' \in Nat
           /\ pending' - pending = d - (overwritten' - overwritten)
BY Numbers DEF Store, TimersIInv, WindowInv

-----------------------------------------------------------------------------
(* The steps *)

\* A step of the event loop alone.
LEMMA LoopOnlyKeeps == ASSUME TimersIInv, LoopOnly PROVE TimersIInv'
<1>1. CASE /\ UNCHANGED timerVars
           /\ \/ \E r \in Requests, k \in IOKinds : Request(r, k)
              \/ \E r \in Requests : Complete(r)
              \/ ThreadStep \/ Enter \/ Rearm \/ Release
  <2>1. CoreInv' /\ Balance' = Balance
    BY <1>1, LoopStepKeeps DEF TimersIInv
  <2>2. /\ phase # "crashed" /\ phase' \in TimerPhases
        /\ phase' \in Phases
             \/ \E r \in Requests : Complete(r) /\ phase' = phase
    BY <1>1 DEF TimersIInv, TimersTypeOK, TimerPhases, Phases, Ended, Live,
       Request, SubmitRequest, Complete, ThreadStep, LoopCheck, Wake,
       Interrupted, DrainDone, JSReturn, Terminate, Enter, Rearm, Release, Free
  <2>3. UNCHANGED <<made, armed, interval, timerMap, target, timerOf, calling,
                    cleared, lost, loaded, surplus, overwritten>>
    BY <1>1 DEF timerVars, countVars
  <2>4. TimersTypeOK'
    BY <2>1, <2>2, <2>3, TypesSplit DEF TimersIInv, TimerTypes
  <2>5. phase' # "crashed" => Due' = Due
    <3>1. CASE phase' = phase  BY <3>1 DEF Due
    <3>2. CASE phase' # phase
      <4>1. phase \in {"js", "check", "enter", "wait", "drain", "after"}
        BY <1>1, <3>2 DEF Request, SubmitRequest, Complete, ThreadStep,
           LoopCheck, Wake, Interrupted, DrainDone, JSReturn, Terminate, Enter,
           Rearm, Release
      <4>2. phase' \in Phases  BY <2>2, <3>2
      <4>3. QED  BY <4>1, <4>2 DEF Due, Phases, Ended
    <3>3. QED  BY <3>1, <3>2
  <2>6. TimerAccounting'
    BY <2>1, <2>2, <2>3, <2>5 DEF TimersIInv, TimerAccounting
  <2>7. TargetInv'
    BY <2>2, <2>3 DEF TimersIInv, TargetInv, Phases, Ended
  <2>8. WindowInv'
    <3>1. CASE phase' \in Phases
      BY <3>1 DEF WindowInv, Windows, Phases, Ended
    <3>2. ASSUME NEW r \in Requests, Complete(r), phase' = phase
          PROVE  WindowInv'
      <4>1. UNCHANGED <<phase, cur, pending, kind>> /\ (ready > 0 => ready' > 0)
        BY <3>2 DEF Complete, TimersIInv, CoreInv, RingCore
      <4>2. QED  BY <2>3, <4>1 DEF TimersIInv, WindowInv
    <3>3. QED  BY <2>2, <3>1, <3>2
  <2>9. QED  BY <2>1, <2>3, <2>4, <2>6, <2>7, <2>8 DEF TimersIInv
<1>2. ASSUME NEW r \in Requests, JSOperation(r)
      PROVE  \E k \in IOKinds : Request(r, k)
  BY <1>2 DEF JSOperation, ReadWrite, Close, Connect, Listen, OpenAt,
              IOKinds, Listeners
<1>3. QED  BY <1>1, <1>2 DEF LoopOnly, LoopOnlyStep, ThreadStep

\* setTimeout makes a timer that is in no set yet.
LEMMA SetTimerKeeps ==
    ASSUME TimersIInv, NEW t \in TimerIds, SetTimer(t) PROVE TimersIInv'
<1>1. /\ phase = "js" /\ t \notin made /\ phase' = "setting" /\ target' = t
      /\ made' = made \cup {t}
      /\ interval' \in {interval, interval \cup {t}}
      /\ armed' \subseteq armed \cup {t} /\ lost' \subseteq lost \cup {t}
      /\ t \in armed' \cup lost'
      /\ pending' = pending
      /\ UNCHANGED <<cur, where, kind, cq, ready, timerMap, timerOf, calling,
                     cleared, loaded, surplus, overwritten>>
  BY DEF SetTimer, countVars
<1>2. CoreInv' /\ Balance' = Balance + (pending' - pending)
  BY <1>1, CounterKeepsCore DEF TimersIInv, CoreInv, RingCore
<1>3. Balance' = Balance
  BY <1>1, <1>2, Numbers
<1>4. TimersTypeOK'
  BY <1>1, <1>2, TypesSplit DEF TimersIInv, TimerTypes, TimerPhases
<1>5. TimerAccounting'
  BY <1>1, <1>3, Books DEF TimerAccounting, Due
<1>6. TargetInv'
  BY <1>1 DEF TimersIInv, TargetInv, TimersTypeOK
<1>7. WindowInv'  BY <1>1 DEF WindowInv, Windows
<1>8. QED  BY <1>1, <1>2, <1>4, <1>5, <1>6, <1>7 DEF TimersIInv

\* ... registers it ...
LEMMA RegisterTimerKeeps ==
    ASSUME TimersIInv, RegisterTimer PROVE TimersIInv'
<1>1. /\ phase = "setting" /\ Load("counting")
      /\ timerMap' = timerMap \cup {target}
      /\ UNCHANGED <<cur, where, kind, cq, ready, made, armed, interval, target,
                     timerOf, calling, cleared, lost, surplus>>
  BY DEF RegisterTimer
<1>2. target \in made /\ target \notin timerMap /\ target \notin cleared
  BY <1>1 DEF TimersIInv, TargetInv
<1>3. /\ CoreInv' /\ Balance' = Balance
      /\ phase' = "counting" /\ phase' \in TimerPhases
      /\ loaded' = pending /\ pending' = pending
      /\ overwritten' = overwritten /\ loaded' \in Int
  BY <1>1, LoadKeeps DEF Windows
<1>4. TimersTypeOK'
  BY <1>1, <1>2, <1>3, TypesSplit DEF TimersIInv, TimerTypes
<1>5. Cardinality(timerMap') = Cardinality(timerMap) + 1
  BY <1>1, <1>2, TimerSetChanges DEF TimersIInv, TimersTypeOK
<1>6. TimerAccounting'
  <2>1. Balance = Cardinality(timerMap) - surplus - overwritten
    BY <1>1, Books, Numbers
  <2>2. Due' = 0 - 1  BY <1>3 DEF Due
  <2>3. QED
    BY <1>1, <1>3, <1>5, <2>1, <2>2, Numbers DEF TimerAccounting
<1>7. TargetInv' /\ timerMap' \cap cleared' = {}
  BY <1>1, <1>2, <1>3 DEF TargetInv, TimersIInv
<1>8. WindowInv'  BY <1>3, Numbers DEF WindowInv
<1>9. QED  BY <1>3, <1>4, <1>6, <1>7, <1>8 DEF TimersIInv

\* ... and counts it; clearTimeout uncounts, whatever was erased.
LEMMA CountDoneKeeps ==
    ASSUME TimersIInv, SetTimerDone \/ ClearTimerDone PROVE TimersIInv'
<1>1. /\ phase' = "js" /\ target' = None
      /\ UNCHANGED <<cur, where, kind, cq, ready, made, armed, interval,
                     timerMap, timerOf, calling, cleared, lost, surplus>>
      /\ \/ phase = "counting" /\ Store(1)
         \/ phase = "uncounting" /\ Store(-1)
  BY DEF SetTimerDone, ClearTimerDone
<1>2. PICK d \in Int : Store(d) /\ Due = 0 - d
  <2>1. CASE phase = "counting"  BY <1>1, <2>1, Books
  <2>2. CASE phase = "uncounting"
    <3>1. -1 \in Int /\ Due = 0 - (-1)  BY <2>2, Books
    <3>2. Store(-1)  BY <1>1, <2>2
    <3>3. QED  BY <3>1, <3>2
  <2>3. QED  BY <1>1, <2>1, <2>2
<1>3. /\ pending' \in Int /\ loaded' \in Int /\ overwritten' \in Nat
      /\ pending' - pending = d - (overwritten' - overwritten)
  BY <1>1, <1>2, StoreFacts DEF Windows
<1>4. CoreInv' /\ Balance' = Balance + (pending' - pending)
  BY <1>1, <1>3, CounterKeepsCore DEF TimersIInv
<1>5. TimersTypeOK'
  BY <1>1, <1>3, <1>4, TypesSplit DEF TimersIInv, TimerTypes, Phases, TimerPhases
<1>6. TimerAccounting'
  <2>1. Balance = Cardinality(timerMap) - surplus - overwritten - d
    BY <1>1, <1>2, Books, Numbers
  <2>2. Due' = 0  BY <1>1 DEF Due
  <2>3. Balance' = Cardinality(timerMap) - surplus - overwritten'
    BY <1>3, <1>4, <2>1, Numbers
  <2>4. QED  BY <1>1, <1>3, <2>2, <2>3, Numbers DEF TimerAccounting
<1>7. TargetInv' /\ WindowInv'  BY <1>1 DEF TargetInv, WindowInv, Windows
<1>8. QED  BY <1>1, <1>4, <1>5, <1>6, <1>7 DEF TimersIInv

\* clearTimeout erases ...
LEMMA ClearTimerKeeps ==
    ASSUME TimersIInv, NEW t \in TimerIds, ClearTimer(t) PROVE TimersIInv'
<1>1. /\ phase = "js" /\ phase' = "clearing" /\ target' = t /\ t \in made
      /\ timerMap' = timerMap \ {t} /\ cleared' = cleared \cup {t}
      /\ surplus' = IF t \in timerMap THEN surplus ELSE surplus + 1
      /\ pending' = pending
      /\ UNCHANGED <<cur, where, kind, cq, ready, made, armed, interval,
                     timerOf, calling, lost, loaded, overwritten>>
  BY DEF ClearTimer
<1>2. CoreInv' /\ Balance' = Balance + (pending' - pending)
  BY <1>1, CounterKeepsCore DEF TimersIInv, CoreInv, RingCore
<1>3. Balance' = Balance
  BY <1>1, <1>2, Numbers
<1>4. TimersTypeOK'
  BY <1>1, <1>2, TypesSplit DEF TimersIInv, TimerTypes, TimerPhases
<1>5. Cardinality(timerMap') =
        IF t \in timerMap THEN Cardinality(timerMap) - 1 ELSE Cardinality(timerMap)
  BY <1>1, TimerSetChanges DEF TimersIInv, TimersTypeOK
<1>6. TimerAccounting'
  <2>1. Balance = Cardinality(timerMap) - surplus - overwritten
    BY <1>1, Books, Numbers
  <2>2. Due' = 1  BY <1>1 DEF Due
  <2>3. QED
    BY <1>1, <1>3, <1>5, <2>1, <2>2, Numbers DEF TimerAccounting
<1>7. TargetInv' /\ timerMap' \cap cleared' = {} /\ WindowInv'
  BY <1>1 DEF TargetInv, TimersIInv, WindowInv, Windows
<1>8. QED  BY <1>2, <1>4, <1>6, <1>7 DEF TimersIInv

\* ... and deletes the kernel's timer.
LEMMA DeleteTimerKeeps ==
    ASSUME TimersIInv, DeleteTimer PROVE TimersIInv'
<1>1. /\ phase = "clearing" /\ Load("uncounting")
      /\ armed' = armed \ {target}
      /\ UNCHANGED <<cur, where, kind, cq, ready, made, interval, timerMap,
                     target, timerOf, calling, cleared, lost, surplus>>
  BY DEF DeleteTimer
<1>2. /\ CoreInv' /\ Balance' = Balance
      /\ phase' = "uncounting" /\ phase' \in TimerPhases
      /\ loaded' = pending /\ pending' = pending
      /\ overwritten' = overwritten /\ loaded' \in Int
  BY <1>1, LoadKeeps DEF Windows
<1>3. TimersTypeOK'
  BY <1>1, <1>2, TypesSplit DEF TimersIInv, TimerTypes
<1>4. TimerAccounting'
  <2>1. Due = 1 /\ Due' = 1  BY <1>1, <1>2 DEF Due
  <2>2. QED  BY <1>1, <1>2, <2>1, Books DEF TimerAccounting
<1>5. TargetInv' /\ WindowInv'
  BY <1>2, Numbers DEF TargetInv, WindowInv
<1>6. QED  BY <1>1, <1>2, <1>3, <1>4, <1>5 DEF TimersIInv

\* An expiry, at any moment: a tick is counted by SubmitRequest like any
\* other request, or the expiry is dropped.
LEMMA TickKeeps ==
    ASSUME TimersIInv, NEW t \in TimerIds, Tick(t) PROVE TimersIInv'
<1> DEFINE ph == IF phase = "wait" THEN "drain" ELSE phase
<1>1. /\ Live /\ t \in armed
      /\ armed' = IF t \in interval THEN armed ELSE armed \ {t}
      /\ UNCHANGED <<cur, made, interval, timerMap, target, calling, cleared,
                     loaded, surplus, overwritten>>
  BY DEF Tick, countVars
<1>2. /\ ph \in {"check", "enter", "wait", "drain", "exited"} => cur = None
      /\ ph = "after" => cur # None
      /\ ph \in TimerPhases
      /\ ph \notin {"drain", "js", "check", "enter", "after"} => ph = phase
      /\ ph # phase => ph = "drain" /\ phase = "wait"
  BY <1>1 DEF TimersIInv, CoreInv, OneCallbackAtATime, TimersTypeOK, Phases,
     TimerPhases
<1> HIDE DEF ph
<1>3. /\ CoreInv' /\ Balance' = Balance
      /\ phase' \in {ph, "crashed"}
      /\ timerOf' \in [Requests -> TimerIds \cup {None}]
      /\ lost' \in {lost, lost \cup {t}}
      /\ t \notin timerMap /\ t \notin interval => t \in lost'
      /\ t \notin timerMap => phase' = ph
      /\ \/ lost' = lost
         \/ t \notin timerMap
      /\ pending' \in {pending, pending + 1}
      /\ ready > 0 => ready' > 0
      /\ cur # None /\ kind[cur] = "tick" => kind'[cur] = "tick"
  <2>1. CASE t \in timerMap
    <3>1. PICK r \in TickRequests :
            /\ where[r] = "free" /\ SubmitRequest(r, "tick", ph)
            /\ timerOf' = [timerOf EXCEPT ![r] = t]
      BY <2>1 DEF Tick, ph
    <3>2. r \in Requests /\ "tick" \in Kinds \ {"none"}
      BY TickAssumption DEF Kinds
    <3>3. CoreInv' /\ Balance' = Balance
      BY <1>1, <1>2, <3>1, <3>2, SubmitFreeKeeps DEF TimersIInv
    <3>4. /\ phase' \in {ph, "crashed"} /\ pending' \in {pending, pending + 1}
          /\ ready' \in {ready, Flushed}
          /\ kind' \in {kind, [kind EXCEPT ![r] = "tick"]}
      BY <3>1 DEF SubmitRequest
    <3>5. lost' = lost  BY <2>1 DEF Tick
    <3>6. ready > 0 => ready' > 0
      <4>1. Len(cq) \in Nat /\ ready <= Len(cq) /\ ready \in 0..CQEntries
        BY LenProperties DEF TimersIInv, CoreInv, RingCore
      <4>2. QED  BY <3>4, <4>1, CQEntriesAssumption DEF Flushed, Smaller
    <3>7. cur # None /\ kind[cur] = "tick" => kind'[cur] = "tick"
      BY <3>2, <3>4 DEF TimersIInv, CoreInv, RingCore
    <3>8. QED
      BY <2>1, <3>1, <3>3, <3>4, <3>5, <3>6, <3>7 DEF TimersIInv, TimersTypeOK
  <2>2. CASE t \notin timerMap
    <3>1. /\ phase' = ph /\ UNCHANGED <<pending, where, kind, cq, ready, timerOf>>
          /\ lost' = IF t \in interval THEN lost ELSE lost \cup {t}
      BY <2>2 DEF Tick, ph
    <3>2. RingCore' /\ Balance' = Balance
      BY <3>1, ThreadStepKeeps DEF TimersIInv, CoreInv
    <3>3. OneCallbackAtATime'
      BY <1>1, <1>2, <3>1 DEF OneCallbackAtATime, TimersIInv, CoreInv, At
    <3>4. CoreInv'  BY <1>1, <3>2, <3>3 DEF TimersIInv, CoreInv
    <3>5. QED  BY <2>2, <3>1, <3>2, <3>4 DEF TimersIInv, TimersTypeOK
  <2>3. QED  BY <2>1, <2>2
<1>4. t \in made  BY <1>1 DEF TimersIInv, TimersTypeOK
<1>5. TimersTypeOK'
  BY <1>1, <1>2, <1>3, <1>4, TypesSplit
     DEF TimersIInv, TimerTypes, Phases, Ended, TimerPhases
<1>6. TimerAccounting'
  <2>1. CASE phase' = ph
    <3>1. phase # "crashed"  BY <1>1 DEF Live, Ended
    <3>2. Due' = Due
      <4>1. phase' = phase \/ (phase' = "drain" /\ phase = "wait")
        BY <1>2, <2>1
      <4>2. QED  BY <4>1 DEF Due
    <3>3. QED
      BY <1>1, <1>3, <3>1, <3>2 DEF TimersIInv, TimerAccounting
  <2>2. CASE phase' = "crashed"
    BY <2>2 DEF TimerAccounting
  <2>3. QED  BY <1>3, <2>1, <2>2
<1>7. TargetInv'
  BY <1>1, <1>2, <1>3 DEF TimersIInv, TargetInv
<1>8. WindowInv'
  <2>1. phase' \in Windows => phase' = phase
    BY <1>2, <1>3 DEF Windows
  <2>2. phase \in Windows => loaded <= pending'
    BY <1>3, Numbers DEF TimersIInv, WindowInv
  <2>3. QED
    BY <1>1, <1>3, <2>1, <2>2 DEF TimersIInv, WindowInv, Windows
<1>9. QED  BY <1>1, <1>3, <1>5, <1>6, <1>7, <1>8 DEF TimersIInv

\* The handler that finds no sqe.
LEMMA TickInSubmitKeeps ==
    ASSUME TimersIInv, NEW t \in TimerIds, TickInSubmit(t) PROVE TimersIInv'
<1>1. /\ phase' = "crashed"
      /\ UNCHANGED <<cur, pending, where, kind, cq, ready, made, armed, interval,
                     timerMap, target, timerOf, calling, cleared, lost,
                     loaded, surplus, overwritten>>
  BY DEF TickInSubmit, timerVars, countVars
<1>2. CoreInv'
  BY <1>1, CounterKeepsCore DEF TimersIInv, CoreInv, RingCore
<1>3. TimersTypeOK'
  BY <1>1, <1>2, TypesSplit DEF TimersIInv, TimerTypes, TimerPhases, Phases, Ended
<1>4. QED
  BY <1>1, <1>2, <1>3
     DEF TimersIInv, TimerAccounting, TargetInv, WindowInv, Windows

\* The loop is about to count down.
LEMMA LoadPendingKeeps == ASSUME TimersIInv, LoadPending PROVE TimersIInv'
<1>1. /\ phase = "drain" /\ ready > 0 /\ Load("uncount")
      /\ UNCHANGED <<cur, where, kind, cq, ready, made, armed, interval,
                     timerMap, target, timerOf, calling, cleared, lost, surplus>>
  BY DEF LoadPending
<1>2. /\ CoreInv' /\ Balance' = Balance
      /\ phase' = "uncount" /\ phase' \in TimerPhases
      /\ loaded' = pending /\ pending' = pending
      /\ overwritten' = overwritten /\ loaded' \in Int
  BY <1>1, LoadKeeps DEF Windows
<1>3. cur = None  BY <1>1 DEF TimersIInv, CoreInv, OneCallbackAtATime
<1>4. TimersTypeOK'
  BY <1>1, <1>2, TypesSplit DEF TimersIInv, TimerTypes
<1>5. TimerAccounting'
  <2>1. Due = 0 /\ Due' = 0  BY <1>1, <1>2 DEF Due
  <2>2. QED  BY <1>1, <1>2, <2>1, Books DEF TimerAccounting
<1>6. TargetInv' /\ WindowInv'
  BY <1>1, <1>2, <1>3, Numbers DEF TargetInv, WindowInv
<1>7. QED  BY <1>1, <1>2, <1>4, <1>5, <1>6 DEF TimersIInv

\* It takes a completion, a tick's or another's.
LEMMA ReapKeeps == ASSUME TimersIInv, ReapIO \/ ReapTick PROVE TimersIInv'
<1>1. /\ phase = "uncount" /\ Store(-1)
      /\ \E ph \in {"js", "after"} : CallBack(ph)
      /\ calling' = calling \/ (calling' = timerOf[Head(cq)] /\ calling' \in timerMap)
      /\ UNCHANGED <<made, armed, interval, timerMap, target, timerOf, cleared,
                     lost, surplus>>
  BY DEF ReapIO, ReapTick
<1>2. PICK ph \in {"js", "after"} : CallBack(ph)  BY <1>1
<1>3. phase' \in {"js", "after"}  BY <1>2 DEF CallBack
<1>4. cur = None /\ ready > 0  BY <1>1 DEF TimersIInv, WindowInv
<1>5. /\ pending' \in Int /\ loaded' \in Int /\ overwritten' \in Nat
      /\ pending' - pending = -1 - (overwritten' - overwritten)
  BY <1>1, StoreFacts DEF Windows
<1>6. CoreInv' /\ Balance' = Balance + 1 + (pending' - pending)
  BY <1>2, <1>4, <1>5, CallBackKeepsCore DEF TimersIInv
<1>7. TimersTypeOK'
  BY <1>1, <1>3, <1>5, <1>6, TypesSplit
     DEF TimersIInv, TimerTypes, Phases, TimerPhases
<1>8. TimerAccounting'
  <2>1. Balance = Cardinality(timerMap) - surplus - overwritten
    BY <1>1, Books, Numbers
  <2>2. Due' = 0  BY <1>3 DEF Due
  <2>3. Balance' = Cardinality(timerMap) - surplus - overwritten'
    BY <1>5, <1>6, <2>1, Numbers
  <2>4. QED  BY <1>1, <1>5, <2>2, <2>3, Numbers DEF TimerAccounting
<1>9. TargetInv' /\ WindowInv'  BY <1>3 DEF TargetInv, WindowInv, Windows
<1>10. QED  BY <1>1, <1>6, <1>7, <1>8, <1>9 DEF TimersIInv

\* timer_cb erases a one-shot timer: one that is still registered gives its
\* count back, one that its callback has cleared gives it back twice.
LEMMA RetireTimerKeeps == ASSUME TimersIInv, RetireTimer PROVE TimersIInv'
<1>1. /\ phase = "after" /\ kind[cur] = "tick" /\ calling # None
      /\ calling \notin interval /\ Load("retiring")
      /\ timerMap' = timerMap \ {calling}
      /\ surplus' = IF calling \in timerMap THEN surplus ELSE surplus + 1
      /\ UNCHANGED <<cur, where, kind, cq, ready, made, armed, interval, target,
                     timerOf, calling, cleared, lost>>
  BY DEF RetireTimer, OneShot
<1>2. /\ CoreInv' /\ Balance' = Balance
      /\ phase' = "retiring" /\ phase' \in TimerPhases
      /\ loaded' = pending /\ pending' = pending
      /\ overwritten' = overwritten /\ loaded' \in Int
  BY <1>1, LoadKeeps DEF Windows
<1>3. timerMap' \subseteq timerMap /\ surplus' \in Nat
  BY <1>1, Numbers
<1>4. TimersTypeOK'
  BY <1>1, <1>2, <1>3, TypesSplit DEF TimersIInv, TimerTypes
<1>5. TimerAccounting'
  <2>1. Balance = Cardinality(timerMap) - surplus - overwritten
    BY <1>1, Books, Numbers
  <2>2. Due' = 1  BY <1>2 DEF Due
  <2>3. Cardinality(timerMap') = IF calling \in timerMap
                                 THEN Cardinality(timerMap) - 1
                                 ELSE Cardinality(timerMap)
    BY <1>1, TimerSetChanges DEF TimersIInv, TimersTypeOK
  <2>4. QED
    BY <1>1, <1>2, <2>1, <2>2, <2>3, Numbers DEF TimerAccounting
<1>6. cur # None  BY <1>1 DEF TimersIInv, CoreInv, OneCallbackAtATime
<1>7. TargetInv' /\ WindowInv' /\ timerMap' \cap cleared' = {}
  BY <1>1, <1>2, <1>3, <1>6, Numbers DEF TargetInv, WindowInv, TimersIInv
<1>8. QED  BY <1>2, <1>4, <1>5, <1>7 DEF TimersIInv

\* The end of timer_cb.
LEMMA TimerCbDoneKeeps == ASSUME TimersIInv, TimerCbDone PROVE TimersIInv'
<1>1. /\ Free /\ phase' = "drain" /\ calling' = None
      /\ timerOf' = [timerOf EXCEPT ![cur] = None]
      /\ UNCHANGED <<cq, ready, made, armed, interval, timerMap, target,
                     cleared, lost, surplus>>
      /\ phase \in {"retiring", "after"}
  BY DEF TimerCbDone, FreeTick, Free
<1>2. \E d \in Int : /\ Due = 0 - d /\ pending' \in Int
                     /\ loaded' \in Int /\ overwritten' \in Nat
                     /\ pending' - pending = d - (overwritten' - overwritten)
  <2>1. CASE phase = "retiring" /\ Store(-1)
    <3>1. /\ pending' \in Int /\ loaded' \in Int /\ overwritten' \in Nat
          /\ pending' - pending = -1 - (overwritten' - overwritten)
      BY <2>1, StoreFacts DEF Windows
    <3>2. -1 \in Int /\ Due = 0 - (-1)  BY <2>1, Books
    <3>3. QED  BY <3>1, <3>2
  <2>2. CASE phase = "after" /\ UNCHANGED <<pending, loaded, overwritten>>
    <3>1. Due = 0 - 0  BY <2>2, Books
    <3>2. pending' - pending = 0 - (overwritten' - overwritten)
      BY <2>2, Numbers
    <3>3. QED  BY <2>2, <3>1, <3>2, Numbers
  <2>3. QED  BY <2>1, <2>2 DEF TimerCbDone
<1>3. PICK d \in Int : /\ Due = 0 - d /\ pending' \in Int
                       /\ loaded' \in Int /\ overwritten' \in Nat
                       /\ pending' - pending = d - (overwritten' - overwritten)
  BY <1>2
<1>4. cur # None /\ UNCHANGED <<cq, ready>>
  BY <1>1 DEF TimersIInv, CoreInv, OneCallbackAtATime, WindowInv
<1>5. CoreInv' /\ Balance' = Balance + (pending' - pending)
  BY <1>1, <1>3, <1>4, FreeKeepsCore DEF TimersIInv
<1>6. TimersTypeOK'
  <2>1. timerOf' \in [Requests -> TimerIds \cup {None}]
    BY <1>1 DEF TimersIInv, TimersTypeOK
  <2>2. QED
    BY <1>1, <1>3, <1>5, <2>1, TypesSplit
       DEF TimersIInv, TimerTypes, Phases, TimerPhases
<1>7. TimerAccounting'
  <2>1. Balance = Cardinality(timerMap) - surplus - overwritten - d
    BY <1>1, <1>3, Books, Numbers
  <2>2. Due' = 0  BY <1>1 DEF Due
  <2>3. Balance' = Cardinality(timerMap) - surplus - overwritten'
    BY <1>3, <1>5, <2>1, Numbers
  <2>4. QED  BY <1>1, <1>3, <2>2, <2>3, Numbers DEF TimerAccounting
<1>8. TargetInv' /\ WindowInv'  BY <1>1 DEF TargetInv, WindowInv, Windows
<1>9. QED  BY <1>1, <1>5, <1>6, <1>7, <1>8 DEF TimersIInv

\* The invariant is inductive.
LEMMA StepTimersIInv == TimersIInv /\ [TimersNext]_timersVars => TimersIInv'
<1> SUFFICES ASSUME TimersIInv, [TimersNext]_timersVars PROVE TimersIInv'
  OBVIOUS
<1>1. CASE LoopOnly  BY <1>1, LoopOnlyKeeps
<1>2. ASSUME NEW t \in TimerIds, SetTimer(t) PROVE TimersIInv'
  BY <1>2, SetTimerKeeps
<1>3. ASSUME NEW t \in TimerIds, ClearTimer(t) PROVE TimersIInv'
  BY <1>3, ClearTimerKeeps
<1>4. ASSUME NEW t \in TimerIds, Tick(t) PROVE TimersIInv'
  BY <1>4, TickKeeps
<1>5. ASSUME NEW t \in TimerIds, TickInSubmit(t) PROVE TimersIInv'
  BY <1>5, TickInSubmitKeeps
<1>6. CASE RegisterTimer  BY <1>6, RegisterTimerKeeps
<1>7. CASE DeleteTimer  BY <1>7, DeleteTimerKeeps
<1>8. CASE SetTimerDone \/ ClearTimerDone  BY <1>8, CountDoneKeeps
<1>9. CASE LoadPending  BY <1>9, LoadPendingKeeps
<1>10. CASE ReapIO \/ ReapTick  BY <1>10, ReapKeeps
<1>11. CASE RetireTimer  BY <1>11, RetireTimerKeeps
<1>12. CASE TimerCbDone  BY <1>12, TimerCbDoneKeeps
<1>13. CASE UNCHANGED timersVars
  <2>1. CoreInv' /\ Balance' = Balance
    BY <1>13, StutterKeepsCore DEF TimersIInv, timersVars
  <2>2. UNCHANGED <<phase, cur, pending, kind, ready, made, armed, interval,
                    timerMap, target, timerOf, calling, cleared, lost, loaded,
                    surplus, overwritten>>
    BY <1>13 DEF timersVars, timerVars, countVars, ringVars
  <2>3. QED
    BY <2>1, <2>2, TypesSplit
       DEF TimersIInv, TimerTypes, TimerAccounting, Due, TargetInv, WindowInv
<1>14. QED
  BY <1>1, <1>2, <1>3, <1>4, <1>5, <1>6, <1>7, <1>8, <1>9, <1>10, <1>11,
     <1>12, <1>13 DEF TimersNext, TimerStep, Over, timersVars

\* Every reachable state satisfies the invariant.
THEOREM TimersInvariance == TimersSpec => []TimersIInv
BY TimersInitIInv, StepTimersIInv, PTL DEF TimersSpec

\* The state keeps its types (Timers!TimersTypeOK).
THEOREM TimersTypeCorrect == TimersSpec => []TimersTypeOK
<1>1. TimersIInv => TimersTypeOK  BY DEF TimersIInv
<1>2. QED  BY <1>1, TimersInvariance, PTL

\* `pending` is the outstanding requests and the registered timers, less the
\* decPending calls made for timers that were no longer registered and the
\* increments of the handler that a store of the thread overwrote, wherever
\* the handler interrupts it.
THEOREM TimersAreCounted == TimersSpec => []TimerAccounting
<1>1. TimersIInv => TimerAccounting  BY DEF TimersIInv
<1>2. QED  BY <1>1, TimersInvariance, PTL

\* The function of a timer does not start after clearTimeout was called with
\* its id.
THEOREM ClearedTimersAreSilent == TimersSpec => NoCallbackAfterClear
<1>1. TimersIInv /\ [TimersNext]_timersVars =>
        [calling' # calling /\ calling' # None => calling' \notin cleared]_timersVars
  <2> SUFFICES ASSUME TimersIInv, TimersNext, calling' # calling, calling' # None
               PROVE  calling' \notin cleared
    BY DEF timersVars, timerVars
  <2>1. ReapTick
    BY DEF TimersNext, TimerStep, LoopOnly, Over, timerVars, SetTimer, ClearTimer,
           Tick, TickInSubmit, RegisterTimer, SetTimerDone, DeleteTimer,
           ClearTimerDone, LoadPending, ReapIO, RetireTimer, TimerCbDone, FreeTick
  <2>2. calling' \in timerMap  BY <2>1 DEF ReapTick
  <2>3. QED  BY <2>2 DEF TimersIInv
<1>2. QED
  BY <1>1, TimersInvariance, PTL DEF TimersSpec, NoCallbackAfterClear

-----------------------------------------------------------------------------
(* A registered timer is alive *)

\* The ticks on their way, and the one whose callback runs: timer_cb has the
\* timer of its request, or that timer is registered no more.
TickInv ==
    /\ \A r \in Requests : kind[r] = "tick" =>
          timerOf[r] \in made /\ (phase = "setting" => timerOf[r] # target)
    /\ cur # None /\ kind[cur] = "tick" =>
          \/ calling = timerOf[cur]
          \/ calling = None /\ timerOf[cur] \notin timerMap
    /\ cur = None \/ kind[cur] # "tick" => calling = None

\* The kernel goes on with the timer of an interval until it is cleared.
AliveInv ==
    /\ TickInv
    /\ interval \cap timerMap \subseteq armed \cup lost
    /\ RegisteredTimerIsAlive

\* Nothing is set at the start.
LEMMA InitAlive == TimersInit => AliveInv
BY DEF TimersInit, RingInit, AliveInv, TickInv, RegisteredTimerIsAlive

\* The loop's own steps make and free no tick, and change the callback that
\* runs only for another that is no tick's.
LEMMA LoopOnlyTicks ==
    ASSUME TimersIInv, LoopOnly
    PROVE  /\ UNCHANGED timerVars
           /\ \A r \in Requests : kind'[r] = "tick" <=> kind[r] = "tick"
           /\ phase # "setting" => phase' # "setting"
           /\ Live
           /\ \/ cur' = cur
              \/ /\ cur = None \/ kind[cur] # "tick"
                 /\ cur' = None \/ (cur' \in Requests /\ kind'[cur'] # "tick")
<1> USE DEF TimersIInv, CoreInv, RingCore
<1>1. UNCHANGED timerVars  BY DEF LoopOnly
<1>2. ASSUME NEW r \in Requests, JSOperation(r)
      PROVE  /\ \A s \in Requests : kind'[s] = "tick" <=> kind[s] = "tick"
             /\ phase = "js" /\ phase' \in {"js", "crashed"} /\ cur' = cur
  <2>1. PICK k \in IOKinds : Request(r, k)
    BY <1>2 DEF JSOperation, ReadWrite, Close, Connect, Listen, OpenAt,
                IOKinds, Listeners
  <2>2. kind[r] = "none" /\ k # "tick"
    BY <2>1 DEF Request, FreeIsNothing, IOKinds, Listeners
  <2>3. QED  BY <2>1, <2>2 DEF Request, SubmitRequest
<1>3. CASE (\E r \in Requests : Complete(r)) \/ ThreadStep \/ Enter
  BY <1>1, <1>3 DEF Complete, ThreadStep, LoopCheck, Wake, Interrupted,
     DrainDone, JSReturn, Terminate, Enter, Live, Ended
<1>4. CASE Rearm
  <2>1. /\ phase = "after" /\ phase' \in {"drain", "crashed"}
        /\ cur' \in {cur, None}
        /\ kind' = kind \/ kind' = [kind EXCEPT ![cur] = kind[cur]]
        /\ kind[cur] \in Listeners
    BY <1>4 DEF Rearm, SubmitRequest
  <2>2. \A r \in Requests : kind'[r] = kind[r]  BY <2>1
  <2>3. kind[cur] # "tick"  BY <2>1 DEF Listeners
  <2>4. QED  BY <1>1, <2>1, <2>2, <2>3 DEF Live, Ended
<1>5. CASE Release
  <2>1. /\ phase = "after" /\ phase' = "drain" /\ cur' = None
        /\ kind' = [kind EXCEPT ![cur] = "none"] /\ kind[cur] \in IOKinds
    BY <1>5 DEF Release, Free
  <2>2. kind[cur] # "tick"  BY <2>1 DEF IOKinds, Listeners
  <2>3. \A r \in Requests : kind'[r] = "tick" <=> kind[r] = "tick"
    BY <2>1, <2>2
  <2>4. QED  BY <1>1, <2>1, <2>2, <2>3 DEF Live, Ended
<1>6. QED
  BY <1>1, <1>2, <1>3, <1>4, <1>5
     DEF LoopOnly, LoopOnlyStep, ThreadStep, Live, Ended

\* So they keep the timers alive.
LEMMA LoopOnlyAlive == ASSUME TimersIInv, AliveInv, LoopOnly PROVE AliveInv'
<1>1. /\ UNCHANGED <<made, armed, interval, timerMap, target, timerOf, calling,
                     cleared, lost>>
      /\ \A r \in Requests : kind'[r] = "tick" <=> kind[r] = "tick"
      /\ phase # "setting" => phase' # "setting"
      /\ Live
  BY LoopOnlyTicks DEF timerVars
<1>2. cur \in Requests \cup {None}  BY DEF TimersIInv, CoreInv
<1>3. TickInv'
  <2>1. CASE cur' = cur
    BY <1>1, <1>2, <2>1 DEF AliveInv, TickInv
  <2>2. CASE cur' # cur
    BY <1>1, <2>2, LoopOnlyTicks DEF AliveInv, TickInv
  <2>3. QED  BY <2>1, <2>2
<1>4. RegisteredTimerIsAlive'
  BY <1>1 DEF AliveInv, RegisteredTimerIsAlive
<1>5. QED  BY <1>1, <1>3, <1>4 DEF AliveInv

\* A tick that is submitted is one for its timer; the others stay.
LEMMA TickAlive ==
    ASSUME TimersIInv, AliveInv, NEW t \in TimerIds, Tick(t) PROVE AliveInv'
<1>1. /\ Live /\ t \in armed
      /\ armed' = IF t \in interval THEN armed ELSE armed \ {t}
      /\ UNCHANGED <<cur, made, interval, timerMap, target, calling, cleared>>
      /\ phase # "setting" => phase' # "setting"
  BY DEF Tick, SubmitRequest
<1>2. CASE t \notin timerMap
  <2>1. /\ UNCHANGED <<kind, timerOf>> /\ lost \subseteq lost'
    BY <1>2 DEF Tick
  <2>2. TickInv'  BY <1>1, <2>1 DEF AliveInv, TickInv
  <2>3. QED
    BY <1>1, <1>2, <2>1, <2>2 DEF AliveInv, RegisteredTimerIsAlive
<1>3. CASE t \in timerMap
  <2>1. PICK r \in TickRequests, ph \in {phase, "drain"} :
          /\ where[r] = "free" /\ SubmitRequest(r, "tick", ph)
          /\ timerOf' = [timerOf EXCEPT ![r] = t] /\ lost' = lost
    BY <1>3 DEF Tick
  <2>2. /\ r \in Requests /\ kind[r] = "none" /\ r # cur
        /\ cur \in Requests \cup {None}
        /\ t \in made /\ (phase = "setting" => t # target)
        /\ timerOf \in [Requests -> TimerIds \cup {None}]
        /\ kind \in [Requests -> Kinds]
    BY <1>1, <1>3, <2>1, TickAssumption, RequestsAssumption
       DEF TimersIInv, CoreInv, RingCore, FreeIsNothing, TimersTypeOK,
           TargetInv, OneCallbackAtATime, At
  <2>3. /\ timerOf'[r] = t
        /\ \A s \in Requests \ {r} : timerOf'[s] = timerOf[s] /\ kind'[s] = kind[s]
        /\ \/ kind'[r] = "tick"
           \/ kind'[r] = "none" /\ phase' = "crashed"
    BY <2>1, <2>2 DEF SubmitRequest
  <2>4. TickInv'
    <3>1. ASSUME NEW s \in Requests, kind'[s] = "tick"
          PROVE  timerOf'[s] \in made' /\ (phase' = "setting" => timerOf'[s] # target')
      BY <1>1, <2>2, <2>3, <3>1 DEF AliveInv, TickInv
    <3>2. cur # None => kind'[cur] = kind[cur] /\ timerOf'[cur] = timerOf[cur]
      BY <2>2, <2>3
    <3>3. QED  BY <1>1, <3>1, <3>2 DEF AliveInv, TickInv
  <2>5. interval' \cap timerMap' \subseteq armed' \cup lost'
    BY <1>1, <2>1 DEF AliveInv
  <2>6. ASSUME Live', NEW u \in timerMap'
        PROVE  \/ u \in armed' \cup lost'
               \/ \E s \in Requests : kind'[s] = "tick" /\ timerOf'[s] = u
    <3>1. CASE u = t
      BY <2>2, <2>3, <2>6, <3>1 DEF Live, Ended
    <3>2. CASE u # t
      BY <1>1, <2>1, <2>2, <2>3, <2>6, <3>2 DEF AliveInv, RegisteredTimerIsAlive
    <3>3. QED  BY <3>1, <3>2
  <2>7. QED  BY <2>4, <2>5, <2>6 DEF AliveInv, RegisteredTimerIsAlive
<1>4. QED  BY <1>2, <1>3

\* timer_cb ends: a one-shot timer is gone with its tick, an interval is armed.
LEMMA TimerCbDoneAlive ==
    ASSUME TimersIInv, AliveInv, TimerCbDone PROVE AliveInv'
<1>1. /\ phase' = "drain"
      /\ cur' = None /\ calling' = None
      /\ kind' = [kind EXCEPT ![cur] = "none"]
      /\ timerOf' = [timerOf EXCEPT ![cur] = None]
      /\ UNCHANGED <<made, armed, interval, timerMap, target, lost>>
      /\ phase \in {"after", "retiring"}
  BY DEF TimerCbDone, FreeTick, Free
<1>2. /\ cur \in Requests /\ cur # None /\ kind[cur] = "tick"
      /\ \/ calling = None \/ calling \in interval
         \/ calling \notin timerMap
  BY DEF TimerCbDone, OneShot, TimersIInv, CoreInv, OneCallbackAtATime, WindowInv
<1>3. /\ kind'[cur] = "none"
      /\ \A s \in Requests \ {cur} : timerOf'[s] = timerOf[s] /\ kind'[s] = kind[s]
  BY <1>1, <1>2 DEF TimersIInv, CoreInv, RingCore, TimersTypeOK
<1>4. TickInv'
  BY <1>1, <1>2, <1>3 DEF AliveInv, TickInv
<1>5. ASSUME NEW u \in timerMap'
      PROVE  \/ u \in armed' \cup lost'
             \/ \E s \in Requests : kind'[s] = "tick" /\ timerOf'[s] = u
  <2>1. u \in timerMap /\ u # None
    BY <1>1, <1>5, TimerAssumption DEF TimersIInv, TimersTypeOK
  <2>2. CASE u \in armed \cup lost  BY <1>1, <2>2
  <2>3. CASE u \notin armed \cup lost
    <3>1. PICK r \in Requests : kind[r] = "tick" /\ timerOf[r] = u
      BY <1>1, <2>1, <2>3 DEF AliveInv, RegisteredTimerIsAlive, Live, Ended
    <3>2. r # cur
      <4>1. SUFFICES ASSUME timerOf[cur] = u PROVE FALSE  BY <3>1
      <4>2. calling = u  BY <1>2, <2>1, <4>1 DEF AliveInv, TickInv
      <4>3. u \notin interval  BY <2>1, <2>3 DEF AliveInv
      <4>4. QED  BY <1>2, <2>1, <4>2, <4>3
    <3>3. QED  BY <1>3, <3>1, <3>2
  <2>4. QED  BY <2>2, <2>3
<1>6. QED  BY <1>1, <1>4, <1>5 DEF AliveInv, RegisteredTimerIsAlive

\* The invariant is inductive, given TimersIInv.
LEMMA StepAlive == TimersIInv /\ AliveInv /\ [TimersNext]_timersVars => AliveInv'
<1> SUFFICES ASSUME TimersIInv, AliveInv, [TimersNext]_timersVars PROVE AliveInv'
  OBVIOUS
<1>1. CASE LoopOnly  BY <1>1, LoopOnlyAlive
<1>2. ASSUME NEW t \in TimerIds, SetTimer(t) PROVE AliveInv'
  BY <1>2 DEF SetTimer, TimersIInv, TimersTypeOK, AliveInv, TickInv,
              RegisteredTimerIsAlive, Live, Ended
<1>3. ASSUME NEW t \in TimerIds, ClearTimer(t) PROVE AliveInv'
  BY <1>3 DEF ClearTimer, AliveInv, TickInv, RegisteredTimerIsAlive, Live, Ended
<1>4. ASSUME NEW t \in TimerIds, Tick(t) PROVE AliveInv'
  BY <1>4, TickAlive
<1>5. CASE RegisterTimer
  <2>1. /\ phase = "setting" /\ phase' = "counting"
        /\ timerMap' = timerMap \cup {target} /\ target \in armed \cup lost
        /\ UNCHANGED <<cur, kind, made, armed, interval, timerOf, calling, lost>>
    BY <1>5 DEF RegisterTimer, Load, TimersIInv, TargetInv
  <2>2. cur # None => cur \in Requests  BY DEF TimersIInv, CoreInv
  <2>3. TickInv'
    <3>1. ASSUME cur # None, kind[cur] = "tick"
          PROVE  timerOf[cur] # target
      BY <2>1, <2>2, <3>1 DEF AliveInv, TickInv
    <3>2. QED  BY <2>1, <2>2, <3>1 DEF AliveInv, TickInv
  <2>4. RegisteredTimerIsAlive'
    BY <2>1 DEF AliveInv, RegisteredTimerIsAlive, Live, Ended
  <2>5. QED  BY <2>1, <2>3, <2>4 DEF AliveInv
<1>6. CASE DeleteTimer
  BY <1>6 DEF DeleteTimer, Load, TimersIInv, TargetInv, AliveInv, TickInv,
              RegisteredTimerIsAlive, Live, Ended
<1>7. CASE SetTimerDone \/ ClearTimerDone
  BY <1>7 DEF SetTimerDone, ClearTimerDone, AliveInv, TickInv,
              RegisteredTimerIsAlive, Live, Ended
<1>8. CASE ReapIO \/ ReapTick
  <2>1. /\ phase = "uncount" /\ phase' \in {"js", "after"}
        /\ cur' = Head(cq) /\ kind' = kind
        /\ UNCHANGED <<made, armed, interval, timerMap, target, timerOf, lost>>
    BY <1>8 DEF ReapIO, ReapTick, CallBack
  <2>2. /\ cur = None /\ ready > 0  BY <2>1 DEF TimersIInv, WindowInv
  <2>3. Head(cq) \in Requests  BY <2>2, HeadIsPosted DEF TimersIInv, CoreInv
  <2>4. Head(cq) # None /\ calling = None
    BY <2>2, <2>3, RequestsAssumption DEF AliveInv, TickInv
  <2>5. TickInv'
    <3>1. CASE ReapIO
      <4>1. kind[Head(cq)] # "tick" /\ calling' = calling
        BY <3>1 DEF ReapIO, IOKinds, Listeners
      <4>2. QED  BY <2>1, <2>3, <2>4, <4>1 DEF AliveInv, TickInv
    <3>2. CASE ReapTick
      <4>1. /\ kind[Head(cq)] = "tick"
            /\ \/ calling' = timerOf[Head(cq)]
               \/ calling' = calling /\ timerOf[Head(cq)] \notin timerMap
        BY <3>2 DEF ReapTick
      <4>2. QED  BY <2>1, <2>3, <2>4, <4>1 DEF AliveInv, TickInv
    <3>3. QED  BY <1>8, <3>1, <3>2
  <2>6. RegisteredTimerIsAlive'
    BY <2>1 DEF AliveInv, RegisteredTimerIsAlive, Live, Ended
  <2>7. QED  BY <2>1, <2>5, <2>6 DEF AliveInv
<1>9. CASE LoadPending
  BY <1>9 DEF LoadPending, Load, AliveInv, TickInv, RegisteredTimerIsAlive,
              Live, Ended
<1>10. CASE RetireTimer
  BY <1>10 DEF RetireTimer, OneShot, Load, AliveInv, TickInv,
               RegisteredTimerIsAlive, Live, Ended
<1>11. CASE TimerCbDone  BY <1>11, TimerCbDoneAlive
<1>12. ASSUME NEW t \in TimerIds, TickInSubmit(t) PROVE AliveInv'
  BY <1>12 DEF TickInSubmit, timerVars, AliveInv, TickInv,
               RegisteredTimerIsAlive, Live, Ended
<1>13. CASE UNCHANGED timersVars
  BY <1>13 DEF AliveInv, TickInv, RegisteredTimerIsAlive, timersVars, timerVars,
               ringVars, Live
<1>14. QED
  BY <1>1, <1>2, <1>3, <1>4, <1>5, <1>6, <1>7, <1>8, <1>9, <1>10, <1>11,
     <1>12, <1>13 DEF TimersNext, TimerStep, Over, timersVars

\* A registered timer has something left that will run its callback: the
\* kernel's timer, a tick under way, or the callback itself; but for a timeout
\* of zero and an expiry before the timer was registered.
THEOREM RegisteredTimersLive == TimersSpec => []RegisteredTimerIsAlive
<1>1. AliveInv => RegisteredTimerIsAlive  BY DEF AliveInv
<1>2. QED
  BY <1>1, InitAlive, StepAlive, TimersInvariance, PTL DEF TimersSpec

-----------------------------------------------------------------------------
(* Leaving the loop, and sleeping in it *)

\* What the thread has established where it decides; with timers `pending`
\* says so only as long as no dead timer was cleared and no increment was
\* overwritten.
ExitInv ==
    /\ ExitsOnlyWhenDone
    /\ phase \in {"enter", "wait"} /\ surplus = 0 /\ overwritten = 0 =>
          OutstandingIn(where) # {} \/ timerMap # {}
    /\ phase = "wait" => At("sq") = {}

\* Where the loop looks at it, `pending` is zero exactly when nothing is left.
LEMMA ZeroMeansNothingLeft ==
    ASSUME TimersIInv, phase = "check", surplus = 0, overwritten = 0
    PROVE  pending = 0 <=> OutstandingIn(where) = {} /\ timerMap = {}
<1> DEFINE o == Cardinality(OutstandingIn(where))
           m == Cardinality(timerMap)
<1>1. o \in Nat /\ (o = 0 <=> OutstandingIn(where) = {})
  BY OutstandingFinite, FS_EmptySet
<1>2. m \in Nat /\ (m = 0 <=> timerMap = {})
  BY TimerSetFinite, FS_EmptySet DEF TimersIInv, TimersTypeOK
<1>3. Balance = m - surplus - overwritten + 0
  BY Books
<1>4. Balance = pending - o /\ pending \in Int
  BY BalanceIs DEF TimersIInv, CoreInv, RingCore
<1> HIDE DEF o, m
<1>5. pending = o + m  BY <1>1, <1>2, <1>3, <1>4
<1>6. QED  BY <1>1, <1>2, <1>5

\* The loop's own steps.
LEMMA LoopOnlyExit == ASSUME TimersIInv, ExitInv, LoopOnly PROVE ExitInv'
<1>1. UNCHANGED <<timerMap, surplus, overwritten>>
  BY DEF LoopOnly, timerVars, countVars
<1>2. ASSUME NEW r \in Requests, JSOperation(r) PROVE ExitInv'
  <2>1. PICK k \in IOKinds : Request(r, k)
    BY <1>2 DEF JSOperation, ReadWrite, Close, Connect, Listen, OpenAt,
                IOKinds, Listeners
  <2>2. phase' \in {"js", "crashed"}  BY <2>1 DEF Request, SubmitRequest
  <2>3. QED  BY <2>2 DEF ExitInv, ExitsOnlyWhenDone
<1>3. ASSUME NEW r \in Requests, Complete(r) PROVE ExitInv'
  <2>1. /\ phase' = phase /\ phase # "exited" /\ where[r] = "kernel"
        /\ where' = [where EXCEPT ![r] = "cq"]
        /\ where \in [Requests -> Places]
    BY <1>3 DEF Complete, Live, Ended, TimersIInv, CoreInv, RingCore
  <2>2. OutstandingIn(where') = OutstandingIn(where)
    BY <2>1 DEF OutstandingIn, Away
  <2>3. At("sq")' = At("sq")  BY <2>1 DEF At
  <2>4. QED  BY <1>1, <2>1, <2>2, <2>3 DEF ExitInv, ExitsOnlyWhenDone
<1>4. CASE LoopCheck
  <2>1. /\ phase = "check" /\ UNCHANGED where
        /\ phase' = IF pending # 0 THEN "enter" ELSE "exited"
    BY <1>4 DEF LoopCheck
  <2>2. Outstanding' = OutstandingIn(where)
    BY <2>1 DEF Outstanding, OutstandingIn, Away
  <2>3. QED
    BY <1>1, <2>1, <2>2, ZeroMeansNothingLeft DEF ExitInv, ExitsOnlyWhenDone
<1>5. CASE Enter
  <2>1. /\ phase = "enter" /\ phase' \in {"drain", "wait"}
        /\ phase' = "wait" =>
             where' = [r \in Requests |->
                         IF where[r] = "sq" THEN "kernel" ELSE where[r]]
    BY <1>5 DEF Enter
  <2>2. phase' = "wait" => /\ OutstandingIn(where') = OutstandingIn(where)
                           /\ At("sq")' = {}
    BY <2>1 DEF OutstandingIn, Away, At
  <2>3. QED  BY <1>1, <2>1, <2>2 DEF ExitInv, ExitsOnlyWhenDone
<1>6. CASE Wake \/ Interrupted \/ DrainDone \/ JSReturn \/ Terminate \/ Rearm
           \/ Release
  <2>1. phase' \in {"drain", "check", "after", "terminated", "js", "crashed"}
    BY <1>6 DEF Wake, Interrupted, DrainDone, JSReturn, Terminate, Rearm,
       SubmitRequest, Release, Free
  <2>2. QED  BY <2>1 DEF ExitInv, ExitsOnlyWhenDone
<1>7. QED
  BY <1>2, <1>3, <1>4, <1>5, <1>6 DEF LoopOnly, LoopOnlyStep

\* An expiry takes the thread out of its sleep, and leaves what was left.
LEMMA TickExit ==
    ASSUME TimersIInv, ExitInv, NEW t \in TimerIds, Tick(t) PROVE ExitInv'
<1>1. /\ phase' = (IF phase = "wait" THEN "drain" ELSE phase) \/ phase' = "crashed"
      /\ Live /\ UNCHANGED <<timerMap, surplus, overwritten>>
  BY DEF Tick, SubmitRequest, countVars
<1>2. phase' \notin {"exited", "wait"}  BY <1>1 DEF Live, Ended
<1>3. OutstandingIn(where) # {} => OutstandingIn(where') # {}
  <2>1. CASE t \in timerMap
    <3>1. PICK r \in TickRequests, ph \in {phase, "drain"} :
            where[r] = "free" /\ SubmitRequest(r, "tick", ph)
      BY <2>1 DEF Tick
    <3>2. \A s \in Requests : s # r => where'[s] = where[s]
      BY <3>1 DEF SubmitRequest, TimersIInv, CoreInv, RingCore
    <3>3. r \notin OutstandingIn(where)
      BY <3>1 DEF OutstandingIn, Away
    <3>4. QED  BY <3>2, <3>3 DEF OutstandingIn
  <2>2. CASE t \notin timerMap
    BY <2>2 DEF Tick
  <2>3. QED  BY <2>1, <2>2
<1>4. QED  BY <1>1, <1>2, <1>3 DEF ExitInv, ExitsOnlyWhenDone

\* The invariant is inductive, given TimersIInv.
LEMMA StepExit == TimersIInv /\ ExitInv /\ [TimersNext]_timersVars => ExitInv'
<1> SUFFICES ASSUME TimersIInv, ExitInv, [TimersNext]_timersVars PROVE ExitInv'
  OBVIOUS
<1>1. CASE LoopOnly  BY <1>1, LoopOnlyExit
<1>2. ASSUME NEW t \in TimerIds, Tick(t) PROVE ExitInv'
  BY <1>2, TickExit
<1>3. CASE /\ ~LoopOnly /\ ~UNCHANGED timersVars
           /\ ~\E t \in TimerIds : Tick(t)
  <2>1. phase' \in {"js", "setting", "clearing", "after", "drain", "crashed"}
                     \cup Windows
    BY <1>3 DEF TimersNext, SetTimer, ClearTimer, TickInSubmit, TimerStep,
       LoadPending, Load, Windows, ReapIO, ReapTick, CallBack, RetireTimer,
       TimerCbDone, FreeTick, Free, RegisterTimer, SetTimerDone, DeleteTimer,
       ClearTimerDone, Over, timersVars
  <2>2. QED  BY <2>1 DEF ExitInv, ExitsOnlyWhenDone, Windows
<1>4. CASE UNCHANGED timersVars
  BY <1>4 DEF ExitInv, ExitsOnlyWhenDone, timersVars, timerVars, countVars,
     ringVars, At, Outstanding
<1>5. QED  BY <1>1, <1>2, <1>3, <1>4

\* Every reachable state satisfies the three parts of the invariant.
THEOREM TimersFullInvariance == TimersSpec => [](TimersIInv /\ AliveInv /\ ExitInv)
<1>1. TimersInit => ExitInv
  BY DEF TimersInit, RingInit, ExitInv, ExitsOnlyWhenDone
<1>2. QED
  BY <1>1, TimersInitIInv, InitAlive, StepTimersIInv, StepAlive, StepExit, PTL
     DEF TimersSpec

\* The process ends by itself with a timer registered or a request
\* outstanding only after a clear of a dead timer or an overwritten increment.
THEOREM ExitMeansDone == TimersSpec => []ExitsOnlyWhenDone
<1>1. ExitInv => ExitsOnlyWhenDone  BY DEF ExitInv
<1>2. QED  BY <1>1, TimersFullInvariance, PTL

\* The loop sleeps only if the kernel has a request or a posted completion, or
\* a timer that will wake it, as long as no expiry was lost, no dead timer was
\* cleared and no increment was overwritten: for a registered timer is alive.
THEOREM SleepsForATimerOrARequest == TimersSpec => []SleepsOnlyIfSomethingIsLeft
<1>1. TimersIInv /\ AliveInv /\ ExitInv => SleepsOnlyIfSomethingIsLeft
  <2> SUFFICES ASSUME TimersIInv, AliveInv, ExitInv,
                      phase = "wait", surplus = 0, overwritten = 0, lost = {},
                      timerMap \cap armed = {}
               PROVE  At("kernel") \cup At("cq") # {}
    BY DEF SleepsOnlyIfSomethingIsLeft
  <2>1. At("sq") = {}  BY DEF ExitInv
  <2>2. OutstandingIn(where) # {}
    <3>1. CASE timerMap = {}  BY <3>1 DEF ExitInv
    <3>2. CASE timerMap # {}
      <4>1. PICK t \in timerMap : TRUE  BY <3>2
      <4>2. PICK r \in Requests : kind[r] = "tick" /\ timerOf[r] = t
        BY <4>1 DEF AliveInv, RegisteredTimerIsAlive, Live, Ended
      <4>3. where[r] # "free" /\ where[r] \in Places
        BY <4>2 DEF TimersIInv, CoreInv, RingCore, FreeIsNothing
      <4>4. where[r] # "cb"
        BY DEF TimersIInv, CoreInv, OneCallbackAtATime, At
      <4>5. QED  BY <4>3, <4>4 DEF OutstandingIn, Away, Places
    <3>3. QED  BY <3>1, <3>2
  <2>3. QED  BY <2>1, <2>2 DEF OutstandingIn, Away, At
<1>2. QED  BY <1>1, TimersFullInvariance, PTL
=============================================================================
