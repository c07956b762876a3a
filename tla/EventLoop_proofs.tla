--------------------------- MODULE EventLoop_proofs ---------------------------
(***************************************************************************)
(* The event loop of EventLoop keeps its invariants and implements         *)
(* AsyncContract, for any set of requests, any ring size and both kernels. *)
(*                                                                         *)
(* The inductive invariant IInv joins the state of the ring, of the thread *)
(* and of the counter: `pending` can only be trusted because a request is  *)
(* in at most one callback, and in the completion queue at most once.      *)
(***************************************************************************)
EXTENDS EventLoop, Ring_proofs

\* The state of the ring and of the thread; every module built on EventLoop
\* keeps it.
CoreInv ==
    /\ RingCore
    /\ OneCallbackAtATime
    /\ cur \in Requests \cup {None}

\* With it, the counter: nothing but requests contributes to `pending` here.
IInv ==
    /\ CoreInv
    /\ Balance = 0
    /\ phase \in Phases
    /\ \A r \in Requests : kind[r] \in IOKinds \cup {"none"}

\* The facts about kinds the proofs need.
LEMMA KindFacts ==
    /\ IOKinds \subseteq Kinds \ {"none"}
    /\ Listeners \subseteq IOKinds
BY DEF IOKinds, Kinds, Listeners

\* The initial state satisfies the invariant.
LEMMA InitIInv == RingInit => IInv
<1> SUFFICES ASSUME RingInit PROVE IInv
  OBVIOUS
<1>1. RingCore /\ Balance = 0 /\ OneCallbackAtATime  BY RingInitCore
<1>2. QED
  BY <1>1 DEF IInv, CoreInv, RingInit, Phases, IOKinds

-----------------------------------------------------------------------------
(* The steps keep the core and the balance *)

\* A request made by JavaScript, or by a signal handler: it takes a free one
\* and does not touch the callback that runs.
LEMMA SubmitFreeKeeps ==
    ASSUME CoreInv, NEW r \in Requests, where[r] = "free",
           NEW k \in Kinds \ {"none"},
           NEW ph, SubmitRequest(r, k, ph), cur' = cur,
           ph \in {"check", "enter", "wait", "drain", "exited"} => cur = None,
           ph = "after" => cur # None
    PROVE  CoreInv' /\ Balance' = Balance
<1>1. RingCore' /\ Balance' = Balance
  BY SubmitKeeps DEF CoreInv, Away
<1>2. phase' \in {ph, "crashed"}  BY DEF SubmitRequest
<1>3. At("cb")' = At("cb")
  BY DEF SubmitRequest, At, CoreInv, RingCore
<1>4. OneCallbackAtATime'
  BY <1>2, <1>3 DEF OneCallbackAtATime, CoreInv
<1>5. QED  BY <1>1, <1>4 DEF CoreInv

\* A callback submits its request again: as much is counted as was uncounted.
LEMMA ResubmitKeeps ==
    ASSUME CoreInv, phase = "after", NEW k \in Kinds \ {"none"},
           SubmitRequest(cur, k, "drain"),
           cur' = IF phase' = "drain" THEN None ELSE cur
    PROVE  CoreInv' /\ Balance' = Balance
<1>1. cur \in Requests /\ cur \in At("cb") /\ where[cur] = "cb"
  BY DEF CoreInv, OneCallbackAtATime, At
<1>2. PICK r \in Requests : r = cur  BY <1>1
<1>3. SubmitRequest(r, k, "drain")  BY <1>2
<1>4. RingCore' /\ Balance' = Balance
  BY <1>1, <1>2, <1>3, SubmitKeeps DEF CoreInv, Away
<1>5. phase' \in {"drain", "crashed"}  BY <1>3 DEF SubmitRequest
<1>6. OneCallbackAtATime'
  <2>1. CASE phase' = "crashed"
    <3>1. UNCHANGED <<where, cur>>  BY <1>3, <2>1 DEF SubmitRequest
    <3>2. QED  BY <2>1, <3>1 DEF OneCallbackAtATime, CoreInv, At
  <2>2. CASE phase' = "drain"
    <3>1. cur' = None /\ \E p \in {"sq", "kernel"} : where' = [where EXCEPT ![r] = p]
      BY <1>3, <2>2 DEF SubmitRequest
    <3>2. At("cb")' = At("cb") \ {r}
      BY <3>1 DEF At, CoreInv, RingCore
    <3>3. At("cb")' = {}
      BY <1>2, <3>2 DEF OneCallbackAtATime, CoreInv
    <3>4. QED  BY <2>2, <3>1, <3>3 DEF OneCallbackAtATime
  <2>3. QED  BY <1>5, <2>1, <2>2
<1>7. QED  BY <1>1, <1>4, <1>6 DEF CoreInv

\* A listener submitted again.
LEMMA RearmKeeps ==
    ASSUME CoreInv, Rearm PROVE CoreInv' /\ Balance' = Balance
<1>1. /\ phase = "after" /\ kind[cur] \in Kinds \ {"none"}
      /\ SubmitRequest(cur, kind[cur], "drain")
      /\ cur' = IF phase' = "drain" THEN None ELSE cur
  BY KindFacts DEF Rearm
<1>2. QED  BY <1>1, ResubmitKeeps

\* A completion is taken and its callback begins, whatever happens to the
\* count.
LEMMA CallBackKeepsCore ==
    ASSUME CoreInv, cur = None, ready > 0, NEW ph \in {"js", "after"},
           CallBack(ph), pending' \in Int
    PROVE  CoreInv' /\ Balance' = Balance + 1 + (pending' - pending)
<1>1. /\ RingCore' /\ Balance' = Balance + 1 + (pending' - pending)
      /\ Head(cq) \in Requests /\ cur' = Head(cq) /\ phase' = ph
      /\ At("cb")' = At("cb") \cup {Head(cq)}
  BY CallBackKeeps DEF CoreInv
<1>2. At("cb")' = {cur'} /\ cur' # None
  BY <1>1, RequestsAssumption DEF CoreInv, OneCallbackAtATime
<1>3. OneCallbackAtATime'  BY <1>1, <1>2 DEF OneCallbackAtATime
<1>4. QED  BY <1>1, <1>3 DEF CoreInv

\* ... and the count with it.
LEMMA DeliverKeepsCore ==
    ASSUME CoreInv, NEW ph \in {"js", "after"}, Deliver(ph)
    PROVE  CoreInv' /\ Balance' = Balance
<1>1. /\ phase = "drain" /\ ready > 0 /\ pending' = pending - 1
      /\ CallBack(ph)
  BY DEF Deliver
<1>2. cur = None /\ pending' \in Int
  BY <1>1 DEF CoreInv, RingCore, OneCallbackAtATime
<1>3. CoreInv'  BY <1>1, <1>2, CallBackKeepsCore
<1>4. Balance' = Balance  BY DeliverKeeps DEF CoreInv
<1>5. QED  BY <1>3, <1>4

\* A callback frees its request; the counter may change for other reasons.
LEMMA FreeKeepsCore ==
    ASSUME CoreInv, cur # None, Free, UNCHANGED <<cq, ready>>,
           pending' \in Int
    PROVE  CoreInv' /\ Balance' = Balance + (pending' - pending)
<1>1. cur \in Requests /\ At("cb") = {cur} /\ where[cur] = "cb"
  BY DEF CoreInv, OneCallbackAtATime, At
<1>2. RingCore' /\ OutstandingIn(where') = OutstandingIn(where)
  BY <1>1, FreeKeeps DEF CoreInv
<1>3. Balance' = Balance + (pending' - pending)
  BY <1>2, BalanceIs, OutstandingFinite DEF CoreInv, RingCore
<1>4. phase' = "drain" /\ cur' = None /\ where' = [where EXCEPT ![cur] = "free"]
  BY DEF Free
<1>5. At("cb")' = {}
  BY <1>1, <1>4 DEF At, CoreInv, RingCore
<1>6. OneCallbackAtATime'  BY <1>4, <1>5 DEF OneCallbackAtATime
<1>7. QED  BY <1>2, <1>3, <1>4, <1>6 DEF CoreInv

\* The callback of a request that is not a listener's ends.
LEMMA ReleaseKeeps ==
    ASSUME CoreInv, Release PROVE CoreInv' /\ Balance' = Balance
<1>1. phase = "after" /\ Free /\ UNCHANGED <<pending, cq, ready>>
  BY DEF Release
<1>2. pending' \in Int /\ pending' - pending = 0
  BY <1>1 DEF CoreInv, RingCore
<1>3. Balance \in Int
  BY BalanceIs, OutstandingFinite DEF CoreInv, RingCore
<1>4. CoreInv' /\ Balance' = Balance + (pending' - pending)
  <2>1. UNCHANGED <<cq, ready>> /\ cur # None
    BY <1>1 DEF CoreInv, OneCallbackAtATime
  <2>2. QED  BY <1>1, <1>2, <2>1, FreeKeepsCore
<1>5. Balance' = Balance  BY <1>2, <1>3, <1>4
<1>6. QED  BY <1>4, <1>5

\* The kernel completes a request.
LEMMA CompleteKeepsCore ==
    ASSUME CoreInv, NEW r \in Requests, Complete(r)
    PROVE  CoreInv' /\ Balance' = Balance
<1>1. RingCore' /\ Balance' = Balance
  BY CompleteKeeps DEF CoreInv
<1>2. /\ UNCHANGED <<phase, cur>>
      /\ where[r] = "kernel" /\ where' = [where EXCEPT ![r] = "cq"]
  BY DEF Complete
<1>3. At("cb")' = At("cb")
  BY <1>2 DEF At, CoreInv, RingCore
<1>4. OneCallbackAtATime'  BY <1>2, <1>3 DEF OneCallbackAtATime, CoreInv
<1>5. QED  BY <1>1, <1>2, <1>4 DEF CoreInv

\* The loop enters the kernel.
LEMMA EnterKeepsCore ==
    ASSUME CoreInv, Enter PROVE CoreInv' /\ Balance' = Balance
<1>1. RingCore' /\ Balance' = Balance  BY EnterKeeps DEF CoreInv
<1>2. /\ UNCHANGED cur /\ phase = "enter" /\ phase' \in {"drain", "wait"}
      /\ \/ where' = where
         \/ where' = [r \in Requests |->
                        IF where[r] = "sq" THEN "kernel" ELSE where[r]]
  BY DEF Enter
<1>3. At("cb")' = At("cb")  BY <1>2 DEF At, CoreInv, RingCore
<1>4. OneCallbackAtATime'  BY <1>2, <1>3 DEF OneCallbackAtATime, CoreInv
<1>5. QED  BY <1>1, <1>2, <1>4 DEF CoreInv

\* The thread moves on, and nothing else changes.
ThreadStep == LoopCheck \/ Wake \/ Interrupted \/ DrainDone \/ JSReturn \/ Terminate

LEMMA ThreadStepKeepsCore ==
    ASSUME CoreInv, ThreadStep PROVE CoreInv' /\ Balance' = Balance
<1>1. UNCHANGED <<cur, pending, where, kind, cq, ready>>
  BY DEF ThreadStep, LoopCheck, Wake, Interrupted, DrainDone, JSReturn, Terminate
<1>2. RingCore' /\ Balance' = Balance  BY <1>1, ThreadStepKeeps DEF CoreInv
<1>3. /\ phase' \in {"check", "enter", "wait", "drain", "exited"} => cur = None
      /\ phase' = "after" => cur # None
  BY DEF ThreadStep, LoopCheck, Wake, Interrupted, DrainDone, JSReturn,
         Terminate, CoreInv, OneCallbackAtATime
<1>4. OneCallbackAtATime'
  BY <1>1, <1>3 DEF OneCallbackAtATime, CoreInv, At
<1>5. QED  BY <1>1, <1>2, <1>4 DEF CoreInv

\* The balance is a number.
LEMMA BalanceType == RingCore => Balance \in Int
BY BalanceIs, OutstandingFinite DEF RingCore

\* A step in native code called from JavaScript that moves no request; it may
\* change the counter.
LEMMA CounterKeepsCore ==
    ASSUME CoreInv, cur' = cur, where' = where, kind' = kind, cq' = cq,
           ready' = ready, pending' \in Int,
           phase' \notin {"check", "enter", "wait", "drain", "exited"},
           phase' = "after" => cur # None
    PROVE  CoreInv' /\ Balance' = Balance + (pending' - pending)
<1>1. RingCore'
  BY DEF CoreInv, RingCore, CompletionQueueExact, FreeIsNothing, At
<1>2. Balance' = Balance + (pending' - pending)
  BY BalanceIs, OutstandingFinite DEF CoreInv, RingCore
<1>3. OneCallbackAtATime'  BY DEF CoreInv, OneCallbackAtATime, At
<1>4. QED  BY <1>1, <1>2, <1>3 DEF CoreInv

\* A stuttering step of the ring.
LEMMA StutterKeepsCore ==
    ASSUME CoreInv, UNCHANGED ringVars PROVE CoreInv' /\ Balance' = Balance
<1>1. RingCore' /\ Balance' = Balance
  BY ThreadStepKeeps DEF CoreInv, ringVars
<1>2. QED  BY <1>1 DEF CoreInv, OneCallbackAtATime, At, ringVars

\* Every step of the specification is one of these.
LEMMA StepCases ==
    ASSUME [Next]_ringVars
    PROVE  \/ \E r \in Requests, k \in IOKinds : Request(r, k)
           \/ \E r \in Requests : Complete(r)
           \/ ThreadStep \/ Enter \/ Reap \/ Rearm \/ Release
           \/ UNCHANGED ringVars
<1>1. ASSUME NEW r \in Requests, JSOperation(r)
      PROVE  \E k \in IOKinds : Request(r, k)
  BY <1>1 DEF JSOperation, ReadWrite, Close, Connect, Listen, OpenAt,
              IOKinds, Listeners
<1>2. QED  BY <1>1 DEF Next, LoopStep, ThreadStep, Over

\* Together: a step of the event loop keeps the core and the balance, whatever
\* else contributes to the counter.
LEMMA LoopStepKeeps ==
    ASSUME CoreInv,
           \/ \E r \in Requests, k \in IOKinds : Request(r, k)
           \/ \E r \in Requests : Complete(r)
           \/ ThreadStep \/ Enter \/ Reap \/ Rearm \/ Release
           \/ UNCHANGED ringVars
    PROVE  CoreInv' /\ Balance' = Balance
<1>1. CASE \E r \in Requests, k \in IOKinds : Request(r, k)
  <2>1. PICK r \in Requests, k \in IOKinds : Request(r, k)  BY <1>1
  <2>2. where[r] = "free" /\ SubmitRequest(r, k, "js") /\ cur' = cur
    BY <2>1 DEF Request
  <2>3. k \in Kinds \ {"none"}  BY KindFacts
  <2>4. QED  BY <2>2, <2>3, SubmitFreeKeeps
<1>2. CASE \E r \in Requests : Complete(r)  BY <1>2, CompleteKeepsCore
<1>3. CASE ThreadStep  BY <1>3, ThreadStepKeepsCore
<1>4. CASE Enter  BY <1>4, EnterKeepsCore
<1>5. CASE Reap
  <2>1. PICK ph \in {"js", "after"} : Deliver(ph)  BY <1>5 DEF Reap
  <2>2. QED  BY <2>1, DeliverKeepsCore
<1>6. CASE Rearm  BY <1>6, RearmKeeps
<1>7. CASE Release  BY <1>7, ReleaseKeeps
<1>8. CASE UNCHANGED ringVars  BY <1>8, StutterKeepsCore
<1>9. QED  BY <1>1, <1>2, <1>3, <1>4, <1>5, <1>6, <1>7, <1>8

\* The invariant is inductive.
LEMMA StepIInv == IInv /\ [Next]_ringVars => IInv'
<1> SUFFICES ASSUME IInv, [Next]_ringVars PROVE IInv'
  OBVIOUS
<1>1. CoreInv' /\ Balance' = Balance
  BY StepCases, LoopStepKeeps DEF IInv
<1>2. phase' \in Phases
  BY StepCases DEF IInv, Phases, Ended, Request, SubmitRequest, Complete,
     ThreadStep, LoopCheck, Wake, Interrupted, DrainDone, JSReturn, Terminate,
     Enter, Reap, Deliver, CallBack, Rearm, Release, Free, ringVars
<1>3. \A r \in Requests : kind'[r] \in IOKinds \cup {"none"}
  <2>1. CASE kind' = kind  BY <2>1 DEF IInv
  <2>3. CASE \E r \in Requests, k \in IOKinds : Request(r, k)
    <3>1. PICK r \in Requests, k \in IOKinds : Request(r, k)  BY <2>3
    <3>2. kind' = kind \/ kind' = [kind EXCEPT ![r] = k]
      BY <3>1 DEF Request, SubmitRequest
    <3>3. QED  BY <2>1, <3>2 DEF IInv, CoreInv, RingCore
  <2>4. CASE Rearm
    <3>1. kind[cur] \in IOKinds  BY <2>4, KindFacts DEF Rearm
    <3>2. \/ kind' = kind
          \/ kind' = [kind EXCEPT ![cur] = kind[cur]]
      BY <2>4 DEF Rearm, SubmitRequest
    <3>3. QED  BY <3>1, <3>2 DEF IInv, CoreInv, RingCore
  <2>5. CASE Release
    <3>1. kind' = [kind EXCEPT ![cur] = "none"]  BY <2>5 DEF Release, Free
    <3>2. QED  BY <3>1 DEF IInv, CoreInv, RingCore
  <2>6. QED
    BY <2>1, <2>3, <2>4, <2>5, StepCases
       DEF Complete, ThreadStep, LoopCheck, Wake, Interrupted, DrainDone,
           JSReturn, Terminate, Enter, Reap, Deliver, CallBack, ringVars
<1>4. QED  BY <1>1, <1>2, <1>3 DEF IInv

\* Every reachable state satisfies the invariant.
THEOREM Invariance == Spec => []IInv
BY InitIInv, StepIInv, PTL DEF Spec

\* The state keeps its types (EventLoop!TypeOK).
THEOREM TypeCorrect == Spec => []TypeOK
<1>1. IInv => TypeOK  BY DEF IInv, CoreInv, RingCore, TypeOK, RingTypeOK
<1>2. QED  BY <1>1, Invariance, PTL

\* The counter of RunIOUring is exactly the number of requests that are in
\* the submission queue, in the kernel or in the completion queue.
THEOREM PendingIsExact == Spec => []PendingIsOutstanding
<1>1. IInv => PendingIsOutstanding  BY DEF IInv, PendingIsOutstanding
<1>2. QED  BY <1>1, Invariance, PTL

\* Each completed request is in the completion queue exactly once.
THEOREM CompletionsAreExact == Spec => []CompletionQueueExact
<1>1. IInv => CompletionQueueExact  BY DEF IInv, CoreInv, RingCore
<1>2. QED  BY <1>1, Invariance, PTL

\* Callbacks do not nest and do not leak their requests.
THEOREM CallbacksDoNotNest == Spec => []OneCallbackAtATime
<1>1. IInv => OneCallbackAtATime  BY DEF IInv, CoreInv
<1>2. QED  BY <1>1, Invariance, PTL

-----------------------------------------------------------------------------
(* Leaving the loop, and sleeping in it *)

\* What the thread has established at the places where it decides.
LoopInv ==
    /\ phase = "exited" => pending = 0
    /\ phase \in {"enter", "wait"} => pending # 0
    /\ phase = "wait" => At("sq") = {} /\ (cq # <<>> => ready > 0)

\* Nothing is outstanding exactly when the counter is zero.
LEMMA ZeroMeansNone == IInv => (pending = 0 <=> OutstandingIn(where) = {})
<1> SUFFICES ASSUME IInv PROVE pending = 0 <=> OutstandingIn(where) = {}
  OBVIOUS
<1>1. pending = Cardinality(OutstandingIn(where))
  BY BalanceIs, OutstandingFinite DEF IInv, CoreInv, RingCore
<1>2. QED  BY <1>1, OutstandingFinite, FS_EmptySet

\* The kernel posts a completion where a sleeping thread sees it.
LEMMA CompleteWakes ==
    ASSUME IInv, LoopInv, NEW r \in Requests, Complete(r) PROVE LoopInv'
<1>1. /\ UNCHANGED <<phase, pending>>
      /\ where[r] = "kernel" /\ where' = [where EXCEPT ![r] = "cq"]
      /\ ready' = IF ready = Len(cq) /\ ready < CQEntries THEN ready + 1 ELSE ready
  BY DEF Complete
<1>2. At("sq")' = At("sq") \ {r}
  BY <1>1 DEF At, IInv, CoreInv, RingCore
<1>3. ASSUME phase = "wait" PROVE ready' > 0
  <2>1. CASE cq = <<>>
    <3>1. Len(cq) = 0  BY <2>1
    <3>2. ready = 0 /\ ready < CQEntries
      BY <3>1, CQEntriesAssumption DEF IInv, CoreInv, RingCore
    <3>3. QED  BY <1>1, <3>1, <3>2
  <2>2. CASE cq # <<>>
    <3>1. ready > 0 /\ ready \in Nat
      BY <1>3, <2>2, CQEntriesAssumption DEF LoopInv, IInv, CoreInv, RingCore
    <3>2. QED  BY <1>1, <3>1
  <2>3. QED  BY <2>1, <2>2
<1>4. QED  BY <1>1, <1>2, <1>3 DEF LoopInv

\* The thread goes to sleep with the submission queue empty and the backlog
\* flushed into the ring.
LEMMA EnterSleeps == ASSUME IInv, LoopInv, Enter PROVE LoopInv'
<1>1. phase = "enter" /\ pending' = pending /\ cq' = cq /\ ready' = Flushed
  BY DEF Enter
<1>2. CASE phase' = "drain"  BY <1>2 DEF LoopInv
<1>3. CASE phase' = "wait"
  <2>1. \/ where' = [r \in Requests |->
                       IF where[r] = "sq" THEN "kernel" ELSE where[r]]
    BY <1>3 DEF Enter
  <2>2. At("sq")' = {}  BY <2>1 DEF At
  <2>3. ASSUME cq' # <<>> PROVE ready' > 0
    <3>1. Len(cq) \in Nat /\ cq \in Seq(Requests)
      BY LenProperties DEF IInv, CoreInv, RingCore
    <3>2. Len(cq) > 0  BY <1>1, <2>3, <3>1, EmptySeq
    <3>3. QED  BY <1>1, <3>1, <3>2, CQEntriesAssumption DEF Flushed, Smaller
  <2>4. QED  BY <1>1, <1>3, <2>2, <2>3 DEF LoopInv
<1>4. QED  BY <1>2, <1>3 DEF Enter

\* LoopInv is inductive, given IInv.
LEMMA StepLoopInv == IInv /\ LoopInv /\ [Next]_ringVars => LoopInv'
<1> SUFFICES ASSUME IInv, LoopInv, [Next]_ringVars PROVE LoopInv'
  OBVIOUS
<1>1. CASE \E r \in Requests, k \in IOKinds : Request(r, k)
  <2>1. phase' \in {"js", "crashed"}  BY <1>1 DEF Request, SubmitRequest
  <2>2. QED  BY <2>1 DEF LoopInv
<1>2. CASE \E r \in Requests : Complete(r)  BY <1>2, CompleteWakes
<1>3. CASE ThreadStep
  <2>1. UNCHANGED <<pending, where, cq, ready>>
    BY <1>3 DEF ThreadStep, LoopCheck, Wake, Interrupted, DrainDone, JSReturn,
                Terminate
  <2>2. CASE LoopCheck
    <3>1. \/ phase' = "enter" /\ pending # 0
          \/ phase' = "exited" /\ pending = 0
      BY <2>2 DEF LoopCheck
    <3>2. QED  BY <2>1, <3>1 DEF LoopInv
  <2>3. CASE ~LoopCheck
    <3>1. phase' \in {"drain", "check", "after", "terminated"}
      BY <1>3, <2>3 DEF ThreadStep, Wake, Interrupted, DrainDone, JSReturn,
                        Terminate
    <3>2. QED  BY <3>1 DEF LoopInv
  <2>4. QED  BY <2>2, <2>3
<1>4. CASE Enter  BY <1>4, EnterSleeps
<1>5. CASE Reap \/ Rearm \/ Release
  <2>1. phase' \in {"js", "after", "drain", "crashed"}
    BY <1>5 DEF Reap, Deliver, CallBack, Rearm, SubmitRequest, Release, Free
  <2>2. QED  BY <2>1 DEF LoopInv
<1>6. CASE UNCHANGED ringVars  BY <1>6 DEF LoopInv, ringVars, At
<1>7. QED  BY <1>1, <1>2, <1>3, <1>4, <1>5, <1>6, StepCases

\* Every reachable state satisfies both parts of the invariant.
THEOREM LoopInvariance == Spec => [](IInv /\ LoopInv)
<1>1. RingInit => LoopInv  BY DEF RingInit, LoopInv
<1>2. QED  BY <1>1, InitIInv, StepIInv, StepLoopInv, PTL DEF Spec

\* A process with a listener never leaves the loop by itself.
THEOREM ListenersLive == Spec => []ListenerKeepsLoopAlive
<1>1. IInv /\ LoopInv => ListenerKeepsLoopAlive
  <2> SUFFICES ASSUME IInv, LoopInv, NEW r \in Requests, kind[r] \in Listeners,
                      phase = "exited"
               PROVE  FALSE
    BY DEF ListenerKeepsLoopAlive
  <2>1. OutstandingIn(where) = {}  BY ZeroMeansNone DEF LoopInv
  <2>2. At("cb") = {}  BY DEF IInv, CoreInv, OneCallbackAtATime
  <2>3. where[r] = "free"
    BY <2>1, <2>2 DEF OutstandingIn, Away, At, IInv, CoreInv, RingCore, Places
  <2>4. kind[r] = "none"  BY <2>3 DEF IInv, CoreInv, RingCore, FreeIsNothing
  <2>5. QED  BY <2>4 DEF Listeners
<1>2. QED  BY <1>1, LoopInvariance, PTL

\* The thread sleeps only when the kernel has something to complete or has
\* posted something the thread sees.
THEOREM SleepsForAReason == Spec => []NeverWaitsForNothing
<1>1. IInv /\ LoopInv => NeverWaitsForNothing
  <2> SUFFICES ASSUME IInv, LoopInv, phase = "wait"
               PROVE  /\ At("kernel") \cup At("cq") # {}
                      /\ cq # <<>> => ready > 0
    BY DEF NeverWaitsForNothing
  <2>1. OutstandingIn(where) # {}  BY ZeroMeansNone DEF LoopInv
  <2>2. At("sq") = {}  BY DEF LoopInv
  <2>3. At("kernel") \cup At("cq") # {}
    BY <2>1, <2>2 DEF OutstandingIn, Away, At
  <2>4. QED  BY <2>3 DEF LoopInv
<1>2. QED  BY <1>1, LoopInvariance, PTL

-----------------------------------------------------------------------------
(* When the loop cannot crash *)

\* The kernel never answers EBUSY, or the requests that can be live at once
\* are one more at most than the completion ring has entries.
RoomForAll == ~RefuseWhenBacklogged \/ Cardinality(Requests) <= CQEntries + 1

\* Every submission is taken at once, so that the sqe is free for the next.
Unrefused == At("sq") = {} /\ phase # "crashed"

\* A submitted request is not in the completion queue, so all others fit.
LEMMA RoomLeft ==
    ASSUME RoomForAll, RingCore, NEW r \in Requests, where[r] # "cq"
    PROVE  ~Refused
<1> SUFFICES ASSUME Refused PROVE FALSE
  OBVIOUS
<1> DEFINE Others == Requests \ {r}
<1>1. /\ IsFiniteSet(Others) /\ Cardinality(Others) \in Nat
      /\ Cardinality(Others) = Cardinality(Requests) - 1
      /\ Cardinality(Requests) \in Nat
  BY RequestsAssumption, FS_RemoveElement, FS_CardinalityType
<1>2. /\ Cardinality(Requests) <= CQEntries + 1 /\ Len(cq) > CQEntries
      /\ Len(cq) \in Nat /\ cq \in [1..Len(cq) -> Requests]
  BY LenProperties DEF Refused, RoomForAll, RingCore
<1>3. ASSUME NEW i \in 1..Len(cq) PROVE cq[i] \in Others
  <2>1. cq[i] \in Range(cq)  BY <1>2, <1>3 DEF Range
  <2>2. where[cq[i]] = "cq"
    BY <2>1 DEF RingCore, CompletionQueueExact, At
  <2>3. QED  BY <1>2, <2>2
<1>4. cq \in [1..Len(cq) -> Others]  BY <1>2, <1>3
<1>5. IsFiniteSet(1..Len(cq)) /\ Cardinality(1..Len(cq)) = Len(cq)
  <2>1. Len(cq) \in Nat /\ Len(cq) >= 1  BY <1>2, CQEntriesAssumption
  <2>2. /\ IsFiniteSet(1..Len(cq))
        /\ Cardinality(1..Len(cq)) = Len(cq) - 1 + 1
    BY <2>1, FS_Interval
  <2>3. QED  BY <2>1, <2>2
<1>6. Cardinality(Others) < Cardinality(1..Len(cq))
  BY <1>1, <1>2, <1>5, CQEntriesAssumption
<1> HIDE DEF Others
<1>7. PICK i, j \in 1..Len(cq) : i # j /\ cq[i] = cq[j]
  BY <1>1, <1>4, <1>5, <1>6, FS_PigeonHole
<1>8. QED
  BY <1>2, <1>7 DEF RingCore, CompletionQueueExact, IsInjective

\* The only step that could leave something in the submission queue.
LEMMA SubmitTaken ==
    ASSUME RoomForAll, RingCore, Unrefused, NEW r \in Requests,
           where[r] # "cq", NEW k, NEW ph, ph # "crashed",
           SubmitRequest(r, k, ph)
    PROVE  Unrefused'
<1>1. ~Refused  BY RoomLeft
<1>2. phase' = ph /\ where' = [where EXCEPT ![r] = "kernel"]
  BY <1>1 DEF SubmitRequest, Unrefused
<1>3. At("sq")' = {}  BY <1>2 DEF Unrefused, At, RingCore
<1>4. QED  BY <1>2, <1>3 DEF Unrefused

LEMMA StepUnrefused ==
    ASSUME RoomForAll, IInv, Unrefused, [Next]_ringVars PROVE Unrefused'
<1>1. CASE \E r \in Requests, k \in IOKinds : Request(r, k)
  <2>1. PICK r \in Requests, k \in IOKinds : Request(r, k)  BY <1>1
  <2>2. where[r] # "cq" /\ SubmitRequest(r, k, "js")  BY <2>1 DEF Request
  <2>3. QED  BY <2>2, SubmitTaken DEF IInv, CoreInv
<1>2. CASE Rearm
  <2>1. PICK r \in Requests : r = cur /\ where[r] = "cb"
    BY <1>2 DEF Rearm, IInv, CoreInv, OneCallbackAtATime, At
  <2>2. SubmitRequest(r, kind[r], "drain")  BY <1>2, <2>1 DEF Rearm
  <2>3. QED  BY <2>1, <2>2, SubmitTaken DEF IInv, CoreInv
<1>3. CASE \E r \in Requests : Complete(r)
  BY <1>3 DEF Complete, Unrefused, At, IInv, CoreInv, RingCore
<1>4. CASE ThreadStep
  BY <1>4 DEF ThreadStep, LoopCheck, Wake, Interrupted, DrainDone, JSReturn,
              Terminate, Unrefused, At
<1>5. CASE Enter
  BY <1>5 DEF Enter, Unrefused, At
<1>6. CASE Reap
  <2>1. PICK ph \in {"js", "after"} : Deliver(ph)  BY <1>6 DEF Reap
  <2>2. phase' = ph /\ where' = [where EXCEPT ![Head(cq)] = "cb"]
    BY <2>1 DEF Deliver, CallBack
  <2>3. At("sq")' = {}
    BY <2>2 DEF Unrefused, At, IInv, CoreInv, RingCore
  <2>4. QED  BY <2>2, <2>3 DEF Unrefused
<1>7. CASE Release
  <2>1. phase' = "drain" /\ where' = [where EXCEPT ![cur] = "free"]
    BY <1>7 DEF Release, Free
  <2>2. At("sq")' = {}
    BY <2>1 DEF Unrefused, At, IInv, CoreInv, RingCore
  <2>3. QED  BY <2>1, <2>2 DEF Unrefused
<1>8. CASE UNCHANGED ringVars
  BY <1>8 DEF ringVars, Unrefused, At
<1>9. QED
  BY <1>1, <1>2, <1>3, <1>4, <1>5, <1>6, <1>7, <1>8, StepCases

\* SubmitRequest (io_uring.cc:6) never fills a NULL sqe if the kernel does not
\* refuse submissions, or if the requests alive at once are never more than
\* the entries of the completion ring and one; with one more it may.
THEOREM NoCrashWithRoom ==
    ASSUME RoomForAll PROVE Spec => []NeverCrashes
<1>1. RingInit => Unrefused  BY DEF RingInit, Unrefused, At
<1>2. IInv /\ Unrefused /\ [Next]_ringVars => Unrefused'
  BY StepUnrefused
<1>3. Unrefused => NeverCrashes  BY DEF Unrefused, NeverCrashes
<1>4. QED  BY <1>1, <1>2, <1>3, Invariance, PTL DEF Spec

-----------------------------------------------------------------------------
(* The event loop implements AsyncContract *)

CStep == [Contract!ContractNext]_(Contract!contractVars)

\* How the three parts of the mapping move with the places and the kinds.
LEMMA StOf ==
    ASSUME NEW r \in Requests
    PROVE  /\ ContractSt[r] = "idle" <=> where[r] = "free"
           /\ ContractSt[r] = "calling" <=> where[r] = "cb"
           /\ ContractSt[r] = "outstanding" <=> where[r] \notin {"free", "cb"}
BY DEF ContractSt

LEMMA CallingIsCb == Contract!Calling = At("cb")
BY StOf DEF Contract!Calling, At

\* The initial state maps to an initial state.
LEMMA InitContract == RingInit => Contract!ContractInit
<1> SUFFICES ASSUME RingInit PROVE Contract!ContractInit
  OBVIOUS
<1>1. ContractStatus = "main"  BY DEF RingInit, ContractStatus
<1>2. ContractSt = [r \in Requests |-> "idle"]  BY DEF RingInit, ContractSt
<1>3. ContractListener = {}  BY DEF RingInit, ContractListener, Listeners
<1>4. QED  BY <1>1, <1>2, <1>3 DEF Contract!ContractInit

\* A step between places that are all outstanding is no step of the contract.
LEMMA SameContract ==
    ASSUME IInv, kind' = kind,
           \A r \in Requests : /\ where[r] = "free" <=> where'[r] = "free"
                               /\ where[r] = "cb" <=> where'[r] = "cb"
    PROVE  ContractSt' = ContractSt /\ ContractListener' = ContractListener
BY DEF ContractSt, ContractListener

\* A crash is a break of the contract's process.
LEMMA CrashBreaks ==
    ASSUME IInv, Live, phase' = "crashed",
           UNCHANGED <<where, kind>>
    PROVE  CStep
<1>1. ContractStatus \in {"main", "loop"}  BY DEF ContractStatus, Live, Ended
<1>2. ContractStatus' = "broken"  BY DEF ContractStatus, Live, Ended
<1>3. ContractSt' = ContractSt /\ ContractListener' = ContractListener
  BY SameContract
<1>4. Contract!Break  BY <1>1, <1>2, <1>3 DEF Contract!Break
<1>5. QED  BY <1>4 DEF CStep, Contract!ContractNext

\* A request of JavaScript issues it, or crashes.
LEMMA RequestIssues ==
    ASSUME IInv, NEW r \in Requests, NEW k \in IOKinds, Request(r, k)
    PROVE  CStep
<1>1. /\ phase = "js" /\ where[r] = "free" /\ cur' = cur
      /\ SubmitRequest(r, k, "js")
  BY DEF Request
<1>2. CASE At("sq") # {}
  <2>1. phase' = "crashed" /\ UNCHANGED <<where, kind>>
    BY <1>1, <1>2 DEF SubmitRequest
  <2>2. Live  BY <1>1 DEF Live, Ended
  <2>3. QED  BY <2>1, <2>2, CrashBreaks
<1>3. CASE At("sq") = {}
  <2>1. PICK p \in {"sq", "kernel"} :
          /\ phase' = "js"
          /\ where' = [where EXCEPT ![r] = p]
          /\ kind' = [kind EXCEPT ![r] = k]
    BY <1>1, <1>3 DEF SubmitRequest
  <2>2. ContractStatus' = ContractStatus
    BY <1>1, <2>1 DEF ContractStatus, Live, Ended
  <2>3. ContractSt[r] = "idle"  BY <1>1, StOf
  <2>4. ContractSt' = [ContractSt EXCEPT ![r] = "outstanding"]
    BY <2>1 DEF ContractSt, IInv, CoreInv, RingCore
  <2>5. ContractListener' \in {ContractListener, ContractListener \cup {r}}
    <3>1. r \notin ContractListener
      BY <1>1 DEF ContractListener, Listeners, IInv, CoreInv, RingCore, FreeIsNothing
    <3>2. CASE k \in Listeners
      <4>1. ContractListener' = ContractListener \cup {r}
        BY <2>1, <3>2 DEF ContractListener, IInv, CoreInv, RingCore
      <4>2. QED  BY <4>1
    <3>3. CASE k \notin Listeners
      <4>1. ContractListener' = ContractListener
        BY <2>1, <3>1, <3>3 DEF ContractListener, IInv, CoreInv, RingCore
      <4>2. QED  BY <4>1
    <3>4. QED  BY <3>2, <3>3
  <2>6. \/ ContractStatus = "main"
        \/ ContractStatus = "loop" /\ Contract!Calling # {}
    <3>1. CASE cur = None  BY <1>1, <3>1 DEF ContractStatus
    <3>2. CASE cur # None
      <4>1. ContractStatus = "loop"
        BY <1>1, <3>2 DEF ContractStatus, Live, Ended
      <4>2. At("cb") # {}  BY <3>2 DEF IInv, CoreInv, OneCallbackAtATime
      <4>3. QED  BY <4>1, <4>2, CallingIsCb
    <3>3. QED  BY <3>1, <3>2
  <2>7. Contract!Issue(r)
    BY <2>2, <2>3, <2>4, <2>5, <2>6 DEF Contract!Issue
  <2>8. QED  BY <2>7 DEF CStep, Contract!ContractNext
<1>4. QED  BY <1>2, <1>3

\* A completion that is taken is a dispatch.
LEMMA ReapDispatches == ASSUME IInv, Reap PROVE CStep
<1>1. PICK ph \in {"js", "after"} : Deliver(ph)  BY DEF Reap
<1>2. /\ phase = "drain" /\ ready > 0 /\ phase' = ph /\ cur' = Head(cq)
      /\ kind' = kind /\ where' = [where EXCEPT ![Head(cq)] = "cb"]
  BY <1>1 DEF Deliver, CallBack
<1>3. PICK r \in Requests : r = Head(cq) /\ where[r] = "cq"
  BY <1>2, HeadIsPosted DEF IInv, CoreInv
<1>4. ContractStatus = "loop" /\ ContractStatus' = "loop"
  BY <1>2, <1>3, RequestsAssumption DEF ContractStatus, Live, Ended
<1>5. ContractSt[r] = "outstanding"  BY <1>3, StOf
<1>6. ContractSt' = [ContractSt EXCEPT ![r] = "calling"]
  BY <1>2, <1>3 DEF ContractSt, IInv, CoreInv, RingCore
<1>7. ContractListener' = ContractListener  BY <1>2 DEF ContractListener
<1>8. Contract!Calling = {}
  BY <1>2, CallingIsCb DEF IInv, CoreInv, OneCallbackAtATime
<1>9. Contract!Dispatch(r)
  BY <1>4, <1>5, <1>6, <1>7, <1>8 DEF Contract!Dispatch
<1>10. QED  BY <1>9 DEF CStep, Contract!ContractNext

\* The end of a listener's callback asks again, or crashes.
LEMMA RearmFinishes == ASSUME IInv, Rearm PROVE CStep
<1>1. /\ phase = "after" /\ kind[cur] \in Listeners
      /\ SubmitRequest(cur, kind[cur], "drain")
      /\ cur' = IF phase' = "drain" THEN None ELSE cur
  BY DEF Rearm
<1>2. PICK r \in Requests : r = cur /\ where[r] = "cb"
  BY <1>1 DEF IInv, CoreInv, OneCallbackAtATime, At
<1>3. CASE At("sq") # {}
  <2>1. phase' = "crashed" /\ UNCHANGED <<where, kind>>
    BY <1>1, <1>3 DEF SubmitRequest
  <2>2. Live  BY <1>1 DEF Live, Ended
  <2>3. QED  BY <2>1, <2>2, CrashBreaks
<1>4. CASE At("sq") = {}
  <2>1. PICK p \in {"sq", "kernel"} :
          /\ phase' = "drain"
          /\ where' = [where EXCEPT ![r] = p]
          /\ kind' = [kind EXCEPT ![r] = kind[r]]
    BY <1>1, <1>2, <1>4 DEF SubmitRequest
  <2>2. ContractStatus = "loop" /\ ContractStatus' = "loop"
    BY <1>1, <2>1 DEF ContractStatus, Live, Ended
  <2>3. ContractSt[r] = "calling"  BY <1>2, StOf
  <2>4. ContractSt' = [ContractSt EXCEPT ![r] = "outstanding"]
    BY <2>1 DEF ContractSt, IInv, CoreInv, RingCore
  <2>5. kind' = kind  BY <2>1 DEF IInv, CoreInv, RingCore
  <2>6. ContractListener' = ContractListener /\ r \in ContractListener
    BY <1>1, <1>2, <2>5 DEF ContractListener
  <2>7. Contract!Finish(r)
    BY <2>2, <2>3, <2>4, <2>6 DEF Contract!Finish
  <2>8. QED  BY <2>7 DEF CStep, Contract!ContractNext
<1>5. QED  BY <1>3, <1>4

\* The end of any other callback leaves its request idle.
LEMMA ReleaseFinishes == ASSUME IInv, Release PROVE CStep
<1>1. /\ phase = "after" /\ kind[cur] \notin Listeners /\ phase' = "drain"
      /\ where' = [where EXCEPT ![cur] = "free"]
      /\ kind' = [kind EXCEPT ![cur] = "none"]
  BY DEF Release, Free
<1>2. PICK r \in Requests : r = cur /\ where[r] = "cb"
  BY <1>1 DEF IInv, CoreInv, OneCallbackAtATime, At
<1>3. ContractStatus = "loop" /\ ContractStatus' = "loop"
  BY <1>1 DEF ContractStatus, Live, Ended
<1>4. ContractSt[r] = "calling"  BY <1>2, StOf
<1>5. ContractSt' = [ContractSt EXCEPT ![r] = "idle"]
  BY <1>1, <1>2 DEF ContractSt, IInv, CoreInv, RingCore
<1>6. ContractListener' = ContractListener /\ r \notin ContractListener
  BY <1>1, <1>2 DEF ContractListener, Listeners, IInv, CoreInv, RingCore
<1>7. Contract!Finish(r)
  BY <1>3, <1>4, <1>5, <1>6 DEF Contract!Finish
<1>8. QED  BY <1>7 DEF CStep, Contract!ContractNext

\* The steps of the kernel, and the loop's into the kernel, do not show.
LEMMA HiddenSteps ==
    ASSUME IInv, Enter \/ \E r \in Requests : Complete(r)
    PROVE  CStep
<1>1. /\ Live /\ Live' /\ kind' = kind /\ cur' = cur
      /\ phase = "js" <=> phase' = "js"
  BY DEF Enter, Complete, Live, Ended
<1>2. ContractStatus' = ContractStatus  BY <1>1 DEF ContractStatus, Live, Ended
<1>3. \A r \in Requests : /\ where[r] = "free" <=> where'[r] = "free"
                          /\ where[r] = "cb" <=> where'[r] = "cb"
  BY DEF Enter, Complete, IInv, CoreInv, RingCore
<1>4. ContractSt' = ContractSt /\ ContractListener' = ContractListener
  BY <1>1, <1>3, SameContract
<1>5. QED  BY <1>2, <1>4 DEF CStep, Contract!contractVars

\* The thread's own steps: into the loop, out of it, or nothing.
LEMMA ThreadStepMaps == ASSUME IInv, ThreadStep PROVE CStep
<1>1. UNCHANGED <<cur, pending, where, kind, cq, ready>>
  BY DEF ThreadStep, LoopCheck, Wake, Interrupted, DrainDone, JSReturn, Terminate
<1>2. ContractSt' = ContractSt /\ ContractListener' = ContractListener
  BY <1>1, SameContract
<1>3. CASE LoopCheck
  <2>1. CASE pending # 0
    <3>1. phase = "check" /\ phase' = "enter"  BY <1>3, <2>1 DEF LoopCheck
    <3>2. ContractStatus' = ContractStatus
      BY <3>1 DEF ContractStatus, Live, Ended
    <3>3. QED  BY <1>2, <3>2 DEF CStep, Contract!contractVars
  <2>2. CASE pending = 0
    <3>1. phase = "check" /\ phase' = "exited"  BY <1>3, <2>2 DEF LoopCheck
    <3>2. ContractStatus = "loop" /\ ContractStatus' = "done"
      BY <3>1 DEF ContractStatus, Live, Ended
    <3>3. OutstandingIn(where) = {} /\ At("cb") = {}
      BY <2>2, <3>1, ZeroMeansNone DEF IInv, CoreInv, OneCallbackAtATime
    <3>4. \A r \in Requests : where[r] = "free"
      BY <3>3 DEF OutstandingIn, Away, At, IInv, CoreInv, RingCore, Places
    <3>5. Contract!Exit
      BY <1>2, <3>2, <3>4, StOf DEF Contract!Exit
    <3>6. QED  BY <3>5 DEF CStep, Contract!ContractNext
  <2>3. QED  BY <2>1, <2>2
<1>4. CASE JSReturn
  <2>1. CASE cur = None
    <3>1. ContractStatus = "main" /\ ContractStatus' = "loop"
      BY <1>1, <1>4, <2>1 DEF JSReturn, ContractStatus, Live, Ended
    <3>2. Contract!EnterLoop  BY <1>2, <3>1 DEF Contract!EnterLoop
    <3>3. QED  BY <3>2 DEF CStep, Contract!ContractNext
  <2>2. CASE cur # None
    <3>1. ContractStatus' = ContractStatus
      BY <1>1, <1>4, <2>2 DEF JSReturn, ContractStatus, Live, Ended
    <3>2. QED  BY <1>2, <3>1 DEF CStep, Contract!contractVars
  <2>3. QED  BY <2>1, <2>2
<1>5. CASE Terminate
  <2>1. ContractStatus \in {"main", "loop"} /\ ContractStatus' = "broken"
    BY <1>5 DEF Terminate, ContractStatus, Live, Ended
  <2>2. Contract!Break  BY <1>2, <2>1 DEF Contract!Break
  <2>3. QED  BY <2>2 DEF CStep, Contract!ContractNext
<1>6. CASE Wake \/ Interrupted \/ DrainDone
  <2>1. phase \in {"wait", "drain"} /\ phase' \in {"drain", "check"}
    BY <1>6 DEF Wake, Interrupted, DrainDone
  <2>2. ContractStatus' = ContractStatus
    BY <2>1 DEF ContractStatus, Live, Ended
  <2>3. QED  BY <1>2, <2>2 DEF CStep, Contract!contractVars
<1>7. QED  BY <1>3, <1>4, <1>5, <1>6 DEF ThreadStep

\* Every step maps to a step of the contract or to a stutter.
LEMMA StepContract == IInv /\ [Next]_ringVars => CStep
<1> SUFFICES ASSUME IInv, [Next]_ringVars PROVE CStep
  OBVIOUS
<1>1. CASE \E r \in Requests, k \in IOKinds : Request(r, k)
  BY <1>1, RequestIssues
<1>2. CASE Enter \/ \E r \in Requests : Complete(r)  BY <1>2, HiddenSteps
<1>3. CASE ThreadStep  BY <1>3, ThreadStepMaps
<1>4. CASE Reap  BY <1>4, ReapDispatches
<1>5. CASE Rearm  BY <1>5, RearmFinishes
<1>6. CASE Release  BY <1>6, ReleaseFinishes
<1>7. CASE UNCHANGED ringVars
  BY <1>7 DEF CStep, Contract!contractVars, ringVars, ContractStatus, ContractSt,
              ContractListener, Live
<1>8. QED  BY <1>1, <1>2, <1>3, <1>4, <1>5, <1>6, <1>7, StepCases

\* The event loop on its ring gives every JavaScript program the contract of
\* AsyncContract.
THEOREM Refinement == Spec => ImplementsContract
<1>1. RingInit => Contract!ContractInit  BY InitContract
<1>2. IInv /\ [Next]_ringVars => [Contract!ContractNext]_(Contract!contractVars)
  BY StepContract DEF CStep
<1>3. QED
  BY <1>1, <1>2, Invariance, PTL
     DEF Spec, ImplementsContract, Contract!ContractSpec
=============================================================================
