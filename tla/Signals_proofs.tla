--------------------------- MODULE Signals_proofs ----------------------------
(***************************************************************************)
(* The event loop under signals, for any pool of requests, any signals and *)
(* contexts, any size of the ring, both kernels and any depth of nested    *)
(* handlers.  SigInv is inductive: a request with an sqe and without a     *)
(* count has exactly one holder, the thread or one handler, so that the    *)
(* books of `pending` balance through every interruption.  OwedInv follows *)
(* each delivery to its listener: what a context is owed is a request on   *)
(* its way or one that a running handler has still to make.                *)
(***************************************************************************)
EXTENDS Signals, Ring_proofs

\* One request is in its callback, the current one, unless the thread has
\* just begun to submit it again.
CallbackInv ==
    /\ At("cb") = IF phase = "submit" /\ submitting.next = "drain"
                  THEN {} ELSE {cur} \ {None}
    /\ phase \in {"check", "enter", "wait", "drain", "uncount", "exited"} =>
         cur = None
    /\ phase = "after" => cur # None

\* The sqe that is taken and not counted has one holder.
SqeInv ==
    /\ submitting.req # None <=> phase = "submit"
    /\ submitting.req # None => where[submitting.req] = "sq"
    /\ \A i \in DOMAIN handlers : handlers[i].req # None =>
         /\ phase # "submit"
         /\ where[handlers[i].req] = "sq"
         /\ \A j \in DOMAIN handlers : handlers[j].req # None => i = j
    /\ phase \in {"wait", "exited", "terminated"} => handlers = <<>>

CountInv == Balance + lost + Cardinality(Uncounted) = 0

\* What --pending has loaded, while handlers go on counting.
LoadInv == phase = "uncount" => loaded <= pending /\ ready > 0

LoopInv ==
    /\ lost = 0 /\ phase = "enter" => pending > 0
    /\ phase = "wait" => At("sq") = {} /\ (cq # <<>> => ready > 0)
    /\ lost = 0 /\ phase = "wait" => Outstanding # {}
    /\ lost = 0 /\ phase = "exited" => Outstanding = {}

SignalTypes ==
    /\ cur \in Requests \cup {None}
    /\ phase \in Phases \cup {"submit", "uncount"}
    /\ signalMap \in [SignalNumbers -> Seq(Contexts)]
    /\ handlers \in Seq(HandlerFrames)
    /\ submitting \in [req : Requests \cup {None}, next : {"js", "drain"}]
    /\ loaded \in Int /\ lost \in Nat
    /\ ctxOf \in [Requests -> Contexts \cup {None}]
    /\ stale \subseteq Requests
    /\ owed \in [Contexts -> Int]

SigInv ==
    /\ RingCore
    /\ SignalTypes
    /\ phase # "crashed" =>
         CallbackInv /\ SqeInv /\ CountInv /\ LoadInv /\ LoopInv
-----------------------------------------------------------------------------
(* What the halves of the steps of the ring do to the books *)

LEMMA SignalKinds ==
    /\ Listeners \subseteq IOKinds /\ IOKinds \subseteq Kinds \ {"none"}
    /\ "signal" \in Kinds \ {"none"}
    /\ Operations \subseteq IOKinds /\ "signal" \notin IOKinds
BY OperationsAssumption DEF Listeners, IOKinds, Kinds

\* An sqe that is taken makes its request outstanding, before it is counted.
LEMMA TakeKeeps ==
    ASSUME RingCore, NEW r \in Requests, where[r] \notin Away,
           NEW k \in Kinds \ {"none"}, At("sq") = {}, TakeSqe(r, k),
           UNCHANGED <<pending, cq, ready>>
    PROVE  /\ RingCore' /\ Balance' = Balance - 1
           /\ where' = [where EXCEPT ![r] = "sq"] /\ where'[r] = "sq"
<1>1. /\ where' = [where EXCEPT ![r] = "sq"] /\ kind' = [kind EXCEPT ![r] = k]
      /\ pending' = pending /\ cq' = cq /\ ready' = ready
  BY DEF TakeSqe
<1>2. /\ where' \in [Requests -> Places] /\ kind' \in [Requests -> Kinds]
      /\ where'[r] = "sq"
  BY <1>1 DEF RingCore, Places
<1>3. At("cq")' = At("cq")
  BY <1>1 DEF At, RingCore, Away
<1>4. CompletionQueueExact'
  BY <1>1, <1>3 DEF CompletionQueueExact, RingCore
<1>5. FreeIsNothing'
  BY <1>1 DEF FreeIsNothing, RingCore
<1>6. Cardinality(OutstandingIn(where')) = Cardinality(OutstandingIn(where)) + 1
  BY <1>1, OneMoreOutstanding DEF RingCore, Away
<1>7. Balance' = Balance - 1
  BY <1>1, <1>6, BalanceIs, OutstandingFinite DEF RingCore
<1>8. QED  BY <1>1, <1>2, <1>4, <1>5, <1>7 DEF RingCore

\* Counting it, the kernel may take it; nothing in the ring is hidden.
LEMMA CountKeeps ==
    ASSUME RingCore, NEW r \in Requests, where[r] = "sq", CountAndEnter(r),
           UNCHANGED <<kind, cq>>
    PROVE  /\ RingCore' /\ Balance' = Balance + 1 /\ pending' = pending + 1
           /\ ready > 0 => ready' > 0
           /\ At("cb")' = At("cb")
<1> DEFINE p == IF Refused THEN "sq" ELSE "kernel"
<1>1. /\ pending' = pending + 1 /\ where' = [where EXCEPT ![r] = p]
      /\ ready' = IF RefuseWhenBacklogged THEN Flushed ELSE ready
      /\ kind' = kind /\ cq' = cq
  BY DEF CountAndEnter
<1>2. p \in {"sq", "kernel"}  OBVIOUS
<1> HIDE DEF p
<1>3. where' \in [Requests -> Places]
  BY <1>1, <1>2 DEF RingCore, Places
<1>4. /\ At("cq")' = At("cq") /\ At("cb")' = At("cb")
      /\ OutstandingIn(where') = OutstandingIn(where)
  BY <1>1, <1>2 DEF At, RingCore, OutstandingIn, Away
<1>5. CompletionQueueExact'
  BY <1>1, <1>4 DEF CompletionQueueExact, RingCore
<1>6. FreeIsNothing'
  BY <1>1, <1>2 DEF FreeIsNothing, RingCore
<1>7. /\ ready' \in 0..CQEntries /\ ready' <= Len(cq')
      /\ ready > 0 => ready' > 0
  <2>1. Len(cq) \in Nat /\ ready <= Len(cq) /\ ready \in 0..CQEntries
    BY LenProperties DEF RingCore
  <2>2. QED  BY <1>1, <2>1, CQEntriesAssumption DEF Flushed, Smaller
<1>8. Balance' = Balance + 1
  BY <1>1, <1>4, BalanceIs, OutstandingFinite DEF RingCore
<1>9. pending' \in Int  BY <1>1 DEF RingCore
<1>10. QED
  BY <1>1, <1>3, <1>4, <1>5, <1>6, <1>7, <1>8, <1>9 DEF RingCore

-----------------------------------------------------------------------------
(* The requests that are not counted *)

\* Nobody holds one.
LEMMA NoneUncounted ==
    ASSUME submitting.req = None,
           \A i \in DOMAIN handlers : handlers[i].req = None
    PROVE  Uncounted = {} /\ Cardinality(Uncounted) = 0
<1>1. Uncounted = {}  BY DEF Uncounted
<1>2. QED  BY <1>1, FS_EmptySet

\* The thread holds one.
LEMMA ThreadUncounted ==
    ASSUME submitting.req # None,
           \A i \in DOMAIN handlers : handlers[i].req = None
    PROVE  Cardinality(Uncounted) = 1
<1>1. Uncounted = {submitting.req}  BY DEF Uncounted
<1>2. QED  BY <1>1, FS_Singleton

\* One handler holds one.
LEMMA HandlerUncounted ==
    ASSUME submitting.req = None, NEW i \in DOMAIN handlers,
           handlers[i].req # None,
           \A j \in DOMAIN handlers : handlers[j].req # None => i = j
    PROVE  Cardinality(Uncounted) = 1
<1>1. Uncounted = {handlers[i].req}  BY DEF Uncounted
<1>2. QED  BY <1>1, FS_Singleton

\* The frames of the handlers.
LEMMA FrameTypes ==
    ASSUME SignalTypes
    PROVE  /\ DOMAIN handlers = 1..Len(handlers) /\ Len(handlers) \in Nat
           /\ \A i \in DOMAIN handlers : handlers[i] \in HandlerFrames
<1>1. handlers \in Seq(HandlerFrames)  BY DEF SignalTypes
<1>2. DOMAIN handlers = 1..Len(handlers) /\ Len(handlers) \in Nat
  BY <1>1, LenProperties
<1>3. \A i \in 1..Len(handlers) : handlers[i] \in HandlerFrames
  BY <1>1, ElementOfSeq
<1>4. QED  BY <1>2, <1>3

\* The innermost handler goes on; the others stand still.
LEMMA TopGoesOn ==
    ASSUME SignalTypes, handlers # <<>>, NEW h \in HandlerFrames,
           handlers' = [handlers EXCEPT ![Len(handlers)] = h]
    PROVE  /\ handlers' \in Seq(HandlerFrames)
           /\ DOMAIN handlers' = DOMAIN handlers
           /\ Len(handlers) \in DOMAIN handlers
           /\ handlers'[Len(handlers)] = h
           /\ \A i \in DOMAIN handlers :
                i # Len(handlers) => handlers'[i] = handlers[i]
<1>1. handlers \in Seq(HandlerFrames)  BY DEF SignalTypes
<1>2. /\ DOMAIN handlers = 1..Len(handlers) /\ Len(handlers) \in Nat
      /\ Len(handlers) # 0
  BY <1>1, LenProperties, EmptySeq
<1>3. Len(handlers) \in 1..Len(handlers)  BY <1>2
<1>4. handlers' \in Seq(HandlerFrames)
  BY <1>1, <1>3, ExceptSeq
<1>5. QED  BY <1>2, <1>3, <1>4

\* No more than one request is uncounted, and none while the queue is empty.
LEMMA UncountedBound ==
    ASSUME SqeInv, SignalTypes
    PROVE  /\ Uncounted \subseteq At("sq")
           /\ Cardinality(Uncounted) \in {0, 1}
           /\ At("sq") = {} =>
                /\ submitting.req = None
                /\ \A i \in DOMAIN handlers : handlers[i].req = None
                /\ Cardinality(Uncounted) = 0
<1>1. \A i \in DOMAIN handlers : handlers[i].req \in Requests \cup {None}
  BY FrameTypes DEF HandlerFrames
<1>2. Uncounted \subseteq At("sq")
  BY <1>1 DEF Uncounted, At, SqeInv, SignalTypes
<1>3. CASE submitting.req # None
  <2>1. \A i \in DOMAIN handlers : handlers[i].req = None
    BY <1>3 DEF SqeInv
  <2>2. QED
    BY <1>2, <1>3, <2>1, ThreadUncounted DEF Uncounted
<1>4. CASE submitting.req = None /\ \E i \in DOMAIN handlers : handlers[i].req # None
  <2>1. PICK i \in DOMAIN handlers : handlers[i].req # None
    BY <1>4
  <2>2. \A j \in DOMAIN handlers : handlers[j].req # None => i = j
    BY <2>1 DEF SqeInv
  <2>3. QED
    BY <1>2, <1>4, <2>1, <2>2, HandlerUncounted DEF Uncounted
<1>5. CASE submitting.req = None /\ \A i \in DOMAIN handlers : handlers[i].req = None
  BY <1>2, <1>5, NoneUncounted
<1>6. QED  BY <1>3, <1>4, <1>5

-----------------------------------------------------------------------------
(* The steps *)

\* The books are kept in integers.
LEMMA BooksAreIntegers ==
    RingCore => Balance \in Int /\ Cardinality(Outstanding) \in Nat
                /\ pending = Balance + Cardinality(Outstanding)
<1>1. Outstanding = OutstandingIn(where)
  BY DEF Outstanding, OutstandingIn, Away
<1>2. Cardinality(Outstanding) \in Nat
  BY <1>1, OutstandingFinite
<1>3. Balance = pending - Cardinality(Outstanding)
  BY DEF Balance
<1>4. QED  BY <1>2, <1>3 DEF RingCore

\* Nothing is outstanding exactly when the number is zero.
LEMMA OutstandingZero == Outstanding = {} <=> Cardinality(Outstanding) = 0
<1>1. Outstanding = OutstandingIn(where)
  BY DEF Outstanding, OutstandingIn, Away
<1>2. QED  BY <1>1, OutstandingFinite, FS_EmptySet

LEMMA InitSig == SignalsInit => SigInv
<1> SUFFICES ASSUME SignalsInit PROVE SigInv  OBVIOUS
<1>1. RingCore /\ Balance = 0  BY RingInitCore DEF SignalsInit
<1>2. /\ phase = "js" /\ cur = None /\ where = [r \in Requests |-> "free"]
      /\ signalMap = [s \in SignalNumbers |-> <<>>]
      /\ handlers = <<>> /\ submitting = [req |-> None, next |-> "js"]
      /\ loaded = 0 /\ lost = 0 /\ stale = {}
      /\ ctxOf = [r \in Requests |-> None] /\ owed = [c \in Contexts |-> 0]
  BY DEF SignalsInit, RingInit, NotSubmitting
<1>3. SignalTypes
  BY <1>2 DEF SignalTypes, Phases
<1>4. CallbackInv /\ SqeInv /\ LoadInv /\ LoopInv
  BY <1>2 DEF CallbackInv, SqeInv, LoadInv, LoopInv, At
<1>5. CountInv
  <2>1. Cardinality(Uncounted) = 0  BY <1>2, NoneUncounted
  <2>2. QED  BY <1>1, <1>2, <2>1 DEF CountInv
<1>6. QED  BY <1>1, <1>3, <1>4, <1>5 DEF SigInv

\* Steps of the thread between phases, which move nothing.
LEMMA PhaseStepSig ==
    ASSUME SigInv, handlers = <<>>,
           LoopCheck \/ Wake \/ DrainDone \/ JSReturn \/ Terminate
             \/ Interrupted,
           UNCHANGED signalVars
    PROVE  SigInv'
<1>1. /\ UNCHANGED <<cur, pending, where, kind, cq, ready>>
      /\ UNCHANGED <<signalMap, handlers, submitting, loaded, ctxOf, stale,
                     owed, lost>>
  BY DEF LoopCheck, Wake, DrainDone, JSReturn, Terminate, Interrupted,
         signalVars
<1>2. RingCore' /\ Balance' = Balance
  BY <1>1, ThreadStepKeeps DEF SigInv
<1>3. phase \in {"js", "check", "wait", "drain"} /\ phase # "crashed"
  BY DEF LoopCheck, Wake, DrainDone, JSReturn, Terminate, Interrupted
<1>4. CallbackInv /\ SqeInv /\ CountInv /\ LoadInv /\ LoopInv /\ SignalTypes
  BY <1>3 DEF SigInv
<1>5. submitting.req = None
  BY <1>3, <1>4 DEF SqeInv
<1>6. /\ phase' \in {"check", "enter", "exited", "after", "drain", "terminated"}
      /\ phase = "wait" => phase' = "drain"
      /\ phase' = "after" => cur # None
      /\ phase = "js" /\ phase' # "terminated" =>
           phase' = IF cur = None THEN "check" ELSE "after"
      /\ phase = "drain" => phase' = "check"
      /\ phase = "check" => phase' = IF pending # 0 THEN "enter" ELSE "exited"
  BY DEF LoopCheck, Wake, DrainDone, JSReturn, Terminate, Interrupted
<1>7. SignalTypes'
  BY <1>1, <1>4, <1>6 DEF SignalTypes, Phases, Ended
<1>8. CallbackInv'
  BY <1>1, <1>3, <1>4, <1>6 DEF CallbackInv, At
<1>9. SqeInv'
  BY <1>1, <1>3, <1>4, <1>5, <1>6 DEF SqeInv
<1>10. CountInv'
  BY <1>1, <1>2, <1>4 DEF CountInv, Uncounted
<1>11. LoadInv'
  BY <1>6 DEF LoadInv
<1>12. LoopInv'
  <2>1. Cardinality(Uncounted) = 0
    BY <1>5, NoneUncounted
  <2>2. Outstanding' = Outstanding
    BY <1>1 DEF Outstanding
  <2>3. lost = 0 => pending = Cardinality(Outstanding)
                    /\ Cardinality(Outstanding) \in Nat
    BY <1>4, <2>1, BooksAreIntegers DEF CountInv, SigInv
  <2>4. phase' \in {"enter", "exited"} => phase = "check"
    BY <1>3, <1>6
  <2>5. lost' = 0 /\ phase' = "enter" => pending' > 0
    BY <1>1, <1>6, <2>3, <2>4
  <2>6. lost' = 0 /\ phase' = "exited" => Outstanding' = {}
    BY <1>1, <1>6, <2>2, <2>3, <2>4, OutstandingZero
  <2>7. phase' # "wait"  BY <1>6
  <2>8. QED  BY <2>5, <2>6, <2>7 DEF LoopInv
<1>13. QED
  BY <1>2, <1>7, <1>8, <1>9, <1>10, <1>11, <1>12 DEF SigInv

\* The thread enters the kernel to wait.
LEMMA EnterSig ==
    ASSUME SigInv, handlers = <<>>, Enter, UNCHANGED signalVars
    PROVE  SigInv'
<1>1. /\ phase = "enter" /\ phase' \in {"wait", "drain"}
      /\ UNCHANGED <<cur, pending, kind, cq>> /\ ready' = Flushed
      /\ UNCHANGED <<signalMap, handlers, submitting, loaded, ctxOf, stale,
                     owed, lost>>
  BY DEF Enter, signalVars
<1>2. RingCore' /\ Balance' = Balance /\ RingCore
  BY EnterKeeps DEF SigInv
<1>3. CallbackInv /\ SqeInv /\ CountInv /\ LoopInv /\ SignalTypes
  BY <1>1 DEF SigInv
<1>4. submitting.req = None
  BY <1>1, <1>3 DEF SqeInv
<1>5. /\ At("cb")' = At("cb") /\ Outstanding' = Outstanding
      /\ phase' = "wait" => At("sq")' = {}
  BY <1>2 DEF Enter, At, Outstanding, RingCore
<1>6. SignalTypes'
  BY <1>1, <1>3 DEF SignalTypes, Phases
<1>7. CallbackInv'
  BY <1>1, <1>3, <1>5 DEF CallbackInv
<1>8. SqeInv'
  BY <1>1, <1>3, <1>4 DEF SqeInv
<1>9. CountInv'
  BY <1>1, <1>2, <1>3 DEF CountInv, Uncounted
<1>10. LoadInv'  BY <1>1 DEF LoadInv
<1>11. LoopInv'
  <2>1. Cardinality(Uncounted) = 0
    BY <1>4, NoneUncounted
  <2>2. lost = 0 => Cardinality(Outstanding) > 0
    BY <1>1, <1>2, <1>3, <2>1, BooksAreIntegers DEF CountInv, LoopInv
  <2>3. lost = 0 => Outstanding' # {}
    BY <1>5, <2>2, OutstandingZero
  <2>4. cq # <<>> => Flushed > 0
    <3>1. Len(cq) \in Nat /\ (cq # <<>> => Len(cq) # 0)
      BY <1>2, LenProperties, EmptySeq DEF RingCore
    <3>2. QED  BY <3>1, CQEntriesAssumption DEF Flushed, Smaller
  <2>5. QED  BY <1>1, <1>5, <2>3, <2>4 DEF LoopInv
<1>12. QED
  BY <1>2, <1>6, <1>7, <1>8, <1>9, <1>10, <1>11 DEF SigInv

\* A callback frees its request.
LEMMA FreeSig ==
    ASSUME SigInv, handlers = <<>>, phase = "after", Free,
           UNCHANGED <<pending, cq, ready, signalMap, handlers, submitting,
                       loaded, owed, lost>>,
           ctxOf' \in [Requests -> Contexts \cup {None}],
           stale' \subseteq Requests
    PROVE  SigInv'
<1>1. /\ phase' = "drain" /\ cur' = None
      /\ where' = [where EXCEPT ![cur] = "free"]
  BY DEF Free
<1>2. RingCore /\ SignalTypes /\ CallbackInv /\ SqeInv /\ CountInv
  BY DEF SigInv
<1>3. cur \in Requests /\ At("cb") = {cur} /\ where[cur] = "cb"
  BY <1>2 DEF CallbackInv, SignalTypes, At
<1>4. RingCore' /\ OutstandingIn(where') = OutstandingIn(where)
  BY <1>2, <1>3, FreeKeeps DEF RingCore
<1>5. Balance' = Balance
  BY <1>4, BalanceIs
<1>6. submitting.req = None
  BY <1>2 DEF SqeInv
<1>7. At("cb")' = {}
  BY <1>1, <1>2, <1>3 DEF At, RingCore
<1>8. SignalTypes'
  BY <1>1, <1>2 DEF SignalTypes, Phases
<1>9. CallbackInv'
  BY <1>1, <1>7 DEF CallbackInv
<1>10. SqeInv'
  BY <1>1, <1>6 DEF SqeInv
<1>11. CountInv'
  BY <1>2, <1>5 DEF CountInv, Uncounted
<1>12. LoadInv' /\ LoopInv'
  BY <1>1 DEF LoadInv, LoopInv
<1>13. QED
  BY <1>4, <1>8, <1>9, <1>10, <1>11, <1>12 DEF SigInv

\* The thread takes an sqe, in JavaScript or for its listener again, or
\* crashes.
LEMMA BeginSubmitSig ==
    ASSUME SigInv, handlers = <<>>, NEW r \in Requests, NEW ph,
           NEW k \in Kinds \ {"none"}, BeginSubmit(r, k, ph),
           \/ phase = "js" /\ where[r] = "free" /\ ph = "js"
           \/ phase = "after" /\ r = cur /\ ph = "drain"
    PROVE  SigInv'
<1>1. /\ UNCHANGED <<cur, pending, cq, ready, signalMap, handlers, loaded,
                     ctxOf, stale, owed, lost>>
      /\ TakeSqe(r, k)
  BY DEF BeginSubmit
<1>2. RingCore /\ SignalTypes /\ CallbackInv /\ SqeInv /\ CountInv
  BY DEF SigInv
<1>3. CASE At("sq") # {}
  <2>1. phase' = "crashed" /\ UNCHANGED <<where, kind, submitting>>
    BY <1>1, <1>3 DEF TakeSqe, BeginSubmit
  <2>2. RingCore'
    BY <1>1, <1>2, <2>1, ThreadStepKeeps
  <2>3. SignalTypes'
    BY <1>1, <1>2, <2>1 DEF SignalTypes, Phases, Ended
  <2>4. QED  BY <2>1, <2>2, <2>3 DEF SigInv
<1>4. CASE At("sq") = {}
  <2>1. phase' = "submit" /\ submitting' = [req |-> r, next |-> ph]
    BY <1>1, <1>4 DEF BeginSubmit
  <2>2. ph \in {"js", "drain"} /\ submitting.req = None
        /\ (phase = "after" => cur # None) /\ At("cb") = {cur} \ {None}
    BY <1>2 DEF SqeInv, CallbackInv
  <2>3. where[r] \notin Away
    BY <1>2, <2>2 DEF Away, At
  <2>4. /\ RingCore' /\ Balance' = Balance - 1
        /\ where' = [where EXCEPT ![r] = "sq"] /\ where'[r] = "sq"
    BY <1>1, <1>2, <1>4, <2>3, TakeKeeps
  <2>5. SignalTypes'
    BY <1>1, <1>2, <2>1, <2>2 DEF SignalTypes
  <2>6. At("cb")' = At("cb") \ {r}
    BY <1>2, <2>4 DEF At, RingCore
  <2>7. CallbackInv'
    <3>1. CASE phase = "js" /\ where[r] = "free" /\ ph = "js"
      <4>1. r \notin At("cb")  BY <3>1 DEF At
      <4>2. QED
        BY <1>1, <2>1, <2>2, <2>6, <3>1, <4>1 DEF CallbackInv
    <3>2. CASE phase = "after" /\ r = cur /\ ph = "drain"
      BY <1>1, <2>1, <2>2, <2>6, <3>2 DEF CallbackInv
    <3>3. QED  BY <3>1, <3>2
  <2>8. r # None  BY RequestsAssumption
  <2>9. SqeInv'
    BY <1>1, <2>1, <2>4, <2>8 DEF SqeInv
  <2>10. CountInv'
    <3>1. Cardinality(Uncounted) = 0
      BY <2>2, NoneUncounted
    <3>2. Cardinality(Uncounted') = 1
      <4>1. Uncounted' = {r}
        BY <1>1, <2>1, <2>8 DEF Uncounted
      <4>2. QED  BY <4>1, FS_Singleton
    <3>3. Balance \in Int /\ lost \in Nat
      BY <1>2, BooksAreIntegers DEF SignalTypes
    <3>4. lost' = lost  BY <1>1
    <3>5. QED  BY <1>2, <2>4, <3>1, <3>2, <3>3, <3>4 DEF CountInv
  <2>11. LoadInv' /\ LoopInv'
    BY <2>1 DEF LoadInv, LoopInv
  <2>12. QED
    BY <2>4, <2>5, <2>7, <2>9, <2>10, <2>11 DEF SigInv
<1>5. QED  BY <1>3, <1>4

\* The thread counts its request and enters the kernel.
LEMMA EndSubmitSig ==
    ASSUME SigInv, handlers = <<>>, EndSubmit
    PROVE  SigInv'
<1>1. /\ phase = "submit" /\ CountAndEnter(submitting.req)
      /\ phase' = submitting.next
      /\ cur' = IF phase' = "drain" THEN None ELSE cur
      /\ submitting' = [req |-> None, next |-> "js"]
      /\ UNCHANGED <<kind, cq, signalMap, handlers, loaded, ctxOf, stale,
                     owed, lost>>
  BY DEF EndSubmit, NotSubmitting
<1>2. RingCore /\ SignalTypes /\ CallbackInv /\ SqeInv /\ CountInv
  BY <1>1 DEF SigInv
<1>3. /\ submitting.req \in Requests /\ where[submitting.req] = "sq"
      /\ submitting.req # None /\ submitting.next \in {"js", "drain"}
  BY <1>1, <1>2 DEF SqeInv, SignalTypes
<1>4. /\ RingCore' /\ Balance' = Balance + 1 /\ At("cb")' = At("cb")
  BY <1>1, <1>2, <1>3, CountKeeps
<1>5. SignalTypes'
  BY <1>1, <1>2, <1>3 DEF SignalTypes, Phases
<1>6. CallbackInv'
  BY <1>1, <1>2, <1>3, <1>4 DEF CallbackInv
<1>7. SqeInv'
  BY <1>1, <1>3 DEF SqeInv
<1>8. CountInv'
  <2>1. Cardinality(Uncounted) = 1
    BY <1>3, ThreadUncounted
  <2>2. Cardinality(Uncounted') = 0
    <3>1. Uncounted' = {}  BY <1>1 DEF Uncounted
    <3>2. QED  BY <3>1, FS_EmptySet
  <2>3. Balance \in Int /\ lost \in Nat /\ lost' = lost
    BY <1>1, <1>2, BooksAreIntegers DEF SignalTypes
  <2>4. QED  BY <1>2, <1>4, <2>1, <2>2, <2>3 DEF CountInv
<1>9. LoadInv' /\ LoopInv'
  BY <1>1, <1>3 DEF LoadInv, LoopInv
<1>10. QED
  BY <1>4, <1>5, <1>6, <1>7, <1>8, <1>9 DEF SigInv

\* The load of --pending.
LEMMA LoadSig ==
    ASSUME SigInv, handlers = <<>>, LoadPending
    PROVE  SigInv'
<1>1. /\ phase = "drain" /\ ready > 0 /\ phase' = "uncount"
      /\ loaded' = pending
      /\ UNCHANGED <<cur, pending, where, kind, cq, ready>>
      /\ UNCHANGED <<signalMap, handlers, submitting, ctxOf, stale, owed, lost>>
  BY DEF LoadPending
<1>2. RingCore /\ SignalTypes /\ CallbackInv /\ SqeInv /\ CountInv
  BY <1>1 DEF SigInv
<1>3. RingCore' /\ Balance' = Balance
  BY <1>1, <1>2, ThreadStepKeeps
<1>4. SignalTypes'
  BY <1>1, <1>2 DEF SignalTypes, RingCore
<1>5. CallbackInv'
  BY <1>1, <1>2 DEF CallbackInv, At
<1>6. SqeInv'
  BY <1>1, <1>2 DEF SqeInv
<1>7. CountInv'
  BY <1>1, <1>2, <1>3 DEF CountInv, Uncounted
<1>8. LoadInv' /\ LoopInv'
  BY <1>1, <1>2 DEF LoadInv, LoopInv, RingCore
<1>9. QED
  BY <1>3, <1>4, <1>5, <1>6, <1>7, <1>8 DEF SigInv

\* The store of --pending, and the callback that begins.
LEMMA StoreSig ==
    ASSUME SigInv, handlers = <<>>, StorePending,
           NEW ph \in {"js", "after", "crashed"}, CallBack(ph),
           UNCHANGED <<signalMap, handlers, submitting, ctxOf, stale>>,
           owed' \in [Contexts -> Int]
    PROVE  SigInv'
<1>1. /\ phase = "uncount" /\ pending' = loaded - 1
      /\ lost' = lost + (pending - loaded) /\ loaded' = 0
  BY DEF StorePending
<1>2. RingCore /\ SignalTypes /\ CallbackInv /\ SqeInv /\ CountInv /\ LoadInv
  BY <1>1 DEF SigInv
<1>3. /\ pending \in Int /\ loaded \in Int /\ lost \in Nat
      /\ loaded <= pending /\ ready > 0 /\ Balance \in Int
  BY <1>1, <1>2, BooksAreIntegers DEF RingCore, SignalTypes, LoadInv
<1>4. pending' \in Int /\ lost' \in Nat /\ loaded' \in Int
  BY <1>1, <1>3
<1>5. /\ RingCore' /\ Balance' = Balance + 1 + (pending' - pending)
      /\ Head(cq) \in Requests /\ cur' = Head(cq) /\ phase' = ph
      /\ At("cb")' = At("cb") \cup {Head(cq)}
  BY <1>2, <1>3, <1>4, CallBackKeeps
<1>6. SignalTypes'
  BY <1>2, <1>4, <1>5 DEF SignalTypes, Phases, Ended
<1>7. CallbackInv'
  <2>1. At("cb") = {}
    BY <1>1, <1>2 DEF CallbackInv
  <2>2. Head(cq) # None  BY <1>5, RequestsAssumption
  <2>3. QED  BY <1>5, <2>1, <2>2 DEF CallbackInv
<1>8. submitting.req = None
  BY <1>1, <1>2 DEF SqeInv
<1>9. SqeInv'
  BY <1>5, <1>8 DEF SqeInv
<1>10. CountInv'
  <2>1. Cardinality(Uncounted) = 0
    BY <1>8, NoneUncounted
  <2>2. Uncounted' = Uncounted
    BY DEF Uncounted
  <2>3. QED  BY <1>1, <1>2, <1>3, <1>5, <2>1, <2>2 DEF CountInv
<1>11. LoadInv' /\ LoopInv'
  BY <1>5 DEF LoadInv, LoopInv
<1>12. QED
  BY <1>5, <1>6, <1>7, <1>9, <1>10, <1>11 DEF SigInv

\* The completions of other requests and of signals, good and stale.
LEMMA ReapSig ==
    ASSUME SigInv, handlers = <<>>, ReapIO \/ ReapSignal \/ ReapStale
    PROVE  SigInv'
<1>1. SignalTypes  BY DEF SigInv
<1>2. CASE ReapIO
  <2>1. /\ StorePending
        /\ \/ CallBack("js")
           \/ CallBack("after")
        /\ UNCHANGED <<signalMap, handlers, submitting, ctxOf, stale>>
        /\ owed' = owed
    BY <1>2 DEF ReapIO
  <2>2. owed' \in [Contexts -> Int]  BY <1>1, <2>1 DEF SignalTypes
  <2>3. QED  BY <2>1, <2>2, StoreSig
<1>3. CASE ReapSignal
  <2>1. /\ StorePending /\ CallBack("js")
        /\ UNCHANGED <<signalMap, handlers, submitting, ctxOf, stale>>
        /\ owed' = [owed EXCEPT ![ctxOf[Head(cq)]] = @ - 1]
    BY <1>3 DEF ReapSignal
  <2>2. owed' \in [Contexts -> Int]
    <3>1. ASSUME NEW f \in [Contexts -> Int], NEW c
          PROVE  [f EXCEPT ![c] = f[c] - 1] \in [Contexts -> Int]
      <4>1. CASE c \in Contexts
        BY <4>1
      <4>2. CASE c \notin Contexts
        BY <4>2
      <4>3. QED  BY <4>1, <4>2
    <3>2. owed \in [Contexts -> Int]  BY <1>1 DEF SignalTypes
    <3>3. QED  BY <2>1, <3>1, <3>2
  <2>3. QED  BY <2>1, <2>2, StoreSig
<1>4. CASE ReapStale
  <2>1. /\ StorePending
        /\ CallBack("js") \/ CallBack("after") \/ CallBack("crashed")
        /\ UNCHANGED <<signalMap, handlers, submitting, ctxOf, stale>>
        /\ owed' = owed
    BY <1>4 DEF ReapStale
  <2>2. owed' \in [Contexts -> Int]  BY <1>1, <2>1 DEF SignalTypes
  <2>3. QED  BY <2>1, <2>2, StoreSig
<1>5. QED  BY <1>2, <1>3, <1>4

\* Listeners come and go.
LEMMA OnOffSig ==
    ASSUME SigInv,
           (\E s \in SignalNumbers, c \in Contexts : On(s, c))
             \/ \E s \in SignalNumbers : Off(s)
    PROVE  SigInv'
<1>1. /\ UNCHANGED <<phase, cur, pending, where, kind, cq, ready>>
      /\ UNCHANGED <<handlers, submitting, loaded, ctxOf, lost>>
      /\ stale' \subseteq Requests \cup stale
  BY DEF On, Off, ringVars
<1>2. RingCore /\ SignalTypes  BY DEF SigInv
<1>3. RingCore' /\ Balance' = Balance
  BY <1>1, <1>2, ThreadStepKeeps
<1>4. signalMap' \in [SignalNumbers -> Seq(Contexts)]
  <2>1. signalMap \in [SignalNumbers -> Seq(Contexts)]
    BY <1>2 DEF SignalTypes
  <2>2. ASSUME NEW s \in SignalNumbers, NEW c \in Contexts, On(s, c)
        PROVE  signalMap' \in [SignalNumbers -> Seq(Contexts)]
    <3>1. signalMap' = [signalMap EXCEPT ![s] = Append(signalMap[s], c)]
      BY <2>2 DEF On
    <3>2. Append(signalMap[s], c) \in Seq(Contexts)
      BY <2>1, AppendProperties
    <3>3. QED  BY <2>1, <3>1, <3>2
  <2>3. ASSUME NEW s \in SignalNumbers, Off(s)
        PROVE  signalMap' \in [SignalNumbers -> Seq(Contexts)]
    <3>1. signalMap' = [signalMap EXCEPT ![s] = <<>>]
      BY <2>3 DEF Off
    <3>2. QED  BY <2>1, <3>1
  <2>4. QED  BY <2>2, <2>3
<1>5. owed' \in [Contexts -> Int]
  <2>1. owed \in [Contexts -> Int]
    BY <1>2 DEF SignalTypes
  <2>2. ASSUME NEW s \in SignalNumbers, Off(s)
        PROVE  owed' \in [Contexts -> Int]
    <3>1. owed' = [c \in Contexts |->
                     IF c \in Range(signalMap[s]) THEN 0 ELSE owed[c]]
      BY <2>2 DEF Off
    <3>2. QED  BY <2>1, <3>1
  <2>3. ASSUME NEW s \in SignalNumbers, NEW c \in Contexts, On(s, c)
        PROVE  owed' = owed
    BY <2>3 DEF On
  <2>4. QED  BY <2>1, <2>2, <2>3
<1>6. SignalTypes'
  BY <1>1, <1>2, <1>4, <1>5 DEF SignalTypes
<1>7. /\ CallbackInv => CallbackInv'
      /\ SqeInv => SqeInv'
      /\ LoadInv => LoadInv'
      /\ LoopInv => LoopInv'
  BY <1>1 DEF CallbackInv, SqeInv, LoadInv, LoopInv, At, Outstanding
<1>8. CountInv => CountInv'
  BY <1>1, <1>3 DEF CountInv, Uncounted
<1>9. QED  BY <1>1, <1>3, <1>6, <1>7, <1>8 DEF SigInv

\* A handler begins: a new frame that holds nothing.
LEMMA HandlerEnterSig ==
    ASSUME SigInv, NEW s \in SignalNumbers, HandlerEnter(s)
    PROVE  SigInv'
<1> DEFINE h == [sig |-> s, pos |-> 1, req |-> None]
<1>1. /\ phase \notin Ended /\ handlers' = Append(handlers, h)
      /\ phase' = IF phase = "wait" THEN "drain" ELSE phase
      /\ UNCHANGED <<cur, pending, where, kind, cq, ready>>
      /\ UNCHANGED <<signalMap, submitting, loaded, ctxOf, stale, lost>>
      /\ owed' = [c \in Contexts |->
                    IF c \in Range(signalMap[s]) THEN owed[c] + 1 ELSE owed[c]]
  BY DEF HandlerEnter, Live
<1>2. /\ RingCore /\ SignalTypes /\ CallbackInv /\ SqeInv /\ CountInv
      /\ LoadInv /\ LoopInv
  BY <1>1 DEF SigInv, Ended
<1>3. RingCore' /\ Balance' = Balance
  BY <1>1, <1>2, ThreadStepKeeps
<1>4. h \in HandlerFrames /\ h.req = None
  BY DEF HandlerFrames
<1> HIDE DEF h
<1>5. /\ handlers' \in Seq(HandlerFrames)
      /\ DOMAIN handlers' = 1..(Len(handlers) + 1)
      /\ \A i \in 1..Len(handlers) : handlers'[i] = handlers[i]
      /\ handlers'[Len(handlers) + 1] = h
  <2>1. handlers \in Seq(HandlerFrames)  BY <1>2 DEF SignalTypes
  <2>2. /\ handlers' \in Seq(HandlerFrames)
        /\ Len(handlers') = Len(handlers) + 1
        /\ \A i \in 1..Len(handlers) : handlers'[i] = handlers[i]
        /\ handlers'[Len(handlers) + 1] = h
    BY <1>1, <1>4, <2>1, AppendProperties
  <2>3. DOMAIN handlers' = 1..Len(handlers')
    BY <2>2, LenProperties
  <2>4. QED  BY <2>2, <2>3
<1>6. DOMAIN handlers = 1..Len(handlers) /\ Len(handlers) \in Nat
  BY <1>2, FrameTypes
<1>7. \A i \in DOMAIN handlers' : handlers'[i].req # None =>
        i \in DOMAIN handlers /\ handlers'[i] = handlers[i]
  BY <1>4, <1>5, <1>6
<1>8. owed' \in [Contexts -> Int]
  <2>1. owed \in [Contexts -> Int]  BY <1>2 DEF SignalTypes
  <2>2. QED  BY <1>1, <2>1
<1>9. SignalTypes'
  BY <1>1, <1>2, <1>5, <1>8 DEF SignalTypes, Phases
<1>10. CallbackInv'
  BY <1>1, <1>2 DEF CallbackInv, At
<1>11. SqeInv'
  <2>1. phase' \notin {"wait", "exited", "terminated"}
    BY <1>1 DEF Ended
  <2>2. phase' = "submit" <=> phase = "submit"
    BY <1>1
  <2>3. QED  BY <1>1, <1>2, <1>7, <2>1, <2>2 DEF SqeInv
<1>12. CountInv'
  <2>1. \A i \in DOMAIN handlers :
          i \in DOMAIN handlers' /\ handlers'[i] = handlers[i]
    BY <1>5, <1>6
  <2>2. Uncounted' = Uncounted
    BY <1>1, <1>7, <2>1 DEF Uncounted
  <2>3. QED  BY <1>1, <1>2, <1>3, <2>2 DEF CountInv
<1>13. LoadInv'
  BY <1>1, <1>2 DEF LoadInv
<1>14. LoopInv'
  BY <1>1, <1>2 DEF LoopInv, Ended
<1>15. QED
  BY <1>3, <1>9, <1>10, <1>11, <1>12, <1>13, <1>14 DEF SigInv

\* A handler takes an sqe for the next listener, or crashes.
LEMMA HandlerSubmitSig ==
    ASSUME SigInv, NEW r \in SignalRequests, HandlerSubmit(r)
    PROVE  SigInv'
<1>1. /\ phase \notin Ended /\ handlers # <<>>
      /\ r \in Requests /\ where[r] = "free" /\ TakeSqe(r, "signal")
      /\ UNCHANGED <<cur, pending, cq, ready, signalMap, submitting, loaded,
                     stale, owed, lost>>
      /\ Top.pos <= Len(signalMap[Top.sig])
  BY SignalRequestsAssumption DEF HandlerSubmit, Live
<1>2. /\ RingCore /\ SignalTypes /\ CallbackInv /\ SqeInv /\ CountInv
      /\ LoadInv /\ LoopInv
  BY <1>1 DEF SigInv, Ended
<1>3. CASE At("sq") # {}
  <2>1. phase' = "crashed" /\ UNCHANGED <<where, kind, handlers, ctxOf>>
    BY <1>1, <1>3 DEF TakeSqe, HandlerSubmit
  <2>2. RingCore'
    BY <1>1, <1>2, <2>1, ThreadStepKeeps
  <2>3. SignalTypes'
    BY <1>1, <1>2, <2>1 DEF SignalTypes, Phases, Ended
  <2>4. QED  BY <2>1, <2>2, <2>3 DEF SigInv
<1>4. CASE At("sq") = {}
  <2> DEFINE h == [sig |-> Top.sig, pos |-> Top.pos + 1, req |-> r]
             n == Len(handlers)
  <2>1. /\ handlers' = [handlers EXCEPT ![n] = h]
        /\ ctxOf' = [ctxOf EXCEPT ![r] = signalMap[Top.sig][Top.pos]]
        /\ phase' = phase
    BY <1>1, <1>4 DEF HandlerSubmit
  <2>2. /\ n \in DOMAIN handlers /\ Top \in HandlerFrames
        /\ Top.sig \in SignalNumbers /\ Top.pos \in Nat \ {0}
    <3>1. n \in Nat /\ n # 0 /\ DOMAIN handlers = 1..n
      BY <1>1, <1>2, FrameTypes, EmptySeq, LenProperties DEF SignalTypes
    <3>2. Top \in HandlerFrames
      BY <1>2, <3>1, FrameTypes DEF Top
    <3>3. QED  BY <3>1, <3>2 DEF HandlerFrames
  <2>3. h \in HandlerFrames /\ h.req = r
    <3>1. Top.pos + 1 \in Nat \ {0} /\ r \in Requests \cup {None}
      BY <1>1, <2>2
    <3>2. QED  BY <2>2, <3>1 DEF HandlerFrames
  <2> HIDE DEF h
  <2>4. /\ handlers' \in Seq(HandlerFrames)
        /\ DOMAIN handlers' = DOMAIN handlers
        /\ handlers'[n] = h
        /\ \A i \in DOMAIN handlers : i # n => handlers'[i] = handlers[i]
    BY <1>1, <1>2, <2>1, <2>3, TopGoesOn
  <2>5. /\ submitting.req = None
        /\ \A i \in DOMAIN handlers : handlers[i].req = None
        /\ Cardinality(Uncounted) = 0
    BY <1>2, <1>4, UncountedBound
  <2>6. /\ RingCore' /\ Balance' = Balance - 1
        /\ where' = [where EXCEPT ![r] = "sq"] /\ where'[r] = "sq"
    BY <1>1, <1>2, <1>4, TakeKeeps, SignalKinds DEF Away
  <2>7. r # None  BY <1>1, RequestsAssumption
  <2>8. phase # "submit" /\ phase # "wait"
    BY <1>1, <1>2, <2>5 DEF SqeInv
  <2>9. SignalTypes'
    <3>1. signalMap[Top.sig][Top.pos] \in Contexts
      <4>1. signalMap[Top.sig] \in Seq(Contexts)
        BY <1>2, <2>2 DEF SignalTypes
      <4>2. Len(signalMap[Top.sig]) \in Nat
        BY <4>1, LenProperties
      <4>3. Top.pos \in 1..Len(signalMap[Top.sig])
        BY <1>1, <2>2, <4>2
      <4>4. QED  BY <4>1, <4>3, ElementOfSeq
    <3>2. ctxOf' \in [Requests -> Contexts \cup {None}]
      BY <1>2, <2>1, <3>1 DEF SignalTypes
    <3>3. QED  BY <1>1, <1>2, <2>1, <2>4, <3>2 DEF SignalTypes
  <2>10. CallbackInv'
    <3>1. At("cb")' = At("cb")
      BY <1>1, <1>2, <2>6 DEF At, RingCore
    <3>2. QED  BY <1>1, <1>2, <2>1, <3>1 DEF CallbackInv
  <2>11. SqeInv'
    <3>1. \A i \in DOMAIN handlers' : handlers'[i].req # None => i = n
      BY <2>4, <2>5
    <3>2. handlers'[n].req = r
      BY <2>3, <2>4
    <3>3. phase' \notin {"wait", "exited", "terminated", "submit"}
      BY <1>1, <2>1, <2>8 DEF Ended
    <3>4. submitting'.req = None  BY <1>1, <2>5
    <3>5. QED  BY <2>6, <3>1, <3>2, <3>3, <3>4 DEF SqeInv
  <2>12. CountInv'
    <3>1. Uncounted' = {r}
      BY <1>1, <2>2, <2>3, <2>4, <2>5, <2>7 DEF Uncounted
    <3>2. Cardinality(Uncounted') = 1
      BY <3>1, FS_Singleton
    <3>3. Balance \in Int /\ lost \in Nat /\ lost' = lost
      BY <1>1, <1>2, BooksAreIntegers DEF SignalTypes
    <3>4. QED  BY <1>2, <2>5, <2>6, <3>2, <3>3 DEF CountInv
  <2>13. LoadInv'
    BY <1>1, <1>2, <2>1 DEF LoadInv
  <2>14. LoopInv'
    BY <1>1, <1>2, <2>1, <2>8 DEF LoopInv, Ended
  <2>15. QED
    BY <2>6, <2>9, <2>10, <2>11, <2>12, <2>13, <2>14 DEF SigInv
<1>5. QED  BY <1>3, <1>4

\* A handler counts its request, wherever the thread stands.
LEMMA HandlerSubmittedSig ==
    ASSUME SigInv, HandlerSubmitted
    PROVE  SigInv'
<1> DEFINE n == Len(handlers)
           q == handlers[n].req
           h == [handlers[n] EXCEPT !.req = None]
<1>1. /\ phase \notin Ended /\ handlers # <<>> /\ q # None
      /\ CountAndEnter(q) /\ handlers' = [handlers EXCEPT ![n] = h]
      /\ UNCHANGED <<phase, cur, kind, cq, signalMap, submitting, loaded,
                     ctxOf, stale, owed, lost>>
  BY DEF HandlerSubmitted, Live, Top
<1>2. /\ RingCore /\ SignalTypes /\ CallbackInv /\ SqeInv /\ CountInv
      /\ LoadInv /\ LoopInv
  BY <1>1 DEF SigInv, Ended
<1>3. n \in DOMAIN handlers /\ handlers[n] \in HandlerFrames
  <2>1. n \in Nat /\ n # 0 /\ DOMAIN handlers = 1..n
    BY <1>1, <1>2, FrameTypes, EmptySeq, LenProperties DEF SignalTypes
  <2>2. QED  BY <1>2, <2>1, FrameTypes
<1>4. h \in HandlerFrames /\ h.req = None /\ q \in Requests
  BY <1>1, <1>3 DEF HandlerFrames
<1> HIDE DEF h
<1>5. /\ handlers' \in Seq(HandlerFrames)
      /\ DOMAIN handlers' = DOMAIN handlers
      /\ handlers'[n] = h
      /\ \A i \in DOMAIN handlers : i # n => handlers'[i] = handlers[i]
  BY <1>1, <1>2, <1>4, TopGoesOn
<1>6. /\ where[q] = "sq" /\ submitting.req = None /\ phase # "submit"
      /\ \A i \in DOMAIN handlers : handlers[i].req # None => i = n
      /\ phase # "wait"
  BY <1>1, <1>2, <1>3 DEF SqeInv
<1>7. \A i \in DOMAIN handlers' : handlers'[i].req = None
  BY <1>4, <1>5, <1>6
<1> HIDE DEF q
<1>8. /\ RingCore' /\ Balance' = Balance + 1 /\ pending' = pending + 1
      /\ ready > 0 => ready' > 0
      /\ At("cb")' = At("cb")
  BY <1>1, <1>2, <1>4, <1>6, CountKeeps
<1>9. SignalTypes'
  BY <1>1, <1>2, <1>5 DEF SignalTypes
<1>10. CallbackInv'
  BY <1>1, <1>2, <1>8 DEF CallbackInv
<1>11. SqeInv'
  BY <1>1, <1>6, <1>7 DEF SqeInv, Ended
<1>12. CountInv'
  <2>1. Cardinality(Uncounted) = 1
    BY <1>1, <1>3, <1>6, HandlerUncounted DEF q
  <2>2. Cardinality(Uncounted') = 0
    <3>1. Uncounted' = {}
      BY <1>1, <1>6, <1>7 DEF Uncounted
    <3>2. QED  BY <3>1, FS_EmptySet
  <2>3. Balance \in Int /\ lost \in Nat /\ lost' = lost
    BY <1>1, <1>2, BooksAreIntegers DEF SignalTypes
  <2>4. QED  BY <1>2, <1>8, <2>1, <2>2, <2>3 DEF CountInv
<1>13. pending \in Int /\ loaded \in Int
  BY <1>2 DEF RingCore, SignalTypes
<1>14. LoadInv'
  BY <1>1, <1>2, <1>8, <1>13 DEF LoadInv
<1>15. LoopInv'
  BY <1>1, <1>2, <1>6, <1>8, <1>13 DEF LoopInv, Ended
<1>16. QED
  BY <1>8, <1>9, <1>10, <1>11, <1>12, <1>14, <1>15 DEF SigInv

\* A handler returns to what it interrupted.
LEMMA HandlerReturnSig ==
    ASSUME SigInv, HandlerReturn
    PROVE  SigInv'
<1> DEFINE n == Len(handlers)
<1>1. /\ phase \notin Ended /\ handlers # <<>> /\ handlers[n].req = None
      /\ handlers' = SubSeq(handlers, 1, n - 1)
      /\ UNCHANGED <<phase, cur, pending, where, kind, cq, ready>>
      /\ UNCHANGED <<signalMap, submitting, loaded, ctxOf, stale, owed, lost>>
  BY DEF HandlerReturn, Live, Top, ringVars
<1>2. /\ RingCore /\ SignalTypes /\ CallbackInv /\ SqeInv /\ CountInv
      /\ LoadInv /\ LoopInv
  BY <1>1 DEF SigInv, Ended
<1>3. RingCore' /\ Balance' = Balance
  BY <1>1, <1>2, ThreadStepKeeps
<1>4. /\ n \in Nat /\ n # 0 /\ DOMAIN handlers = 1..n
      /\ handlers \in Seq(HandlerFrames)
  BY <1>1, <1>2, FrameTypes, EmptySeq, LenProperties DEF SignalTypes
<1>5. /\ handlers' \in Seq(HandlerFrames)
      /\ DOMAIN handlers' = 1..(n - 1)
      /\ \A i \in 1..(n - 1) : handlers'[i] = handlers[i]
  <2>1. 1 \in 1..(n + 1) /\ n - 1 \in 0..n
    BY <1>4
  <2>2. /\ SubSeq(handlers, 1, n - 1) \in Seq(HandlerFrames)
        /\ Len(SubSeq(handlers, 1, n - 1)) =
             IF 1 <= n - 1 THEN (n - 1) - 1 + 1 ELSE 0
        /\ \A i \in 1..(n - 1) - 1 + 1 :
             SubSeq(handlers, 1, n - 1)[i] = handlers[1 + i - 1]
    BY <1>4, <2>1, SubSeqProperties
  <2>3. \A i \in 1..(n - 1) : i \in 1..(n - 1) - 1 + 1 /\ 1 + i - 1 = i
    BY <1>4
  <2>4. \A i \in 1..(n - 1) : handlers'[i] = handlers[i]
    BY <1>1, <2>2, <2>3
  <2>5. Len(handlers') = n - 1
    BY <1>1, <1>4, <2>2
  <2>6. QED  BY <1>1, <2>2, <2>4, <2>5, LenProperties
<1>6. /\ \A i \in DOMAIN handlers' :
           i \in DOMAIN handlers /\ handlers'[i] = handlers[i]
      /\ \A i \in DOMAIN handlers : handlers[i].req # None =>
           i \in DOMAIN handlers' /\ handlers'[i] = handlers[i]
  <2>1. ASSUME NEW m \in Nat
        PROVE  /\ \A i \in 1..m : i # m => i \in 1..(m - 1)
               /\ \A i \in 1..(m - 1) : i \in 1..m
    OBVIOUS
  <2>2. /\ \A i \in 1..n : i # n => i \in 1..(n - 1)
        /\ \A i \in 1..(n - 1) : i \in 1..n
    BY <1>4, <2>1
  <2>3. QED  BY <1>1, <1>4, <1>5, <2>2
<1>7. SignalTypes'
  BY <1>1, <1>2, <1>5 DEF SignalTypes
<1>8. CallbackInv'
  BY <1>1, <1>2 DEF CallbackInv, At
<1>9. SqeInv'
  <2>1. phase' \notin {"wait", "exited", "terminated"}
    BY <1>1, <1>2 DEF SqeInv, Ended
  <2>2. QED  BY <1>1, <1>2, <1>6, <2>1 DEF SqeInv
<1>10. CountInv'
  <2>1. Uncounted' = Uncounted
    BY <1>1, <1>6 DEF Uncounted
  <2>2. QED  BY <1>1, <1>2, <1>3, <2>1 DEF CountInv
<1>11. LoadInv' /\ LoopInv'
  BY <1>1, <1>2 DEF LoadInv, LoopInv, Outstanding, At
<1>12. QED
  BY <1>3, <1>7, <1>8, <1>9, <1>10, <1>11 DEF SigInv

\* The kernel posts a completion.
LEMMA CompleteSig ==
    ASSUME SigInv, NEW r \in Requests, Complete(r), UNCHANGED signalVars
    PROVE  SigInv'
<1>1. /\ phase \notin Ended /\ where[r] = "kernel"
      /\ where' = [where EXCEPT ![r] = "cq"] /\ cq' = Append(cq, r)
      /\ ready' = IF ready = Len(cq) /\ ready < CQEntries
                  THEN ready + 1 ELSE ready
      /\ UNCHANGED <<phase, cur, pending, kind>>
      /\ UNCHANGED <<signalMap, handlers, submitting, loaded, ctxOf, stale,
                     owed, lost>>
  BY DEF Complete, Live, signalVars
<1>2. /\ RingCore /\ SignalTypes /\ CallbackInv /\ SqeInv /\ CountInv
      /\ LoadInv /\ LoopInv
  BY <1>1 DEF SigInv, Ended
<1>3. RingCore' /\ Balance' = Balance
  BY <1>2, CompleteKeeps
<1>4. /\ At("cb")' = At("cb") /\ At("sq")' = At("sq")
      /\ Outstanding' = Outstanding
      /\ \A s \in Requests : where[s] = "sq" => where'[s] = "sq"
  BY <1>1, <1>2 DEF At, Outstanding, RingCore
<1>5. SignalTypes'
  BY <1>1, <1>2 DEF SignalTypes
<1>6. CallbackInv'
  BY <1>1, <1>2, <1>4 DEF CallbackInv
<1>7. SqeInv'
  <2>1. \A i \in DOMAIN handlers : handlers[i].req \in Requests \cup {None}
    BY <1>2, FrameTypes DEF HandlerFrames
  <2>2. submitting.req \in Requests \cup {None}
    BY <1>2 DEF SignalTypes
  <2>3. QED  BY <1>1, <1>2, <1>4, <2>1, <2>2 DEF SqeInv
<1>8. CountInv'
  BY <1>1, <1>2, <1>3 DEF CountInv, Uncounted
<1>9. Len(cq) \in Nat /\ ready \in 0..CQEntries /\ ready <= Len(cq)
      /\ (cq # <<>> => Len(cq) # 0) /\ (cq = <<>> => Len(cq) = 0)
  BY <1>2, LenProperties, EmptySeq DEF RingCore
<1>10. LoadInv'
  BY <1>1, <1>2, <1>9 DEF LoadInv
<1>11. LoopInv'
  <2>1. (cq # <<>> => ready > 0) => ready' > 0
    BY <1>1, <1>9, CQEntriesAssumption
  <2>2. QED  BY <1>1, <1>2, <1>4, <2>1 DEF LoopInv
<1>12. QED
  BY <1>3, <1>5, <1>6, <1>7, <1>8, <1>10, <1>11 DEF SigInv

-----------------------------------------------------------------------------
(* Theorems *)

\* The steps of the thread, between handlers.
LEMMA ThreadSig ==
    ASSUME SigInv, handlers = <<>>, ThreadStep
    PROVE  SigInv'
<1>1. CASE (LoopCheck \/ Wake \/ DrainDone) /\ UNCHANGED signalVars
  BY <1>1, PhaseStepSig
<1>2. CASE Enter /\ UNCHANGED signalVars
  BY <1>2, EnterSig
<1>3. CASE Release /\ UNCHANGED signalVars
  <2>1. /\ phase = "after" /\ Free
        /\ UNCHANGED <<pending, cq, ready, signalMap, handlers, submitting,
                       loaded, owed, lost>>
        /\ ctxOf' = ctxOf /\ stale' = stale
    BY <1>3 DEF Release, signalVars
  <2>2. SignalTypes  BY DEF SigInv
  <2>3. /\ ctxOf' \in [Requests -> Contexts \cup {None}]
        /\ stale' \subseteq Requests
    BY <2>1, <2>2 DEF SignalTypes
  <2>4. QED  BY <2>1, <2>3, FreeSig
<1>4. CASE EndSubmit
  BY <1>4, EndSubmitSig
<1>5. CASE RearmListener
  <2>1. /\ phase = "after" /\ kind[cur] \in Listeners
        /\ BeginSubmit(cur, kind[cur], "drain")
    BY <1>5 DEF RearmListener
  <2>2. cur \in Requests
    BY <2>1 DEF SigInv, CallbackInv, SignalTypes
  <2>3. kind[cur] \in Kinds \ {"none"}
    BY <2>1, SignalKinds
  <2>4. QED  BY <2>1, <2>2, <2>3, BeginSubmitSig
<1>6. CASE LoadPending
  BY <1>6, LoadSig
<1>7. CASE ReapIO \/ ReapSignal \/ ReapStale
  BY <1>7, ReapSig
<1>8. CASE SignalCbDone
  <2>1. /\ phase = "after" /\ Free
        /\ UNCHANGED <<pending, cq, ready, signalMap, handlers, submitting,
                       loaded, owed, lost>>
        /\ ctxOf' = [ctxOf EXCEPT ![cur] = None] /\ stale' = stale \ {cur}
    BY <1>8 DEF SignalCbDone
  <2>2. SignalTypes  BY DEF SigInv
  <2>3. /\ ctxOf' \in [Requests -> Contexts \cup {None}]
        /\ stale' \subseteq Requests
    BY <2>1, <2>2 DEF SignalTypes
  <2>4. QED  BY <2>1, <2>3, FreeSig
<1>9. QED
  BY <1>1, <1>2, <1>3, <1>4, <1>5, <1>6, <1>7, <1>8 DEF ThreadStep

\* The steps of JavaScript.
LEMMA ProgramSig ==
    ASSUME SigInv, handlers = <<>>, ProgramStep \/ ReturnStep
    PROVE  SigInv'
<1>1. ASSUME NEW r \in Requests \ SignalRequests, NEW k \in Operations,
             Operate(r, k)
      PROVE  SigInv'
  <2>1. phase = "js" /\ where[r] = "free" /\ BeginSubmit(r, k, "js")
    BY <1>1 DEF Operate
  <2>2. k \in Kinds \ {"none"}  BY SignalKinds
  <2>3. QED  BY <2>1, <2>2, BeginSubmitSig
<1>2. CASE \E s \in SignalNumbers : Off(s) \/ \E c \in Contexts : On(s, c)
  BY <1>2, OnOffSig
<1>3. CASE Terminate /\ UNCHANGED signalVars
  BY <1>3, PhaseStepSig
<1>4. CASE ReturnStep
  BY <1>4, PhaseStepSig DEF ReturnStep
<1>5. QED
  BY <1>1, <1>2, <1>3, <1>4 DEF ProgramStep

LEMMA StutterSig ==
    ASSUME SigInv, UNCHANGED signalsVars
    PROVE  SigInv'
<1>1. /\ UNCHANGED <<phase, cur, pending, where, kind, cq, ready>>
      /\ UNCHANGED <<signalMap, handlers, submitting, loaded, ctxOf, stale,
                     owed, lost>>
  BY DEF signalsVars, signalVars, ringVars
<1>2. RingCore' /\ Balance' = Balance
  BY <1>1, ThreadStepKeeps DEF SigInv
<1>3. SignalTypes'
  BY <1>1 DEF SigInv, SignalTypes
<1>4. /\ CallbackInv => CallbackInv'
      /\ SqeInv => SqeInv'
      /\ LoadInv => LoadInv'
      /\ LoopInv => LoopInv'
  BY <1>1 DEF CallbackInv, SqeInv, LoadInv, LoopInv, At, Outstanding
<1>5. CountInv => CountInv'
  BY <1>1, <1>2 DEF CountInv, Uncounted
<1>6. QED  BY <1>1, <1>2, <1>3, <1>4, <1>5 DEF SigInv

LEMMA NextSig == SigInv /\ [SignalsNext]_signalsVars => SigInv'
<1> SUFFICES ASSUME SigInv, [SignalsNext]_signalsVars PROVE SigInv'
  OBVIOUS
<1>1. CASE handlers = <<>> /\ (ThreadStep \/ ProgramStep \/ ReturnStep)
  BY <1>1, ThreadSig, ProgramSig
<1>2. CASE HandlerStep
  BY <1>2, HandlerSubmitSig, HandlerSubmittedSig, HandlerReturnSig
     DEF HandlerStep
<1>3. CASE \E s \in SignalNumbers : HandlerEnter(s)
  BY <1>3, HandlerEnterSig
<1>4. CASE \E r \in Requests : Complete(r) /\ UNCHANGED signalVars
  BY <1>4, CompleteSig
<1>5. CASE Interrupted /\ UNCHANGED signalVars
  <2>1. handlers = <<>>
    BY <1>5 DEF Interrupted, SigInv, SqeInv
  <2>2. QED  BY <1>5, <2>1, PhaseStepSig
<1>6. CASE Over /\ UNCHANGED signalVars
  BY <1>6, StutterSig DEF Over, signalsVars
<1>7. CASE UNCHANGED signalsVars
  BY <1>7, StutterSig
<1>8. QED
  BY <1>1, <1>2, <1>3, <1>4, <1>5, <1>6, <1>7 DEF SignalsNext

LEMMA SigInvariance == SignalsSpec => []SigInv
<1>1. QED  BY InitSig, NextSig, PTL DEF SignalsSpec

\* The types of the state under signals.
THEOREM SignalsTypesCorrect == SignalsSpec => []SignalsTypeOK
<1>1. SigInv => SignalsTypeOK
  BY DEF SigInv, SignalTypes, SignalsTypeOK, RingTypeOK, RingCore
<1>2. QED  BY <1>1, SigInvariance, PTL

\* Wherever handlers interrupt SubmitRequest (io_uring.cc:75) and RunIOUring
\* (101), and each other, `pending` is short by the increments that the store
\* of `--pending` has overwritten, and by nothing else.
THEOREM ShortIsLost == SignalsSpec => []ShortByLost
<1>1. SigInv => ShortByLost
  BY DEF SigInv, ShortByLost, CountInv
<1>2. QED  BY <1>1, SigInvariance, PTL

\* While none was overwritten the loop (io_uring.cc:94-96) leaves and sleeps
\* only when it may, although a handler may submit between its look at
\* `pending` and its sleep.
THEOREM LoopDecides == SignalsSpec => []LoopDecidesWell
<1>1. SigInv => LoopDecidesWell
  <2> SUFFICES ASSUME SigInv, lost = 0 PROVE LoopDecidesWell
    BY DEF LoopDecidesWell
  <2>1. ASSUME phase = "exited" PROVE Outstanding = {}
    BY <2>1 DEF SigInv, LoopInv
  <2>2. ASSUME phase = "wait"
        PROVE  /\ At("kernel") \cup At("cq") # {}
               /\ cq # <<>> => ready > 0
    <3>1. /\ At("sq") = {} /\ (cq # <<>> => ready > 0)
          /\ Outstanding # {}
      BY <2>2 DEF SigInv, LoopInv
    <3>2. Outstanding = At("sq") \cup At("kernel") \cup At("cq")
      BY DEF Outstanding, At, Away
    <3>3. QED  BY <3>1, <3>2
  <2>3. QED  BY <2>1, <2>2 DEF LoopDecidesWell
<1>2. QED  BY <1>1, SigInvariance, PTL
-----------------------------------------------------------------------------
(* Each listener has coming what it was not called for: the requests with  *)
(* its context, and those that running handlers have still to make.        *)

\* A context is in one list, at one place.
Placed ==
    \A s, t \in SignalNumbers :
        \A i \in DOMAIN signalMap[s], j \in DOMAIN signalMap[t] :
            signalMap[s][i] = signalMap[t][j] => s = t /\ i = j

\* The requests of signals, and no others, have a context in their data.
SignalsMarked ==
    /\ \A r \in Requests : ctxOf[r] # None <=> kind[r] = "signal"
    /\ \A r \in stale : kind[r] = "signal"

Requested(c) == {r \in Outstanding \ stale : ctxOf[r] = c}

ToMake(c) ==
    {p \in ToSubmit : signalMap[handlers[p[1]].sig][p[2]] = c}

WayInv ==
    /\ Placed /\ SignalsMarked
    /\ \A c \in Contexts : owed[c] = Coming(c)

OwedInv == phase # "crashed" => WayInv

LEMMA ComingIs ==
    ASSUME NEW c
    PROVE  /\ Coming(c) = Cardinality(Requested(c)) + Cardinality(ToMake(c))
           /\ Coming(c)' = Cardinality(Requested(c)') + Cardinality(ToMake(c)')
BY DEF Coming, Requested, ToMake

LEMMA WayFinite ==
    ASSUME SignalTypes, NEW c
    PROVE  /\ IsFiniteSet(Requested(c)) /\ Cardinality(Requested(c)) \in Nat
           /\ IsFiniteSet(ToMake(c)) /\ Cardinality(ToMake(c)) \in Nat
<1>1. Requested(c) \subseteq Requests
  BY DEF Requested, Outstanding
<1>2. IsFiniteSet(DOMAIN handlers)
  BY FrameTypes, FS_Interval
<1>3. Cardinality(Contexts) \in Nat
  BY ContextsAssumption, FS_CardinalityType
<1>4. IsFiniteSet((DOMAIN handlers) \X (1..Cardinality(Contexts)))
  <2>1. IsFiniteSet(1..Cardinality(Contexts))
    BY <1>3, FS_Interval
  <2>2. QED  BY <1>2, <2>1, FS_Product
<1>5. ToMake(c) \subseteq (DOMAIN handlers) \X (1..Cardinality(Contexts))
  BY DEF ToMake, ToSubmit
<1>6. IsFiniteSet(Requested(c)) /\ IsFiniteSet(ToMake(c))
  BY <1>1, <1>4, <1>5, RequestsAssumption, FS_Subset
<1>7. QED  BY <1>6, FS_CardinalityType

\* No list is longer than there are contexts.
LEMMA ListBound ==
    ASSUME SignalTypes, Placed, NEW s \in SignalNumbers
    PROVE  /\ DOMAIN signalMap[s] = 1..Len(signalMap[s])
           /\ Len(signalMap[s]) \in Nat /\ Cardinality(Contexts) \in Nat
           /\ Len(signalMap[s]) <= Cardinality(Contexts)
           /\ \A i \in DOMAIN signalMap[s] : signalMap[s][i] \in Contexts
<1> DEFINE f == signalMap[s]
<1>1. f \in Seq(Contexts)
  BY DEF SignalTypes
<1>2. DOMAIN f = 1..Len(f) /\ Len(f) \in Nat
      /\ \A i \in DOMAIN f : f[i] \in Contexts
  BY <1>1, LenProperties, ElementOfSeq
<1>3. f \in [1..Len(f) -> Contexts]
  BY <1>1, <1>2, LenProperties
<1>4. \A i, j \in 1..Len(f) : f[i] = f[j] => i = j
  BY <1>2 DEF Placed
<1>5. f \in Injection(1..Len(f), Contexts)
  BY <1>3, <1>4 DEF Injection, IsInjective
<1>6. Cardinality(1..Len(f)) <= Cardinality(Contexts)
  BY <1>5, ContextsAssumption, FS_Injection
<1>7. Cardinality(1..Len(f)) = Len(f)
  BY <1>2, FS_Interval
<1>8. Cardinality(Contexts) \in Nat
  BY ContextsAssumption, FS_CardinalityType
<1>9. QED  BY <1>2, <1>6, <1>7, <1>8

\* What is to be made, handler by handler.
LEMMA ToMakeIs ==
    ASSUME NEW c
    PROVE  /\ \A p \in ToMake(c) : p = <<p[1], p[2]>>
           /\ \A i, k : <<i, k>> \in ToMake(c) <=>
                /\ i \in DOMAIN handlers /\ k \in 1..Cardinality(Contexts)
                /\ k \in handlers[i].pos..Len(signalMap[handlers[i].sig])
                /\ signalMap[handlers[i].sig][k] = c
BY DEF ToMake, ToSubmit

\* While no handler runs, none is.
LEMMA NoneToMake ==
    ASSUME NEW c, handlers = <<>>
    PROVE  ToMake(c) = {}
<1>1. DOMAIN handlers = {}
  BY DEF Seq
<1>2. QED  BY <1>1 DEF ToMake, ToSubmit

\* A step that leaves the signals' requests on their way, and what handlers
\* have still to make.
LEMMA QuietStep ==
    ASSUME WayInv, Placed',
           \A r \in Requests :
             /\ kind'[r] = "signal" <=> kind[r] = "signal"
             /\ kind[r] = "signal" => (r \in Outstanding' <=> r \in Outstanding),
           UNCHANGED <<ctxOf, stale, owed>>, SignalTypes,
           \A c \in Contexts : ToMake(c)' = ToMake(c)
    PROVE  WayInv'
<1>1. SignalsMarked'
  BY DEF WayInv, SignalsMarked, SignalTypes
<1>2. ASSUME NEW c \in Contexts
      PROVE  owed'[c] = Coming(c)'
  <2>1. c # None  BY ContextsAssumption
  <2>2. Requested(c)' = Requested(c)
    BY <2>1 DEF Requested, Outstanding, WayInv, SignalsMarked
  <2>3. QED  BY <1>2, <2>2, ComingIs DEF WayInv
<1>3. QED  BY <1>1, <1>2 DEF WayInv

\* The same while the thread runs and the lists stay as they are.
LEMMA QuietThread ==
    ASSUME WayInv, SignalTypes,
           \A r \in Requests :
             /\ kind'[r] = "signal" <=> kind[r] = "signal"
             /\ kind[r] = "signal" => (r \in Outstanding' <=> r \in Outstanding),
           UNCHANGED <<ctxOf, stale, owed, signalMap, handlers>>
    PROVE  WayInv'
<1>1. Placed'
  BY DEF WayInv, Placed
<1>2. \A c \in Contexts : ToMake(c)' = ToMake(c)
  BY DEF ToMake, ToSubmit
<1>3. QED  BY <1>1, <1>2, QuietStep

\* Steps of the thread that move no request of a signal.
LEMMA ThreadOwed ==
    ASSUME SigInv, WayInv, phase # "crashed",
           \/ /\ LoopCheck \/ Wake \/ DrainDone \/ JSReturn \/ Terminate
                   \/ Interrupted \/ Enter \/ Over
              /\ UNCHANGED signalVars
           \/ LoadPending
           \/ \E r \in Requests : Complete(r) /\ UNCHANGED signalVars
    PROVE  WayInv'
<1>1. SignalTypes /\ RingCore
  BY DEF SigInv
<1>2. UNCHANGED <<kind, ctxOf, stale, owed, signalMap, handlers>>
  BY DEF LoopCheck, Wake, DrainDone, JSReturn, Terminate, Interrupted, Enter,
         Over, ringVars, signalVars, LoadPending, Complete
<1>3. Outstanding' = Outstanding
  <2>1. \/ where' = where
        \/ where' = [r \in Requests |->
                       IF where[r] = "sq" THEN "kernel" ELSE where[r]]
        \/ \E r \in Requests : where[r] = "kernel"
                               /\ where' = [where EXCEPT ![r] = "cq"]
    BY DEF LoopCheck, Wake, DrainDone, JSReturn, Terminate, Interrupted,
           Enter, Over, ringVars, LoadPending, Complete
  <2>2. QED  BY <1>1, <2>1 DEF Outstanding, RingCore
<1>4. QED  BY <1>1, <1>2, <1>3, QuietThread

\* A request that is not a signal's gets an sqe.
LEMMA BeginSubmitOwed ==
    ASSUME SigInv, WayInv, NEW r \in Requests, NEW k \in IOKinds, NEW ph,
           kind[r] # "signal", BeginSubmit(r, k, ph), phase' # "crashed"
    PROVE  WayInv'
<1>1. SignalTypes /\ RingCore
  BY DEF SigInv
<1>2. UNCHANGED <<ctxOf, stale, owed, signalMap, handlers>>
  BY DEF BeginSubmit
<1>3. where' = [where EXCEPT ![r] = "sq"] /\ kind' = [kind EXCEPT ![r] = k]
  BY DEF BeginSubmit, TakeSqe
<1>4. \A q \in Requests :
        /\ kind'[q] = "signal" <=> kind[q] = "signal"
        /\ kind[q] = "signal" => where'[q] = where[q]
  BY <1>1, <1>3, SignalKinds DEF RingCore
<1>5. QED  BY <1>1, <1>2, <1>4, QuietThread DEF Outstanding

\* A request is counted, by the thread or by a handler.
LEMMA CountOwed ==
    ASSUME RingCore, NEW r \in Requests, where[r] = "sq", CountAndEnter(r)
    PROVE  Outstanding' = Outstanding
<1>1. where' \in {[where EXCEPT ![r] = "sq"], [where EXCEPT ![r] = "kernel"]}
  BY DEF CountAndEnter
<1>2. QED  BY <1>1 DEF Outstanding, RingCore

LEMMA EndSubmitOwed ==
    ASSUME SigInv, WayInv, EndSubmit
    PROVE  WayInv'
<1>1. /\ phase = "submit" /\ CountAndEnter(submitting.req)
      /\ UNCHANGED <<kind, ctxOf, stale, owed, signalMap, handlers>>
  BY DEF EndSubmit
<1>2. SignalTypes /\ RingCore /\ SqeInv
  BY <1>1 DEF SigInv
<1>3. submitting.req \in Requests /\ where[submitting.req] = "sq"
  BY <1>1, <1>2 DEF SqeInv, SignalTypes
<1>4. Outstanding' = Outstanding
  BY <1>1, <1>2, <1>3, CountOwed
<1>5. QED  BY <1>1, <1>2, <1>4, QuietThread

\* The current request, in its callback, is freed.
LEMMA ReleaseOwed ==
    ASSUME SigInv, WayInv, Release, UNCHANGED signalVars
    PROVE  WayInv'
<1>1. /\ phase = "after" /\ Free /\ kind[cur] # "signal"
      /\ UNCHANGED <<ctxOf, stale, owed, signalMap, handlers>>
  BY SignalKinds DEF Release, signalVars
<1>2. SignalTypes /\ RingCore /\ CallbackInv
  BY <1>1 DEF SigInv
<1>3. cur \in Requests
  BY <1>1, <1>2 DEF CallbackInv, SignalTypes
<1>4. where' = [where EXCEPT ![cur] = "free"]
      /\ kind' = [kind EXCEPT ![cur] = "none"]
  BY <1>1 DEF Free
<1>5. \A q \in Requests :
        /\ kind'[q] = "signal" <=> kind[q] = "signal"
        /\ kind[q] = "signal" => where'[q] = where[q]
  BY <1>1, <1>2, <1>3, <1>4 DEF RingCore
<1>6. QED  BY <1>1, <1>2, <1>5, QuietThread DEF Outstanding

\* signal_cb has run: its context goes with its request.
LEMMA SignalCbDoneOwed ==
    ASSUME SigInv, WayInv, SignalCbDone
    PROVE  WayInv'
<1>1. /\ phase = "after" /\ Free
      /\ ctxOf' = [ctxOf EXCEPT ![cur] = None] /\ stale' = stale \ {cur}
      /\ UNCHANGED <<owed, signalMap, handlers>>
  BY DEF SignalCbDone
<1>2. SignalTypes /\ RingCore /\ CallbackInv
  BY <1>1 DEF SigInv
<1>3. cur \in Requests /\ where[cur] = "cb"
  <2>1. cur \in Requests /\ At("cb") = {cur}
    BY <1>1, <1>2 DEF CallbackInv, SignalTypes
  <2>2. QED  BY <2>1 DEF At
<1>4. where' = [where EXCEPT ![cur] = "free"]
      /\ kind' = [kind EXCEPT ![cur] = "none"]
  BY <1>1 DEF Free
<1>5. Outstanding' = Outstanding /\ cur \notin Outstanding
  BY <1>2, <1>3, <1>4 DEF Outstanding, RingCore
<1>6. SignalsMarked'
  BY <1>1, <1>2, <1>3, <1>4 DEF WayInv, SignalsMarked, SignalTypes, RingCore
<1>7. Placed'
  BY <1>1 DEF WayInv, Placed
<1>8. ASSUME NEW c \in Contexts
      PROVE  owed'[c] = Coming(c)'
  <2>1. ToMake(c)' = ToMake(c)
    BY <1>1 DEF ToMake, ToSubmit
  <2>2. Requested(c)' = Requested(c)
    <3>1. \A r \in Outstanding : r # cur /\ ctxOf'[r] = ctxOf[r]
                                 /\ (r \in stale' <=> r \in stale)
      BY <1>1, <1>2, <1>5 DEF Outstanding, SignalTypes
    <3>2. QED  BY <1>5, <3>1 DEF Requested
  <2>3. QED  BY <1>1, <2>1, <2>2, ComingIs DEF WayInv
<1>9. QED  BY <1>6, <1>7, <1>8 DEF WayInv

\* A completion is taken: its request was outstanding and is no more.
LEMMA TakenOwed ==
    ASSUME RingCore, ready > 0, NEW ph, CallBack(ph)
    PROVE  /\ Head(cq) \in Requests /\ Head(cq) \in Outstanding
           /\ Outstanding' = Outstanding \ {Head(cq)}
           /\ kind' = kind
<1>1. /\ where' = [where EXCEPT ![Head(cq)] = "cb"] /\ kind' = kind
  BY DEF CallBack
<1>2. Head(cq) \in Requests /\ where[Head(cq)] = "cq"
  BY HeadIsPosted
<1>3. QED  BY <1>1, <1>2 DEF Outstanding, RingCore

LEMMA ReapOwed ==
    ASSUME SigInv, WayInv, ReapIO \/ ReapSignal \/ ReapStale
    PROVE  WayInv'
<1> DEFINE q == Head(cq)
<1>1. /\ phase = "uncount" /\ \E ph : CallBack(ph)
      /\ UNCHANGED <<ctxOf, stale, signalMap, handlers>>
      /\ \/ kind[q] \in IOKinds /\ owed' = owed
         \/ /\ kind[q] = "signal" /\ q \notin stale
            /\ owed' = [owed EXCEPT ![ctxOf[q]] = @ - 1]
         \/ kind[q] = "signal" /\ q \in stale /\ owed' = owed
  BY DEF ReapIO, ReapSignal, ReapStale, StorePending
<1>2. /\ SignalTypes /\ RingCore /\ ready > 0
  BY <1>1 DEF SigInv, LoadInv
<1>3. /\ q \in Requests /\ q \in Outstanding
      /\ Outstanding' = Outstanding \ {q} /\ kind' = kind
  BY <1>1, <1>2, TakenOwed
<1> HIDE DEF q
<1>4. Placed' /\ SignalsMarked'
  BY <1>1, <1>3 DEF WayInv, Placed, SignalsMarked
<1>5. ASSUME NEW c \in Contexts
      PROVE  owed'[c] = Coming(c)'
  <2>1. ToMake(c)' = ToMake(c)
    BY <1>1 DEF ToMake, ToSubmit
  <2>2. c # None /\ owed[c] = Coming(c) /\ owed[c] \in Int
    BY <1>2, ContextsAssumption DEF WayInv, SignalTypes
  <2>3. CASE q \notin stale /\ kind[q] = "signal" /\ ctxOf[q] = c
    <3>1. owed' = [owed EXCEPT ![c] = @ - 1]
      BY <1>1, <2>3, SignalKinds
    <3>2. owed'[c] = owed[c] - 1
      BY <1>2, <3>1 DEF SignalTypes
    <3>3. Requested(c)' = Requested(c) \ {q} /\ q \in Requested(c)
      BY <1>1, <1>3, <2>3 DEF Requested
    <3>4. Cardinality(Requested(c)') = Cardinality(Requested(c)) - 1
      BY <1>2, <3>3, WayFinite, FS_RemoveElement
    <3>5. Cardinality(Requested(c)) \in Nat /\ Cardinality(ToMake(c)) \in Nat
      BY <1>2, WayFinite
    <3>6. QED  BY <2>1, <2>2, <3>2, <3>4, <3>5, ComingIs
  <2>4. CASE ~(q \notin stale /\ kind[q] = "signal" /\ ctxOf[q] = c)
    <3>1. q \notin Requested(c)
      BY <1>3, <2>2, <2>4 DEF Requested, WayInv, SignalsMarked
    <3>2. Requested(c)' = Requested(c)
      BY <1>1, <1>3, <3>1 DEF Requested
    <3>3. owed'[c] = owed[c]
      BY <1>1, <1>2, <2>4 DEF SignalTypes
    <3>4. QED  BY <2>1, <2>2, <3>2, <3>3, ComingIs
  <2>5. QED  BY <2>3, <2>4
<1>6. QED  BY <1>4, <1>5 DEF WayInv

LEMMA OnOwed ==
    ASSUME SigInv, WayInv, handlers = <<>>, NEW s \in SignalNumbers,
           NEW c \in Contexts, On(s, c)
    PROVE  WayInv'
<1>1. /\ c \notin InUse
      /\ signalMap' = [signalMap EXCEPT ![s] = Append(@, c)]
      /\ UNCHANGED <<where, kind, ctxOf, stale, owed, handlers>>
  BY DEF On, ringVars
<1>2. SignalTypes  BY DEF SigInv
<1> DEFINE n == Len(signalMap[s])
<1>3. /\ signalMap \in [SignalNumbers -> Seq(Contexts)]
      /\ n \in Nat /\ DOMAIN signalMap[s] = 1..n
      /\ DOMAIN signalMap'[s] = 1..(n + 1)
      /\ \A i \in 1..n : signalMap'[s][i] = signalMap[s][i]
      /\ signalMap'[s][n + 1] = c
      /\ \A t \in SignalNumbers : t # s => signalMap'[t] = signalMap[t]
  BY <1>1, <1>2, LenProperties, AppendProperties DEF SignalTypes
<1>4. \A t \in SignalNumbers : \A i \in DOMAIN signalMap[t] :
        signalMap[t][i] # c
  BY <1>1 DEF InUse, Range
<1> HIDE DEF n
<1>5. \A t \in SignalNumbers : \A i \in DOMAIN signalMap'[t] :
        \/ i \in DOMAIN signalMap[t] /\ signalMap'[t][i] = signalMap[t][i]
        \/ t = s /\ i = n + 1 /\ signalMap'[t][i] = c
  BY <1>3
<1>6. Placed'
  <2> SUFFICES ASSUME NEW t \in SignalNumbers, NEW u \in SignalNumbers,
                      NEW i \in DOMAIN signalMap'[t],
                      NEW j \in DOMAIN signalMap'[u],
                      signalMap'[t][i] = signalMap'[u][j]
               PROVE  t = u /\ i = j
    BY DEF Placed
  <2>1. QED  BY <1>4, <1>5 DEF WayInv, Placed
<1>7. \A d \in Contexts : ToMake(d)' = ToMake(d)
  <2>1. \A d \in Contexts : ToMake(d) = {}
    BY NoneToMake
  <2>2. DOMAIN handlers' = {}
    BY <1>1
  <2>3. QED  BY <2>1, <2>2 DEF ToMake, ToSubmit
<1>8. QED
  BY <1>1, <1>2, <1>6, <1>7, QuietStep DEF Outstanding

LEMMA OffOwed ==
    ASSUME SigInv, WayInv, handlers = <<>>, NEW s \in SignalNumbers, Off(s)
    PROVE  WayInv'
<1> DEFINE freed == Range(signalMap[s])
<1>1. /\ signalMap' = [signalMap EXCEPT ![s] = <<>>]
      /\ stale' = stale \cup {r \in Requests : ctxOf[r] \in freed}
      /\ owed' = [c \in Contexts |-> IF c \in freed THEN 0 ELSE owed[c]]
      /\ UNCHANGED <<where, kind, ctxOf, handlers>>
  BY DEF Off, ringVars
<1>2. SignalTypes  BY DEF SigInv
<1>3. \A i \in DOMAIN signalMap[s] : signalMap[s][i] \in Contexts
  BY <1>2, ListBound DEF WayInv
<1>4. freed \subseteq Contexts
  BY <1>3 DEF Range
<1> HIDE DEF freed
<1>5. Placed'
  <2>1. \A t \in SignalNumbers : signalMap'[t] \in {signalMap[t], <<>>}
    BY <1>1, <1>2 DEF SignalTypes
  <2>2. \A t \in SignalNumbers : \A i \in DOMAIN signalMap'[t] :
          i \in DOMAIN signalMap[t] /\ signalMap'[t][i] = signalMap[t][i]
    BY <2>1
  <2>3. QED  BY <2>2 DEF WayInv, Placed
<1>6. SignalsMarked'
  BY <1>1, <1>2, <1>4, ContextsAssumption
     DEF WayInv, SignalsMarked, SignalTypes
<1>7. Outstanding' = Outstanding
  BY <1>1 DEF Outstanding
<1>8. ASSUME NEW c \in Contexts
      PROVE  owed'[c] = Coming(c)'
  <2>1. ToMake(c) = {}
    BY NoneToMake
  <2>2. ToMake(c)' = {}
    <3>1. DOMAIN handlers' = {}
      BY <1>1
    <3>2. QED  BY <3>1 DEF ToMake, ToSubmit
  <2>3. CASE c \in freed
    <3>1. Requested(c)' = {}
      BY <1>1, <2>3 DEF Requested, Outstanding
    <3>2. owed'[c] = 0
      BY <1>1, <2>3
    <3>3. Coming(c)' = Cardinality({}) + Cardinality({})
      BY <2>2, <3>1, ComingIs
    <3>4. Cardinality({}) = 0  BY FS_EmptySet
    <3>5. QED  BY <3>2, <3>3, <3>4
  <2>4. CASE c \notin freed
    <3>1. Requested(c)' = Requested(c)
      BY <1>1, <1>7, <2>4 DEF Requested
    <3>2. owed'[c] = owed[c]
      BY <1>1, <2>4
    <3>3. QED  BY <2>1, <2>2, <3>1, <3>2, ComingIs DEF WayInv
  <2>5. QED  BY <2>3, <2>4
<1>9. QED  BY <1>5, <1>6, <1>8 DEF WayInv

LEMMA SamePairs ==
    ASSUME NEW S, NEW T, \A p \in S : p = <<p[1], p[2]>>,
           \A p \in T : p = <<p[1], p[2]>>,
           \A i, k : <<i, k>> \in S <=> <<i, k>> \in T
    PROVE  S = T
<1>1. \A p \in S : p \in T
  OBVIOUS
<1>2. \A p \in T : p \in S
  OBVIOUS
<1>3. QED  BY <1>1, <1>2

\* The requests on their way are the same, and so are the lists: what changes
\* is what handlers have to make.
LEMMA LeavesRequested ==
    ASSUME WayInv, UNCHANGED <<where, kind, ctxOf, stale, signalMap>>
    PROVE  /\ Placed' /\ SignalsMarked'
           /\ \A c : Requested(c)' = Requested(c)
BY DEF WayInv, Placed, SignalsMarked, Requested, Outstanding

\* A delivery: every listener is owed one call more, and its request is to be
\* made.
LEMMA HandlerEnterOwed ==
    ASSUME SigInv, WayInv, NEW s \in SignalNumbers, HandlerEnter(s)
    PROVE  WayInv'
<1> DEFINE h == [sig |-> s, pos |-> 1, req |-> None]
           n == Len(handlers) + 1
<1>1. /\ handlers' = Append(handlers, h)
      /\ owed' = [c \in Contexts |->
                    IF c \in Range(signalMap[s]) THEN owed[c] + 1 ELSE owed[c]]
      /\ UNCHANGED <<where, kind, ctxOf, stale, signalMap>>
  BY DEF HandlerEnter
<1>2. SignalTypes  BY DEF SigInv
<1>3. /\ Placed' /\ SignalsMarked'
      /\ \A c : Requested(c)' = Requested(c)
  BY <1>1, LeavesRequested
<1>4. /\ DOMAIN handlers = 1..Len(handlers) /\ Len(handlers) \in Nat
      /\ DOMAIN handlers' = 1..n
      /\ \A i \in DOMAIN handlers : handlers'[i] = handlers[i]
      /\ handlers'[n] = h
  <2>1. h \in HandlerFrames  BY DEF HandlerFrames
  <2>2. handlers \in Seq(HandlerFrames)  BY <1>2 DEF SignalTypes
  <2> HIDE DEF h
  <2>3. QED  BY <1>1, <2>1, <2>2, AppendProperties, LenProperties
<1>5. h.sig = s /\ h.pos = 1  OBVIOUS
<1> HIDE DEF h
<1>6. /\ DOMAIN signalMap[s] = 1..Len(signalMap[s])
      /\ Len(signalMap[s]) \in Nat /\ Cardinality(Contexts) \in Nat
      /\ Len(signalMap[s]) <= Cardinality(Contexts)
  BY <1>2, ListBound DEF WayInv
<1>7. ASSUME NEW c \in Contexts
      PROVE  /\ \A p \in ToMake(c)' : p = <<p[1], p[2]>>
             /\ \A i, k : <<i, k>> \in ToMake(c)' <=>
                  \/ <<i, k>> \in ToMake(c)
                  \/ i = n /\ k \in DOMAIN signalMap[s] /\ signalMap[s][k] = c
  <2>1. /\ \A p \in ToMake(c)' : p = <<p[1], p[2]>>
        /\ \A i, k : <<i, k>> \in ToMake(c)' <=>
             /\ i \in DOMAIN handlers' /\ k \in 1..Cardinality(Contexts)
             /\ k \in handlers'[i].pos..Len(signalMap'[handlers'[i].sig])
             /\ signalMap'[handlers'[i].sig][k] = c
    BY DEF ToMake, ToSubmit
  <2>2. \A i : i \in DOMAIN handlers' <=> i \in DOMAIN handlers \/ i = n
    BY <1>4
  <2>3. n \notin DOMAIN handlers
    BY <1>4
  <2>4. \A k : k \in DOMAIN signalMap[s] <=>
          k \in 1..Cardinality(Contexts) /\ k \in 1..Len(signalMap[s])
    BY <1>6
  <2>5. ASSUME NEW i, NEW k
        PROVE  <<i, k>> \in ToMake(c)' <=>
                  \/ <<i, k>> \in ToMake(c)
                  \/ i = n /\ k \in DOMAIN signalMap[s] /\ signalMap[s][k] = c
    <3>1. CASE i = n
      BY <1>1, <1>4, <1>5, <2>1, <2>2, <2>3, <2>4, <3>1, ToMakeIs
    <3>2. CASE i # n
      BY <1>1, <1>4, <2>1, <2>2, <3>2, ToMakeIs
    <3>3. QED  BY <3>1, <3>2
  <2>6. QED  BY <2>1, <2>5
<1>8. ASSUME NEW c \in Contexts
      PROVE  owed'[c] = Coming(c)'
  <2>1. \A p \in ToMake(c) : p = <<p[1], p[2]>>
    BY ToMakeIs
  <2>2. /\ owed[c] = Coming(c) /\ owed[c] \in Int
        /\ IsFiniteSet(ToMake(c)) /\ Cardinality(ToMake(c)) \in Nat
        /\ Cardinality(Requested(c)) \in Nat
    BY <1>2, WayFinite DEF WayInv, SignalTypes
  <2>3. CASE c \in Range(signalMap[s])
    <3>1. PICK k \in DOMAIN signalMap[s] : signalMap[s][k] = c
      BY <2>3 DEF Range
    <3>2. \A l \in DOMAIN signalMap[s] : signalMap[s][l] = c => l = k
      BY <3>1 DEF WayInv, Placed
    <3>3. ToMake(c)' = ToMake(c) \cup {<<n, k>>}
      <4>1. \A i, l : <<i, l>> \in ToMake(c)'
                        <=> <<i, l>> \in ToMake(c) \cup {<<n, k>>}
        BY <1>7, <3>1, <3>2
      <4>2. QED  BY <1>7, <2>1, <4>1
    <3>4. <<n, k>> \notin ToMake(c)
      BY <1>4, ToMakeIs
    <3>5. Cardinality(ToMake(c)') = Cardinality(ToMake(c)) + 1
      BY <2>2, <3>3, <3>4, FS_AddElement
    <3>6. owed'[c] = owed[c] + 1
      BY <1>1, <2>3
    <3>7. QED  BY <1>3, <2>2, <3>5, <3>6, ComingIs
  <2>4. CASE c \notin Range(signalMap[s])
    <3>1. \A k \in DOMAIN signalMap[s] : signalMap[s][k] # c
      BY <2>4 DEF Range
    <3>2. ToMake(c)' = ToMake(c)
      <4>1. \A i, l : <<i, l>> \in ToMake(c)' <=> <<i, l>> \in ToMake(c)
        BY <1>7, <3>1
      <4>2. \A p \in ToMake(c)' : p = <<p[1], p[2]>>
        BY <1>7
      <4>3. QED  BY <2>1, <4>1, <4>2, SamePairs, Zenon
    <3>3. owed'[c] = owed[c]
      BY <1>1, <2>4
    <3>4. QED  BY <1>3, <2>2, <3>2, <3>3, ComingIs
  <2>5. QED  BY <2>3, <2>4
<1>9. QED  BY <1>3, <1>8 DEF WayInv

\* The handler makes the request of its next listener.
LEMMA HandlerSubmitOwed ==
    ASSUME SigInv, WayInv, NEW r \in SignalRequests, HandlerSubmit(r),
           phase' # "crashed"
    PROVE  WayInv'
<1> DEFINE n == Len(handlers)
           s == handlers[n].sig
           k == handlers[n].pos
           b == signalMap[s][k]
           h == [sig |-> s, pos |-> k + 1, req |-> r]
<1>1. /\ phase # "crashed" /\ handlers # <<>> /\ r \in Requests
      /\ where[r] = "free" /\ k <= Len(signalMap[s])
      /\ where' = [where EXCEPT ![r] = "sq"]
      /\ kind' = [kind EXCEPT ![r] = "signal"]
      /\ handlers' = [handlers EXCEPT ![n] = h]
      /\ ctxOf' = [ctxOf EXCEPT ![r] = b]
      /\ UNCHANGED <<signalMap, stale, owed>>
  BY SignalRequestsAssumption DEF HandlerSubmit, TakeSqe, Top, Live, Ended
<1>2. SignalTypes /\ RingCore  BY DEF SigInv
<1>3. kind[r] = "none" /\ kind[r] # "signal"
  BY <1>1, <1>2 DEF RingCore, FreeIsNothing
<1>4. n \in DOMAIN handlers /\ handlers[n] \in HandlerFrames
  <2>1. n \in Nat /\ n # 0 /\ DOMAIN handlers = 1..n
    BY <1>1, <1>2, FrameTypes, EmptySeq, LenProperties DEF SignalTypes
  <2>2. QED  BY <1>2, <2>1, FrameTypes
<1>5. s \in SignalNumbers /\ k \in Nat \ {0} /\ h \in HandlerFrames
  BY <1>1, <1>4 DEF HandlerFrames
<1>6. h.sig = s /\ h.pos = k + 1  OBVIOUS
<1>7. /\ DOMAIN handlers' = DOMAIN handlers /\ handlers'[n] = h
      /\ \A i \in DOMAIN handlers : i # n => handlers'[i] = handlers[i]
  <2> HIDE DEF h
  <2>1. QED  BY <1>1, <1>2, <1>5, TopGoesOn
<1>8. /\ DOMAIN signalMap[s] = 1..Len(signalMap[s])
      /\ Len(signalMap[s]) \in Nat /\ Cardinality(Contexts) \in Nat
      /\ Len(signalMap[s]) <= Cardinality(Contexts)
      /\ k \in DOMAIN signalMap[s] /\ b \in Contexts
  BY <1>1, <1>2, <1>5, ListBound DEF WayInv
<1>9. b # None  BY <1>8, ContextsAssumption
<1> HIDE DEF h, b, s, k
<1>10. Placed' /\ SignalsMarked'
  <2>1. Placed'  BY <1>1 DEF WayInv, Placed
  <2>2. SignalsMarked'
    BY <1>1, <1>2, <1>9 DEF WayInv, SignalsMarked, RingCore, SignalTypes
  <2>3. QED  BY <2>1, <2>2
<1>11. ASSUME NEW c \in Contexts
       PROVE  ToMake(c)' = ToMake(c) \ {<<n, k>>}
  <2>1. /\ \A p \in ToMake(c)' : p = <<p[1], p[2]>>
        /\ \A i, l : <<i, l>> \in ToMake(c)' <=>
             /\ i \in DOMAIN handlers' /\ l \in 1..Cardinality(Contexts)
             /\ l \in handlers'[i].pos..Len(signalMap'[handlers'[i].sig])
             /\ signalMap'[handlers'[i].sig][l] = c
    BY DEF ToMake, ToSubmit
  <2>2. ASSUME NEW i, NEW l
        PROVE  <<i, l>> \in ToMake(c)' <=>
                 <<i, l>> \in ToMake(c) /\ ~(i = n /\ l = k)
    <3>1. CASE i = n
      <4>1. l \in (k + 1)..Len(signalMap[s])
              <=> l \in k..Len(signalMap[s]) /\ l # k
        BY <1>5, <1>8
      <4>2. /\ <<i, l>> \in ToMake(c)' <=>
               /\ l \in 1..Cardinality(Contexts)
               /\ l \in (k + 1)..Len(signalMap[s])
               /\ signalMap[s][l] = c
        BY <1>1, <1>4, <1>6, <1>7, <2>1, <3>1
      <4>3. /\ <<i, l>> \in ToMake(c) <=>
               /\ l \in 1..Cardinality(Contexts)
               /\ l \in k..Len(signalMap[s])
               /\ signalMap[s][l] = c
        BY <1>4, <3>1, ToMakeIs DEF s, k
      <4>4. QED  BY <3>1, <4>1, <4>2, <4>3
    <3>2. CASE i # n
      <4>1. signalMap' = signalMap  BY <1>1
      <4>2. /\ i \in DOMAIN handlers' <=> i \in DOMAIN handlers
            /\ i \in DOMAIN handlers => handlers'[i] = handlers[i]
        BY <1>7, <3>2
      <4>3. <<i, l>> \in ToMake(c) <=>
              /\ i \in DOMAIN handlers /\ l \in 1..Cardinality(Contexts)
              /\ l \in handlers[i].pos..Len(signalMap[handlers[i].sig])
              /\ signalMap[handlers[i].sig][l] = c
        BY ToMakeIs
      <4>4. <<i, l>> \in ToMake(c)' <=> <<i, l>> \in ToMake(c)
        BY <2>1, <4>1, <4>2, <4>3
      <4>5. QED  BY <3>2, <4>4
    <3>3. QED  BY <3>1, <3>2
  <2>3. \A p \in ToMake(c) : p = <<p[1], p[2]>>
    BY ToMakeIs
  <2>4. \A i, l : <<i, l>> \in ToMake(c)'
                    <=> <<i, l>> \in ToMake(c) \ {<<n, k>>}
    BY <2>2
  <2>5. QED  BY <2>1, <2>3, <2>4
<1>12. \A c \in Contexts : <<n, k>> \in ToMake(c) <=> c = b
  <2>1. k \in 1..Cardinality(Contexts) /\ k \in k..Len(signalMap[s])
    BY <1>5, <1>8
  <2>2. QED  BY <1>4, <2>1, ToMakeIs DEF b, s, k
<1>13. Outstanding' = Outstanding \cup {r} /\ r \notin Outstanding
  BY <1>1, <1>2 DEF Outstanding, RingCore
<1>14. r \notin stale
  BY <1>3 DEF WayInv, SignalsMarked
<1>15. ASSUME NEW c \in Contexts
       PROVE  owed'[c] = Coming(c)'
  <2>1. /\ owed'[c] = Coming(c)
        /\ IsFiniteSet(ToMake(c)) /\ Cardinality(ToMake(c)) \in Nat
        /\ IsFiniteSet(Requested(c)) /\ Cardinality(Requested(c)) \in Nat
    BY <1>1, <1>2, WayFinite DEF WayInv
  <2>2. \A q \in Outstanding : ctxOf'[q] = ctxOf[q]
    BY <1>1, <1>2, <1>13 DEF SignalTypes, Outstanding
  <2>3. ctxOf'[r] = b
    BY <1>1, <1>2 DEF SignalTypes
  <2>4. CASE c = b
    <3>1. Requested(c)' = Requested(c) \cup {r} /\ r \notin Requested(c)
      BY <1>1, <1>13, <1>14, <2>2, <2>3, <2>4 DEF Requested
    <3>2. Cardinality(Requested(c)') = Cardinality(Requested(c)) + 1
      BY <2>1, <3>1, FS_AddElement
    <3>3. Cardinality(ToMake(c)') = Cardinality(ToMake(c)) - 1
      BY <1>11, <1>12, <2>1, <2>4, FS_RemoveElement
    <3>4. QED  BY <2>1, <3>2, <3>3, ComingIs
  <2>5. CASE c # b
    <3>1. Requested(c)' = Requested(c)
      BY <1>1, <1>13, <2>2, <2>3, <2>5 DEF Requested
    <3>2. ToMake(c)' = ToMake(c)
      BY <1>11, <1>12, <2>5
    <3>3. QED  BY <2>1, <3>1, <3>2, ComingIs
  <2>6. QED  BY <2>4, <2>5
<1>16. QED  BY <1>10, <1>15 DEF WayInv

\* The innermost handler is gone; the others stand still.
LEMMA TopReturns ==
    ASSUME SignalTypes, handlers # <<>>,
           handlers' = SubSeq(handlers, 1, Len(handlers) - 1)
    PROVE  /\ handlers' \in Seq(HandlerFrames)
           /\ \A i : i \in DOMAIN handlers'
                       <=> i \in DOMAIN handlers /\ i # Len(handlers)
           /\ \A i \in DOMAIN handlers' : handlers'[i] = handlers[i]
<1> DEFINE n == Len(handlers)
<1>1. /\ n \in Nat /\ n # 0 /\ DOMAIN handlers = 1..n
      /\ handlers \in Seq(HandlerFrames)
  BY FrameTypes, EmptySeq, LenProperties DEF SignalTypes
<1>2. \A i \in 1..(n - 1) : handlers[i] \in HandlerFrames
  BY <1>1, FrameTypes
<1>3. /\ handlers' \in Seq(HandlerFrames) /\ Len(handlers') = n - 1
      /\ \A i \in 1..(n - 1) : handlers'[i] = handlers[i]
  BY <1>1, <1>2, SubSeqProperties
<1>4. DOMAIN handlers' = 1..(n - 1)
  BY <1>3, LenProperties
<1> HIDE DEF n
<1>5. \A i : i \in 1..(n - 1) <=> i \in 1..n /\ i # n
  BY <1>1
<1>6. QED  BY <1>1, <1>3, <1>4, <1>5 DEF n

\* The handler's request is counted: what is left to make is the same.
LEMMA HandlerSubmittedOwed ==
    ASSUME SigInv, WayInv, HandlerSubmitted
    PROVE  WayInv'
<1> DEFINE n == Len(handlers)
           q == handlers[n].req
           h == [handlers[n] EXCEPT !.req = None]
<1>1. /\ phase # "crashed" /\ handlers # <<>> /\ q # None
      /\ CountAndEnter(q) /\ handlers' = [handlers EXCEPT ![n] = h]
      /\ UNCHANGED <<kind, ctxOf, stale, owed, signalMap>>
  BY DEF HandlerSubmitted, Live, Ended, Top
<1>2. SignalTypes /\ RingCore /\ SqeInv
  BY <1>1 DEF SigInv
<1>3. n \in DOMAIN handlers /\ handlers[n] \in HandlerFrames
  <2>1. n \in Nat /\ n # 0 /\ DOMAIN handlers = 1..n
    BY <1>1, <1>2, FrameTypes, EmptySeq, LenProperties DEF SignalTypes
  <2>2. QED  BY <1>2, <2>1, FrameTypes
<1>4. /\ h \in HandlerFrames /\ q \in Requests /\ where[q] = "sq"
      /\ h.sig = handlers[n].sig /\ h.pos = handlers[n].pos
  BY <1>1, <1>2, <1>3 DEF HandlerFrames, SqeInv
<1>5. Outstanding' = Outstanding
  <2> HIDE DEF q
  <2>1. QED  BY <1>1, <1>2, <1>4, CountOwed
<1>6. /\ DOMAIN handlers' = DOMAIN handlers
      /\ \A i \in DOMAIN handlers : handlers'[i].sig = handlers[i].sig
                                    /\ handlers'[i].pos = handlers[i].pos
  <2> HIDE DEF h
  <2>1. QED  BY <1>1, <1>2, <1>4, TopGoesOn
<1>7. Placed'  BY <1>1 DEF WayInv, Placed
<1>8. ToSubmit' = ToSubmit
  BY <1>1, <1>6 DEF ToSubmit
<1>9. \A p \in ToSubmit : p[1] \in DOMAIN handlers
  BY DEF ToSubmit
<1>10. \A c \in Contexts : ToMake(c)' = ToMake(c)
  BY <1>1, <1>6, <1>8, <1>9 DEF ToMake
<1>11. QED  BY <1>1, <1>2, <1>5, <1>7, <1>10, QuietStep

\* A handler that returns has nothing left to make.
LEMMA HandlerReturnOwed ==
    ASSUME SigInv, WayInv, HandlerReturn
    PROVE  WayInv'
<1> DEFINE n == Len(handlers)
<1>1. /\ handlers # <<>> /\ handlers[n].pos > Len(signalMap[handlers[n].sig])
      /\ handlers' = SubSeq(handlers, 1, n - 1)
      /\ UNCHANGED <<where, kind, ctxOf, stale, owed, signalMap>>
  BY DEF HandlerReturn, Top, ringVars
<1>2. SignalTypes  BY DEF SigInv
<1>3. /\ \A i : i \in DOMAIN handlers' <=> i \in DOMAIN handlers /\ i # n
      /\ \A i \in DOMAIN handlers' : handlers'[i] = handlers[i]
  BY <1>1, <1>2, TopReturns
<1>4. Placed'  BY <1>1 DEF WayInv, Placed
<1>5. ASSUME NEW c \in Contexts
      PROVE  ToMake(c)' = ToMake(c)
  <2>1. /\ \A p \in ToMake(c)' : p = <<p[1], p[2]>>
        /\ \A i, k : <<i, k>> \in ToMake(c)' <=>
             /\ i \in DOMAIN handlers' /\ k \in 1..Cardinality(Contexts)
             /\ k \in handlers'[i].pos..Len(signalMap'[handlers'[i].sig])
             /\ signalMap'[handlers'[i].sig][k] = c
    BY DEF ToMake, ToSubmit
  <2>2. ASSUME n \in DOMAIN handlers, NEW k
        PROVE  k \notin handlers[n].pos..Len(signalMap[handlers[n].sig])
    <3>1. handlers[n] \in HandlerFrames
      BY <1>2, <2>2, FrameTypes
    <3>2. handlers[n].pos \in Nat /\ handlers[n].sig \in SignalNumbers
      BY <3>1 DEF HandlerFrames
    <3>3. Len(signalMap[handlers[n].sig]) \in Nat
      BY <1>2, <3>2, LenProperties DEF SignalTypes
    <3>4. QED  BY <1>1, <3>2, <3>3
  <2>3. ASSUME NEW i, NEW k
        PROVE  <<i, k>> \in ToMake(c)' <=> <<i, k>> \in ToMake(c)
    <3>1. <<i, k>> \in ToMake(c) <=>
            /\ i \in DOMAIN handlers /\ k \in 1..Cardinality(Contexts)
            /\ k \in handlers[i].pos..Len(signalMap[handlers[i].sig])
            /\ signalMap[handlers[i].sig][k] = c
      BY ToMakeIs
    <3>2. CASE i = n
      <4>1. <<i, k>> \notin ToMake(c)
        BY <2>2, <3>1, <3>2
      <4>2. <<i, k>> \notin ToMake(c)'
        BY <1>3, <2>1, <3>2
      <4>3. QED  BY <4>1, <4>2
    <3>3. CASE i # n
      <4>1. signalMap' = signalMap  BY <1>1
      <4>2. /\ i \in DOMAIN handlers' <=> i \in DOMAIN handlers
            /\ i \in DOMAIN handlers => handlers'[i] = handlers[i]
        BY <1>3, <3>3
      <4>3. QED  BY <2>1, <3>1, <4>1, <4>2
    <3>4. QED  BY <3>2, <3>3
  <2>4. \A p \in ToMake(c) : p = <<p[1], p[2]>>
    BY ToMakeIs
  <2>5. QED  BY <2>1, <2>3, <2>4, SamePairs
<1>6. QED
  BY <1>1, <1>2, <1>4, <1>5, QuietStep DEF Outstanding

LEMMA InitOwed == SignalsInit => OwedInv
<1> SUFFICES ASSUME SignalsInit PROVE WayInv
  BY DEF OwedInv
<1>1. /\ where = [r \in Requests |-> "free"]
      /\ kind = [r \in Requests |-> "none"]
      /\ signalMap = [s \in SignalNumbers |-> <<>>] /\ handlers = <<>>
      /\ stale = {} /\ ctxOf = [r \in Requests |-> None]
      /\ owed = [c \in Contexts |-> 0]
  BY DEF SignalsInit, RingInit
<1>2. Placed /\ SignalsMarked
  BY <1>1 DEF Placed, SignalsMarked
<1>3. ASSUME NEW c \in Contexts
      PROVE  owed[c] = Coming(c)
  <2>1. Requested(c) = {} /\ ToMake(c) = {}
    BY <1>1, NoneToMake DEF Requested, Outstanding
  <2>2. Coming(c) = Cardinality({}) + Cardinality({})
    BY <2>1, ComingIs
  <2>3. Cardinality({}) = 0  BY FS_EmptySet
  <2>4. QED  BY <1>1, <2>2, <2>3
<1>4. QED  BY <1>2, <1>3 DEF WayInv

LEMMA OwedStep == SigInv /\ OwedInv /\ [SignalsNext]_signalsVars => OwedInv'
<1> SUFFICES ASSUME SigInv, OwedInv, [SignalsNext]_signalsVars,
                    phase' # "crashed"
             PROVE  WayInv'
  BY DEF OwedInv
<1>1. CASE handlers = <<>> /\ ThreadStep
  <2>1. phase # "crashed" /\ WayInv
    BY <1>1 DEF OwedInv, ThreadStep, LoopCheck, Enter, Wake, Release, DrainDone,
                EndSubmit, RearmListener, LoadPending, ReapIO, ReapSignal,
                ReapStale, StorePending, SignalCbDone
  <2>2. CASE (LoopCheck \/ Enter \/ Wake \/ DrainDone) /\ UNCHANGED signalVars
    BY <2>1, <2>2, ThreadOwed
  <2>3. CASE Release /\ UNCHANGED signalVars
    BY <2>1, <2>3, ReleaseOwed
  <2>4. CASE EndSubmit
    BY <2>1, <2>4, EndSubmitOwed
  <2>5. CASE RearmListener
    <3>1. /\ phase = "after" /\ kind[cur] \in Listeners
          /\ BeginSubmit(cur, kind[cur], "drain")
      BY <2>5 DEF RearmListener
    <3>2. cur \in Requests
      BY <3>1 DEF SigInv, CallbackInv, SignalTypes
    <3>3. kind[cur] \in IOKinds /\ kind[cur] # "signal"
      BY <3>1, SignalKinds
    <3>4. QED  BY <2>1, <3>1, <3>2, <3>3, BeginSubmitOwed
  <2>6. CASE LoadPending
    BY <2>1, <2>6, ThreadOwed
  <2>7. CASE ReapIO \/ ReapSignal \/ ReapStale
    BY <2>1, <2>7, ReapOwed
  <2>8. CASE SignalCbDone
    BY <2>1, <2>8, SignalCbDoneOwed
  <2>9. QED
    BY <1>1, <2>2, <2>3, <2>4, <2>5, <2>6, <2>7, <2>8 DEF ThreadStep
<1>2. CASE handlers = <<>> /\ (ProgramStep \/ ReturnStep)
  <2>1. phase # "crashed" /\ WayInv
    BY <1>2 DEF OwedInv, ProgramStep, ReturnStep, Operate, On, Off, Terminate,
                JSReturn
  <2>2. ASSUME NEW r \in Requests \ SignalRequests, NEW k \in Operations,
               Operate(r, k)
        PROVE  WayInv'
    <3>1. where[r] = "free" /\ BeginSubmit(r, k, "js")
      BY <2>2 DEF Operate
    <3>2. kind[r] = "none" /\ k \in IOKinds
      BY <3>1, SignalKinds DEF SigInv, RingCore, FreeIsNothing
    <3>3. QED  BY <2>1, <3>1, <3>2, BeginSubmitOwed
  <2>3. ASSUME NEW s \in SignalNumbers, Off(s)
        PROVE  WayInv'
    BY <1>2, <2>1, <2>3, OffOwed
  <2>4. ASSUME NEW s \in SignalNumbers, NEW c \in Contexts, On(s, c)
        PROVE  WayInv'
    BY <1>2, <2>1, <2>4, OnOwed
  <2>5. CASE (Terminate \/ JSReturn) /\ UNCHANGED signalVars
    BY <2>1, <2>5, ThreadOwed
  <2>6. QED
    BY <1>2, <2>2, <2>3, <2>4, <2>5 DEF ProgramStep, ReturnStep
<1>3. CASE HandlerStep
  <2>1. phase # "crashed" /\ WayInv
    BY <1>3 DEF OwedInv, HandlerStep, HandlerSubmit, HandlerSubmitted,
                HandlerReturn, Live, Ended
  <2>2. QED
    BY <1>3, <2>1, HandlerSubmitOwed, HandlerSubmittedOwed, HandlerReturnOwed
       DEF HandlerStep
<1>4. CASE \E s \in SignalNumbers : HandlerEnter(s)
  <2>1. WayInv  BY <1>4 DEF OwedInv, HandlerEnter, Live, Ended
  <2>2. QED  BY <1>4, <2>1, HandlerEnterOwed
<1>5. CASE \/ \E r \in Requests : Complete(r) /\ UNCHANGED signalVars
           \/ (Interrupted \/ Over) /\ UNCHANGED signalVars
  <2>1. phase # "crashed" /\ WayInv
    BY <1>5 DEF OwedInv, Complete, Interrupted, Over, Live, Ended, ringVars
  <2>2. QED  BY <1>5, <2>1, ThreadOwed
<1>6. CASE UNCHANGED signalsVars
  BY <1>6 DEF OwedInv, WayInv, Placed, SignalsMarked, Coming, ToSubmit,
              Outstanding, signalsVars, signalVars, ringVars
<1>7. QED
  BY <1>1, <1>2, <1>3, <1>4, <1>5, <1>6 DEF SignalsNext

\* Each delivery of a signal reaches each of its listeners (signal.cc:17)
\* exactly once: what a listener was not called for is a request with its
\* context, or one that a running handler has still to make.
THEOREM OwedComes == SignalsSpec => []OwedIsComing
<1>1. SigInv /\ OwedInv => OwedIsComing
  BY DEF OwedInv, WayInv, OwedIsComing
<1>2. SignalsSpec => []OwedInv
  BY InitOwed, OwedStep, SigInvariance, PTL DEF SignalsSpec
<1>3. QED  BY <1>1, <1>2, SigInvariance, PTL
=============================================================================
