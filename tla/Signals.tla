------------------------------- MODULE Signals -------------------------------
(***************************************************************************)
(* core/signal.cc on the event loop, with the steps of the thread that a   *)
(* signal handler can interrupt: inside SubmitRequest, between its sqe and *)
(* the system call, and inside the `--pending` of RunIOUring, which the    *)
(* build (Makefile:3, no optimisation) compiles to a load and a store.     *)
(*                                                                         *)
(* While a handler runs the thread stands still.  Handlers nest, but a     *)
(* signal is blocked while its own handler runs (glibc's signal()).        *)
(* SubmitRequest is written out for the handler as well, so that another   *)
(* handler can interrupt it there.                                         *)
(*                                                                         *)
(* A context is a piece of memory: off frees it, and a later on may get    *)
(* the same one.  The requests of the old listener still point to it.      *)
(***************************************************************************)
EXTENDS EventLoop

CONSTANTS
    SignalRequests,  \* the requests of handlers, of Requests (the bound)
    Operations,      \* the kinds of request the program makes (the bound)
    SignalNumbers,
    Contexts,        \* the contexts that can exist at once (the bound)
    MaxLost          \* increments that may be overwritten (the bound)

ASSUME SignalRequestsAssumption == SignalRequests \subseteq Requests
ASSUME OperationsAssumption == Operations \subseteq IOKinds
ASSUME SignalAssumption == None \notin SignalNumbers
ASSUME ContextsAssumption == IsFiniteSet(Contexts) /\ None \notin Contexts
ASSUME MaxLostAssumption == MaxLost \in Nat

VARIABLES
    signalMap,  \* the contexts of a signal, in order; empty when absent
    handlers,   \* the running handlers, the innermost last
    submitting, \* the request the thread has an sqe for, and what follows
    loaded,     \* the value `--pending` has read
    ctxOf,      \* the context in the data of a signal's request
    stale,      \* history: signal requests whose context has been freed
    owed,       \* history: the signals a listener has not been called for
    lost        \* history: increments of handlers that were overwritten

signalVars == <<signalMap, handlers, submitting, loaded, ctxOf, stale, owed,
                lost>>
signalsVars == <<ringVars, signalVars>>

NotSubmitting == [req |-> None, next |-> "js"]

SignalsInit ==
    /\ RingInit
    /\ signalMap = [s \in SignalNumbers |-> <<>>]
    /\ handlers = <<>> /\ submitting = NotSubmitting /\ loaded = 0
    /\ ctxOf = [r \in Requests |-> None]
    /\ stale = {} /\ owed = [c \in Contexts |-> 0] /\ lost = 0

InUse == UNION {Range(signalMap[s]) : s \in SignalNumbers}

-----------------------------------------------------------------------------
(* The two halves of SubmitRequest.  Between them the sqe is taken, but the *)
(* kernel does not have it, and the request is not counted.                 *)

\* io_uring_get_sqe and the filling of what it returns; NULL if the only
\* entry is taken, by whomever.
TakeSqe(r, k) ==
    IF At("sq") # {}
    THEN phase' = "crashed" /\ UNCHANGED <<where, kind>>
    ELSE /\ where' = [where EXCEPT ![r] = "sq"]
         /\ kind' = [kind EXCEPT ![r] = k]

\* Mutant: counts only what the kernel took.
CountAndEnterTaken(r) ==
    /\ pending' = IF Refused THEN pending ELSE pending + 1
    /\ where' = [where EXCEPT ![r] = IF Refused THEN "sq" ELSE "kernel"]
    /\ ready' = IF RefuseWhenBacklogged THEN Flushed ELSE ready

\* ++pending and io_uring_submit, for request r.
CountAndEnter(r) ==
    /\ pending' = pending + 1
    /\ where' = [where EXCEPT ![r] = IF Refused THEN "sq" ELSE "kernel"]
    /\ ready' = IF RefuseWhenBacklogged THEN Flushed ELSE ready

\* The thread begins to submit r, and will go on in phase ph.
BeginSubmit(r, k, ph) ==
    /\ TakeSqe(r, k)
    /\ IF At("sq") = {}
       THEN phase' = "submit" /\ submitting' = [req |-> r, next |-> ph]
       ELSE UNCHANGED submitting
    /\ UNCHANGED <<cur, pending, cq, ready, signalMap, handlers, loaded, ctxOf,
                   stale, owed, lost>>

EndSubmit ==
    /\ phase = "submit"
    /\ CountAndEnter(submitting.req)
    /\ phase' = submitting.next
    /\ cur' = IF phase' = "drain" THEN None ELSE cur
    /\ submitting' = NotSubmitting
    /\ UNCHANGED <<kind, cq, signalMap, handlers, loaded, ctxOf, stale, owed,
                   lost>>

\* The asynchronous operations of EventLoop, and the re-submission of a
\* listener.
Operate(r, k) ==
    /\ phase = "js" /\ where[r] = "free"
    /\ BeginSubmit(r, k, "js")

RearmListener ==
    /\ phase = "after" /\ kind[cur] \in Listeners
    /\ BeginSubmit(cur, kind[cur], "drain")

-----------------------------------------------------------------------------
\* signal.on: another listener of the signal.  The handler is installed before
\* the first listener is in the map; a signal in between finds nothing, as one
\* does after off.
On(s, c) ==
    /\ phase = "js" /\ c \notin InUse
    /\ signalMap' = [signalMap EXCEPT ![s] = Append(@, c)]
    /\ UNCHANGED <<ringVars, handlers, submitting, loaded, ctxOf, stale, owed,
                   lost>>

\* signal.off frees the contexts of all listeners of the signal; the handler
\* stays, and requests of these listeners may be in the ring.
Off(s) ==
    /\ phase = "js" /\ signalMap[s] # <<>>
    /\ signalMap' = [signalMap EXCEPT ![s] = <<>>]
    /\ stale' = stale \cup {r \in Requests : ctxOf[r] \in Range(signalMap[s])}
    /\ owed' = [c \in Contexts |->
                  IF c \in Range(signalMap[s]) THEN 0 ELSE owed[c]]
    /\ UNCHANGED <<ringVars, handlers, submitting, loaded, ctxOf, lost>>

-----------------------------------------------------------------------------
\* What running handlers still have to submit: frame and listener.
ToSubmit == {p \in (DOMAIN handlers) \X (1..Cardinality(Contexts)) :
               p[2] \in handlers[p[1]].pos..Len(signalMap[handlers[p[1]].sig])}

\* The bounds leave room for one more run of the handler of s.
Room(s) ==
    LET submissions == Cardinality(ToSubmit) + Len(signalMap[s])
    IN  /\ submissions <= Cardinality(At("free") \cap SignalRequests)
        /\ phase = "uncount" =>
              lost + (pending - loaded) + submissions <= MaxLost

Top == handlers[Len(handlers)]

\* Signal s is delivered: its handler interrupts whatever runs, and ends a
\* wait.  One that finds no listeners does no more than that: Interrupted.
HandlerEnter(s) ==
    /\ Live /\ signalMap[s] # <<>>
    /\ \A i \in DOMAIN handlers : handlers[i].sig # s
    /\ Room(s)
    /\ handlers' = Append(handlers, [sig |-> s, pos |-> 1, req |-> None])
    /\ owed' = [c \in Contexts |->
                  IF c \in Range(signalMap[s]) THEN owed[c] + 1 ELSE owed[c]]
    /\ phase' = IF phase = "wait" THEN "drain" ELSE phase
    /\ UNCHANGED <<cur, pending, where, kind, cq, ready, signalMap, submitting,
                   loaded, ctxOf, stale, lost>>

\* Mutant: the handler stops after the first listener.
HandlerSubmitFirst(r) ==
    /\ Live /\ handlers # <<>> /\ Top.req = None
    /\ Top.pos <= Len(signalMap[Top.sig])
    /\ r \in SignalRequests /\ where[r] = "free"
    /\ TakeSqe(r, "signal")
    /\ IF At("sq") = {}
       THEN /\ handlers' = [handlers EXCEPT ![Len(handlers)] =
                 [sig |-> Top.sig, pos |-> Len(signalMap[Top.sig]) + 1,
                  req |-> r]]
            /\ ctxOf' = [ctxOf EXCEPT ![r] = signalMap[Top.sig][Top.pos]]
            /\ UNCHANGED phase
       ELSE UNCHANGED <<handlers, ctxOf>>
    /\ UNCHANGED <<cur, pending, cq, ready, signalMap, submitting, loaded,
                   stale, owed, lost>>

\* The handler makes a request for the next listener and takes an sqe ...
HandlerSubmit(r) ==
    /\ Live /\ handlers # <<>> /\ Top.req = None
    /\ Top.pos <= Len(signalMap[Top.sig])
    /\ r \in SignalRequests /\ where[r] = "free"
    /\ TakeSqe(r, "signal")
    /\ IF At("sq") = {}
       THEN /\ handlers' = [handlers EXCEPT ![Len(handlers)] =
                              [sig |-> Top.sig, pos |-> Top.pos + 1, req |-> r]]
            /\ ctxOf' = [ctxOf EXCEPT ![r] = signalMap[Top.sig][Top.pos]]
            /\ UNCHANGED phase
       ELSE UNCHANGED <<handlers, ctxOf>>
    /\ UNCHANGED <<cur, pending, cq, ready, signalMap, submitting, loaded,
                   stale, owed, lost>>

\* ... counts it and enters the kernel.
HandlerSubmitted ==
    /\ Live /\ handlers # <<>> /\ Top.req # None
    /\ CountAndEnter(Top.req)
    /\ handlers' = [handlers EXCEPT ![Len(handlers)] =
                              [Top EXCEPT !.req = None]]
    /\ UNCHANGED <<phase, cur, kind, cq, signalMap, submitting, loaded, ctxOf,
                   stale, owed, lost>>

HandlerReturn ==
    /\ Live /\ handlers # <<>> /\ Top.req = None
    /\ Top.pos > Len(signalMap[Top.sig])
    /\ handlers' = SubSeq(handlers, 1, Len(handlers) - 1)
    /\ UNCHANGED <<ringVars, signalMap, submitting, loaded, ctxOf, stale, owed,
                   lost>>

-----------------------------------------------------------------------------
\* The load of `--pending`, when a completion is there.
LoadPending ==
    /\ phase = "drain" /\ ready > 0
    /\ phase' = "uncount" /\ loaded' = pending
    /\ UNCHANGED <<cur, pending, where, kind, cq, ready, signalMap, handlers,
                   submitting, ctxOf, stale, owed, lost>>

\* The store, which overwrites what handlers have counted in between.
StorePending ==
    /\ phase = "uncount"
    /\ pending' = loaded - 1
    /\ lost' = lost + (pending - loaded)
    /\ loaded' = 0

\* The callback of another request: makeCallback or openAfter.
ReapIO ==
    /\ StorePending /\ kind[Head(cq)] \in IOKinds
    /\ CallBack(IF kind[Head(cq)] \in CallsJS THEN "js" ELSE "after")
    /\ UNCHANGED <<signalMap, handlers, submitting, ctxOf, stale,
                   owed>>

\* signal_cb, with a context that is good: the listener is called.
ReapSignal ==
    /\ StorePending /\ kind[Head(cq)] = "signal" /\ Head(cq) \notin stale
    /\ CallBack("js")
    /\ owed' = [owed EXCEPT ![ctxOf[Head(cq)]] = @ - 1]
    /\ UNCHANGED <<signalMap, handlers, submitting, ctxOf, stale>>

\* signal_cb, with a context that was freed: the listener that got the same
\* memory is called; else the memory has an empty object, or anything.
ReapStale ==
    /\ StorePending /\ kind[Head(cq)] = "signal" /\ Head(cq) \in stale
    /\ \E ph \in IF ctxOf[Head(cq)] \in InUse
                 THEN {"js"} ELSE {"after", "crashed"} : CallBack(ph)
    /\ UNCHANGED <<signalMap, handlers, submitting, ctxOf, stale,
                   owed>>

\* The end of signal_cb: the request is freed, never submitted again.
SignalCbDone ==
    /\ phase = "after" /\ kind[cur] = "signal"
    /\ Free
    /\ ctxOf' = [ctxOf EXCEPT ![cur] = None]
    /\ stale' = stale \ {cur}
    /\ UNCHANGED <<pending, cq, ready, signalMap, handlers, submitting, loaded,
                   owed, lost>>

-----------------------------------------------------------------------------
\* The steps of the thread that it takes by itself ...
ThreadStep ==
    \/ (LoopCheck \/ Enter \/ Wake \/ Release \/ DrainDone)
         /\ UNCHANGED signalVars
    \/ EndSubmit \/ RearmListener
    \/ LoadPending \/ ReapIO \/ ReapSignal \/ ReapStale \/ SignalCbDone

\* ... and those of JavaScript.
ProgramStep ==
    \/ \E r \in Requests \ SignalRequests, k \in Operations : Operate(r, k)
    \/ \E s \in SignalNumbers : Off(s) \/ \E c \in Contexts : On(s, c)
    \/ Terminate /\ UNCHANGED signalVars

ReturnStep == JSReturn /\ UNCHANGED signalVars

HandlerStep ==
    \/ \E r \in SignalRequests : HandlerSubmit(r)
    \/ HandlerSubmitted
    \/ HandlerReturn

SignalsNext ==
    \/ handlers = <<>> /\ (ThreadStep \/ ProgramStep \/ ReturnStep)
    \/ HandlerStep
    \/ \E s \in SignalNumbers : HandlerEnter(s)
    \/ \E r \in Requests : Complete(r) /\ UNCHANGED signalVars
    \/ Interrupted /\ UNCHANGED signalVars
    \/ Over /\ UNCHANGED signalVars

SignalsSpec == SignalsInit /\ [][SignalsNext]_signalsVars

\* The thread runs between signals, however many come; callbacks return;
\* handlers go on; the kernel completes a NOP.
SignalsFairness ==
    /\ SF_signalsVars(handlers = <<>> /\ ThreadStep)
    /\ SF_signalsVars(handlers = <<>> /\ ReturnStep)
    /\ WF_signalsVars(HandlerStep)
    /\ \A r \in SignalRequests :
         WF_signalsVars(Complete(r) /\ UNCHANGED signalVars)

SignalsFairSpec == SignalsSpec /\ SignalsFairness
-----------------------------------------------------------------------------
(* Properties *)

\* The requests that have an sqe and are not counted: of the thread, and of
\* handlers.
Uncounted == ({submitting.req} \cup {handlers[i].req : i \in DOMAIN handlers})
               \ {None}

HandlerFrames == [sig : SignalNumbers, pos : Nat \ {0},
                  req : Requests \cup {None}]

\* Types of the state.
SignalsTypeOK ==
    /\ RingTypeOK
    /\ phase \in Phases \cup {"submit", "uncount"}
    /\ signalMap \in [SignalNumbers -> Seq(Contexts)]
    /\ handlers \in Seq(HandlerFrames)
    /\ submitting \in [req : Requests \cup {None}, next : {"js", "drain"}]
    /\ loaded \in Int /\ lost \in Nat
    /\ ctxOf \in [Requests -> Contexts \cup {None}]
    /\ stale \subseteq Requests
    /\ owed \in [Contexts -> Int]

\* With handlers that submit anywhere inside RunIOUring (io_uring.cc:101) and
\* SubmitRequest (75), `pending` is short by exactly the increments that the
\* store of `--pending` has overwritten: it never counts too much.
ShortByLost ==
    phase # "crashed" => Balance + lost + Cardinality(Uncounted) = 0

\* What every listener has coming: the requests with its context, and those
\* that running handlers have still to make.
Coming(c) == Cardinality({r \in Outstanding \ stale : ctxOf[r] = c})
               + Cardinality({p \in ToSubmit :
                                signalMap[handlers[p[1]].sig][p[2]] = c})

\* Each delivery of a signal reaches each of its listeners (signal.cc:17)
\* exactly once, in spite of nested handlers, on and off, and other requests:
\* what a listener was not called for yet is on the way to it.
OwedIsComing ==
    phase # "crashed" => \A c \in Contexts : owed[c] = Coming(c)

\* While no increment was lost the loop leaves only when nothing is
\* outstanding, and sleeps only with something to wake it, although a handler
\* may submit between its look at `pending`, its submission and its sleep.
LoopDecidesWell ==
    lost = 0 => /\ phase = "exited" => Outstanding = {}
                /\ phase = "wait" => /\ At("kernel") \cup At("cq") # {}
                                     /\ cq # <<>> => ready > 0

\* A request that a handler has made is dispatched, whatever the loop was
\* doing when the signal came, unless the process is over.
SignalIsDispatched ==
    \A r \in SignalRequests :
        (where[r] = "sq" /\ kind[r] = "signal") ~> (where[r] = "cb" \/ ~Live)
=============================================================================
