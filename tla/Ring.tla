-------------------------------- MODULE Ring --------------------------------
(***************************************************************************)
(* core/io_uring.cc: the one io_uring of a No.js process, the counter      *)
(* `pending` that keeps the event loop alive, and the loop itself.         *)
(*                                                                         *)
(* A request is malloc'ed by an operation, handed to SubmitRequest, run by *)
(* the kernel, found in the completion queue by RunIOUring and given to    *)
(* its callback, which frees it or submits it again.  where[r] is the      *)
(* place of request r on that path:                                        *)
(*    "free"   not allocated                                               *)
(*    "sq"     in the submission queue, not consumed by the kernel         *)
(*    "kernel" consumed by the kernel, not completed                       *)
(*    "cq"     completed, its completion not yet taken by the loop         *)
(*    "cb"     its callback is running                                     *)
(* The submission queue has one entry (io_uring_queue_init(1), env.cc:12). *)
(***************************************************************************)
EXTENDS Integers, Sequences, FiniteSets, Functions

CONSTANTS
    Requests,             \* the requests that can be live at once (the bound)
    None,                 \* no request
    CQEntries,            \* entries of the completion ring the process maps
    RefuseWhenBacklogged  \* kernels 5.5 to 5.18: io_uring_enter answers EBUSY
                          \* while completions that do not fit are backlogged

ASSUME RequestsAssumption == IsFiniteSet(Requests) /\ None \notin Requests
ASSUME CQEntriesAssumption == CQEntries \in Nat \ {0}
ASSUME KernelAssumption == RefuseWhenBacklogged \in BOOLEAN

VARIABLES
    phase,    \* what the single thread of the process is doing
    cur,      \* the request whose callback runs; None in the main script
    pending,  \* io_uring_info.pending
    where,    \* the place of every request
    kind,     \* what a live request is: its op, callback and flag
    cq,       \* the completions not yet taken, oldest first, backlog included
    ready     \* how many of them are in the mapped ring

ringVars == <<phase, cur, pending, where, kind, cq, ready>>

Places == {"free", "sq", "kernel", "cq", "cb"}

\* What a request is, by its callback and flag: see EventLoop, Timers,
\* Inotify, Signals.
Kinds == {"none", "io", "quiet", "open", "accept", "quietAccept", "tick",
          "inotify", "signal"}

\* "js": JavaScript runs; "after": the native rest of a callback; "check",
\* "enter", "wait", "drain": the loop; "crashed": a write to a NULL sqe, or an
\* iterator that ran away (Inotify).
Ended == {"exited", "terminated", "crashed"}
Phases == {"js", "after", "check", "enter", "wait", "drain"} \cup Ended

At(place) == {r \in Requests : where[r] = place}
Outstanding == {r \in Requests : where[r] \in {"sq", "kernel", "cq"}}
Live == phase \notin Ended

Smaller(a, b) == IF a <= b THEN a ELSE b

\* The kernel moves backlogged completions into the free slots of the ring.
Flushed == Smaller(Len(cq), CQEntries)

\* The kernel takes no submission now.
Refused == RefuseWhenBacklogged /\ Len(cq) > CQEntries

RingInit ==
    /\ phase = "js" /\ cur = None
    /\ pending = 0
    /\ where = [r \in Requests |-> "free"]
    /\ kind = [r \in Requests |-> "none"]
    /\ cq = <<>> /\ ready = 0

\* Mutant: counts only what the kernel took.
SubmitRequestCountsTaken(r, k, ph) ==
    IF At("sq") # {}
    THEN /\ phase' = "crashed"
         /\ UNCHANGED <<pending, where, kind, cq, ready>>
    ELSE /\ phase' = ph
         /\ pending' = IF Refused THEN pending ELSE pending + 1
         /\ where' = [where EXCEPT ![r] = IF Refused THEN "sq" ELSE "kernel"]
         /\ kind' = [kind EXCEPT ![r] = k]
         /\ ready' = IF RefuseWhenBacklogged THEN Flushed ELSE ready
         /\ UNCHANGED cq

(***************************************************************************)
(* SubmitRequest: takes an sqe, fills it, counts the request and enters    *)
(* the kernel, whose answer is ignored.  With an unconsumed entry in the   *)
(* queue io_uring_get_sqe returns NULL, which is filled all the same.      *)
(* The caller goes on in phase ph.                                         *)
(***************************************************************************)
SubmitRequest(r, k, ph) ==
    IF At("sq") # {}
    THEN /\ phase' = "crashed"
         /\ UNCHANGED <<pending, where, kind, cq, ready>>
    ELSE /\ phase' = ph
         /\ pending' = pending + 1
         /\ where' = [where EXCEPT ![r] = IF Refused THEN "sq" ELSE "kernel"]
         /\ kind' = [kind EXCEPT ![r] = k]
         /\ ready' = IF RefuseWhenBacklogged THEN Flushed ELSE ready
         /\ UNCHANGED cq

\* Mutants: stops one request too early; waits before it looks.
LoopCheckOffByOne ==
    /\ phase = "check"
    /\ phase' = IF pending > 1 THEN "enter" ELSE "exited"
    /\ UNCHANGED <<cur, pending, where, kind, cq, ready>>

LoopCheckDoWhile ==
    /\ phase = "check"
    /\ phase' = "enter"
    /\ UNCHANGED <<cur, pending, where, kind, cq, ready>>

\* The condition of the outer loop; `stop` is never set (Stop has no caller).
LoopCheck ==
    /\ phase = "check"
    /\ phase' = IF pending # 0 THEN "enter" ELSE "exited"
    /\ UNCHANGED <<cur, pending, where, kind, cq, ready>>

\* Mutants: only waits, as the older loop did; does not flush the backlog.
EnterWaitsOnly ==
    /\ phase = "enter"
    /\ ready' = Flushed
    /\ phase' = "wait"
    /\ UNCHANGED <<cur, pending, where, kind, cq>>

EnterWithoutFlush ==
    /\ phase = "enter"
    /\ IF Refused /\ At("sq") # {}
       THEN phase' = "drain" /\ UNCHANGED where
       ELSE /\ phase' = "wait"
            /\ where' = [r \in Requests |->
                           IF where[r] = "sq" THEN "kernel" ELSE where[r]]
    /\ UNCHANGED <<cur, pending, kind, cq, ready>>

\* io_uring_submit_and_wait(ring, 1): submits what is left in the queue and
\* goes to sleep, or returns at once when the kernel refuses.
Enter ==
    /\ phase = "enter"
    /\ ready' = Flushed
    /\ IF Refused /\ At("sq") # {}
       THEN phase' = "drain" /\ UNCHANGED where
       ELSE /\ phase' = "wait"
            /\ where' = [r \in Requests |->
                           IF where[r] = "sq" THEN "kernel" ELSE where[r]]
    /\ UNCHANGED <<cur, pending, kind, cq>>

\* The wait ends: with one completion at least in the ring ...
Wake ==
    /\ phase = "wait" /\ ready > 0
    /\ phase' = "drain"
    /\ UNCHANGED <<cur, pending, where, kind, cq, ready>>

\* ... or with EINTR, after a handled signal; the loop ignores the result.
Interrupted ==
    /\ phase = "wait"
    /\ phase' = "drain"
    /\ UNCHANGED <<cur, pending, where, kind, cq, ready>>

\* Mutants: does not advance the queue; takes the newest completion.
DeliverWithoutAdvance(ph) ==
    /\ phase = "drain" /\ ready > 0
    /\ pending' = pending - 1
    /\ cur' = Head(cq)
    /\ where' = [where EXCEPT ![Head(cq)] = "cb"]
    /\ phase' = ph
    /\ UNCHANGED <<kind, cq, ready>>

DeliverNewest(ph) ==
    /\ phase = "drain" /\ ready > 0
    /\ cq' = SubSeq(cq, 1, Len(cq) - 1)
    /\ ready' = Smaller(ready, Len(cq) - 1)
    /\ pending' = pending - 1
    /\ cur' = cq[Len(cq)]
    /\ where' = [where EXCEPT ![cq[Len(cq)]] = "cb"]
    /\ phase' = ph
    /\ UNCHANGED kind

\* The oldest completion leaves the ring and the callback of its request
\* begins in phase ph.
CallBack(ph) ==
    /\ cq' = Tail(cq) /\ ready' = ready - 1
    /\ cur' = Head(cq)
    /\ where' = [where EXCEPT ![Head(cq)] = "cb"]
    /\ phase' = ph
    /\ UNCHANGED kind

\* The inner loop takes the oldest completion and uncounts it.
Deliver(ph) ==
    /\ phase = "drain" /\ ready > 0
    /\ pending' = pending - 1
    /\ CallBack(ph)

\* The callback frees its request and returns to the inner loop.
Free ==
    /\ where' = [where EXCEPT ![cur] = "free"]
    /\ kind' = [kind EXCEPT ![cur] = "none"]
    /\ phase' = "drain" /\ cur' = None

\* io_uring_peek_cqe finds the ring empty: back to the outer loop.
DrainDone ==
    /\ phase = "drain" /\ ready = 0
    /\ phase' = "check"
    /\ UNCHANGED <<cur, pending, where, kind, cq, ready>>

\* Mutant: writes past the end of the ring.
CompleteIntoFullRing(r) ==
    /\ Live /\ where[r] = "kernel"
    /\ where' = [where EXCEPT ![r] = "cq"]
    /\ cq' = Append(cq, r)
    /\ ready' = IF ready = Len(cq) THEN ready + 1 ELSE ready
    /\ UNCHANGED <<phase, cur, pending, kind>>

\* The kernel completes a request, at any moment of the process: into the
\* ring if it has room and nothing is backlogged, else into the backlog.
Complete(r) ==
    /\ Live /\ where[r] = "kernel"
    /\ where' = [where EXCEPT ![r] = "cq"]
    /\ cq' = Append(cq, r)
    /\ ready' = IF ready = Len(cq) /\ ready < CQEntries
                THEN ready + 1 ELSE ready
    /\ UNCHANGED <<phase, cur, pending, kind>>

-----------------------------------------------------------------------------
(* Invariants of every module built on the ring *)

\* Types; the mapped part of the completion queue never outgrows the ring.
RingTypeOK ==
    /\ cur \in Requests \cup {None}
    /\ pending \in Int
    /\ where \in [Requests -> Places]
    /\ kind \in [Requests -> Kinds]
    /\ cq \in Seq(Requests)
    /\ ready \in 0..CQEntries /\ ready <= Len(cq)

\* Every completed request is in the completion queue once, and nothing else
\* is: no callback can run on a request that is free, in the kernel or already
\* running (io_uring.cc:97-110 against async.h:33-39).
CompletionQueueExact == IsInjective(cq) /\ Range(cq) = At("cq")

\* At most one request is in its callback, the current one: no path through a
\* callback leaks its request, and none is entered from another.
OneCallbackAtATime ==
    /\ At("cb") = {cur} \ {None}
    /\ phase \in {"check", "enter", "wait", "drain", "exited"} => cur = None
    /\ phase = "after" => cur # None

\* A request that is not allocated is nothing.
FreeIsNothing == \A r \in Requests : where[r] = "free" <=> kind[r] = "none"

\* The count without the requests: what timers and watches contribute.
Balance == pending - Cardinality(Outstanding)
=============================================================================
