------------------------------ MODULE EventLoop ------------------------------
(***************************************************************************)
(* The asynchronous operations JavaScript calls (core/io.cc, net.cc, fs.cc,*)
(* unix_domain/tcp through the same functions) and the callbacks they run  *)
(* (core/async.h, openAfter of core/fs.cc), on the ring of module Ring.    *)
(*                                                                         *)
(* kind[r] abstracts op, callback and flag of a request:                   *)
(*    "io"          a read, write, close or connect with a JS function     *)
(*    "quiet"       the same without a JS function                         *)
(*    "accept"      the request of a listener (flag AGAIN)                 *)
(*    "quietAccept" the same without a JS function                         *)
(*    "open"        an openat, whose callback never calls JS               *)
(* The JavaScript program is arbitrary: it may call any operation at any   *)
(* moment it runs.                                                         *)
(***************************************************************************)
EXTENDS Ring

Listeners == {"accept", "quietAccept"}   \* flag IO_URING_REQUEST_AGAIN
CallsJS   == {"io", "accept"}
IOKinds   == {"io", "quiet", "open"} \cup Listeners

-----------------------------------------------------------------------------
\* JavaScript makes an asynchronous request: malloc, fill in, SubmitRequest.
Request(r, k) ==
    /\ phase = "js" /\ where[r] = "free"
    /\ SubmitRequest(r, k, "js")
    /\ UNCHANGED cur

\* read, write, readv, writev
ReadWrite(r) == \E k \in {"io", "quiet"} : Request(r, k)

Close(r) == \E k \in {"io", "quiet"} : Request(r, k)

Connect(r) == \E k \in {"io", "quiet"} : Request(r, k)

\* listen(2), then the accept request that is submitted again for ever; when
\* listen(2) fails nothing changes.
Listen(r) == \E k \in Listeners : Request(r, k)

OpenAt(r) == Request(r, "open")

\* The running script or callback returns; a thrown exception ends a callback
\* in the same way, for the result of Call is dropped.
JSReturn ==
    /\ phase = "js"
    /\ phase' = IF cur = None THEN "check" ELSE "after"
    /\ UNCHANGED <<cur, pending, where, kind, cq, ready>>

\* The process ends in JavaScript: process.exit, or an exception of the main
\* script, on which ToLocalChecked aborts.
Terminate ==
    /\ phase = "js"
    /\ phase' = "terminated"
    /\ UNCHANGED <<cur, pending, where, kind, cq, ready>>

-----------------------------------------------------------------------------
\* RunIOUring hands a completion to makeCallback, or to openAfter.
Reap ==
    /\ ready > 0 /\ kind[Head(cq)] \in IOKinds
    /\ Deliver(IF kind[Head(cq)] \in CallsJS THEN "js" ELSE "after")

\* Mutant: a request that is submitted again is not counted again.
RearmUncounted ==
    /\ phase = "after" /\ kind[cur] \in Listeners
    /\ At("sq") = {}
    /\ where' = [where EXCEPT ![cur] = IF Refused THEN "sq" ELSE "kernel"]
    /\ ready' = IF RefuseWhenBacklogged THEN Flushed ELSE ready
    /\ phase' = "drain" /\ cur' = None
    /\ UNCHANGED <<pending, kind, cq>>

\* The tail of makeCallback for a listener: the same request again, whatever
\* its result was.
Rearm ==
    /\ phase = "after" /\ kind[cur] \in Listeners
    /\ SubmitRequest(cur, kind[cur], "drain")
    /\ cur' = IF phase' = "drain" THEN None ELSE cur

\* Mutant: the request is not freed.
ReleaseLeaks ==
    /\ phase = "after" /\ kind[cur] \in IOKinds \ Listeners
    /\ phase' = "drain" /\ cur' = None
    /\ UNCHANGED <<where, kind, pending, cq, ready>>

\* The tail of makeCallback for the others, and openAfter.
Release ==
    /\ phase = "after" /\ kind[cur] \in IOKinds \ Listeners
    /\ Free
    /\ UNCHANGED <<pending, cq, ready>>

-----------------------------------------------------------------------------
JSOperation(r) ==
    \/ ReadWrite(r)
    \/ Close(r)
    \/ Connect(r)
    \/ Listen(r)
    \/ OpenAt(r)

\* The steps the thread itself must take.
LoopStep ==
    \/ LoopCheck
    \/ Enter
    \/ Wake
    \/ Reap
    \/ Rearm
    \/ Release
    \/ DrainDone

\* The process is over.
Over == ~Live /\ UNCHANGED ringVars

Next ==
    \/ \E r \in Requests : JSOperation(r) \/ Complete(r)
    \/ JSReturn
    \/ Terminate
    \/ Interrupted
    \/ LoopStep
    \/ Over

Spec == RingInit /\ [][Next]_ringVars

\* The thread goes on as long as it can, and callbacks return.
Fairness == WF_ringVars(LoopStep) /\ WF_ringVars(JSReturn)

FairSpec == Spec /\ Fairness
-----------------------------------------------------------------------------
(* Properties *)

\* Types of the state; in particular the mapped part of the completion queue
\* never outgrows the ring.
TypeOK ==
    /\ RingTypeOK
    /\ phase \in Phases
    /\ \A r \in Requests : kind[r] \in IOKinds \cup {"none"}

\* The counter that RunIOUring (io_uring.cc:93) trusts is exact through
\* submissions the kernel refused, re-submissions, completions and frees.
PendingIsOutstanding == Balance = 0

\* A process that once made a listener (net.cc:68) never leaves the loop by
\* itself: its accept request is outstanding whenever the loop looks.
ListenerKeepsLoopAlive ==
    (\E r \in Requests : kind[r] \in Listeners) => phase # "exited"

\* The thread never sleeps in the kernel for a completion that cannot come,
\* and never while one is posted that it cannot see (backlog not flushed).
NeverWaitsForNothing ==
    phase = "wait" => /\ At("kernel") \cup At("cq") # {}
                      /\ cq # <<>> => ready > 0

\* What the README promises for every kernel from 5.5 on: the runtime does
\* not write to an sqe that does not exist.
NeverCrashes == phase # "crashed"

\* A posted completion is dispatched, however fast new ones are posted.
PostedIsDispatched ==
    \A r \in Requests : (where[r] = "cq") ~> (where[r] # "cq" \/ ~Live)

\* A submission the kernel refused is submitted again by the loop
\* (io_uring.cc:95), unless the process ends or crashes first.
RefusedIsRetried ==
    \A r \in Requests : (where[r] = "sq") ~> (where[r] # "sq" \/ ~Live)

\* The state of the contract: a request in either queue or in the kernel is
\* outstanding.
ContractStatus ==
    CASE phase = "js" /\ cur = None -> "main"
      [] Live /\ ~(phase = "js" /\ cur = None) -> "loop"
      [] phase = "exited" -> "done"
      [] OTHER -> "broken"

ContractSt ==
    [r \in Requests |-> CASE where[r] = "free" -> "idle"
                         [] where[r] = "cb" -> "calling"
                         [] OTHER -> "outstanding"]

ContractListener == {r \in Requests : kind[r] \in Listeners}

Contract == INSTANCE AsyncContract
            WITH status <- ContractStatus, st <- ContractSt,
                 listener <- ContractListener

\* One callback per request, one at a time, never inside the main script,
\* listeners for ever, and no exit while anything is outstanding.
ImplementsContract == Contract!ContractSpec
=============================================================================
