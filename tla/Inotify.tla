------------------------------- MODULE Inotify -------------------------------
(***************************************************************************)
(* core/inotify.cc on the event loop: watches of the kernel, the listeners *)
(* JavaScript has on each, and the one read request that brings events.    *)
(*                                                                         *)
(* The read request is counted by `pending` like any other; removing the   *)
(* last watch takes its unit away, so that the process may end although    *)
(* the read is still outstanding.                                          *)
(*                                                                         *)
(* inotifyHandler runs listeners between two steps of its own loop, and a  *)
(* listener may add and remove listeners: the handler is one step per      *)
(* listener, and its iterator an index that may become stale.              *)
(***************************************************************************)
EXTENDS EventLoop

CONSTANTS
    WatchIds,   \* watch descriptors; the kernel counts them up (the bound)
    FuncIds,    \* ids of globalIdGenerator, one for each `on` (the bound)
    EventSize,  \* bytes of an event: 16, and the name padded to 16
    MaxEvents   \* events the kernel queues (the bound)

ASSUME WatchAssumption == IsFiniteSet(WatchIds) /\ IsFiniteSet(FuncIds)
ASSUME EventAssumption == EventSize \in {16 * i : i \in 1..17} /\ MaxEvents \in Nat

VARIABLES
    kernelWatch,  \* the descriptors the kernel watches
    used,         \* those it has given out
    inotifyMap,   \* the listeners of a descriptor; <<>> if it is not a key
    given,        \* the listener ids given out
    count,        \* `count`
    needSubmit,   \* `needSubmit`
    evq,          \* the kernel's event queue, each event by its descriptor
    batch,        \* the events of the read that is completed or handled
    pos,          \* the iterator: the running listener of the first of them
    stale,        \* what happened under the iterator: "no", "erased", "moved"
    told,         \* history: the listeners called for the first of them
    drops         \* history: how often decPending was called

inotifyVars == <<kernelWatch, used, inotifyMap, given, count, needSubmit, evq,
                 batch, pos, stale, told, drops>>
allVars == <<ringVars, inotifyVars>>

InotifyInit ==
    /\ RingInit
    /\ kernelWatch = {} /\ used = {} /\ given = {}
    /\ inotifyMap = [w \in WatchIds |-> <<>>]
    /\ count = 0 /\ needSubmit = TRUE
    /\ evq = <<>> /\ batch = <<>>
    /\ pos = 0 /\ stale = "no" /\ told = {}
    /\ drops = 0

Readers == {r \in Requests : kind[r] = "inotify"}

-----------------------------------------------------------------------------
\* The first watch, and only it, submits the read.
SubmitReadRequest ==
    IF needSubmit
    THEN /\ \E r \in Requests : where[r] = "free" /\ SubmitRequest(r, "inotify", "js")
         /\ needSubmit' = FALSE
    ELSE UNCHANGED <<phase, pending, where, kind, cq, ready, needSubmit>>

\* Mutant: a new listener goes first.
OnFirst(w, f) ==
    /\ phase = "js" /\ f \notin given
    /\ w \in kernelWatch \/ w \notin used
    /\ kernelWatch' = kernelWatch \cup {w} /\ used' = used \cup {w}
    /\ count' = count + 1
    /\ SubmitReadRequest
    /\ given' = given \cup {f}
    /\ inotifyMap' = [inotifyMap EXCEPT ![w] = <<f>> \o @]
    /\ UNCHANGED <<cur, evq, batch, pos, stale, told, drops>>

\* on(path, f): the kernel answers the descriptor the file has already, or a
\* new one, or an error, which changes nothing.  A push onto the vector that is
\* iterated may move it.
On(w, f) ==
    /\ phase = "js" /\ f \notin given
    /\ w \in kernelWatch \/ w \notin used
    /\ kernelWatch' = kernelWatch \cup {w} /\ used' = used \cup {w}
    /\ count' = count + 1
    /\ SubmitReadRequest
    /\ given' = given \cup {f}
    /\ inotifyMap' = [inotifyMap EXCEPT ![w] = Append(@, f)]
    /\ stale' \in IF pos > 0 /\ w = Head(batch) /\ inotifyMap[w] # <<>>
                  THEN {stale, "moved"} ELSE {stale}
    /\ UNCHANGED <<cur, evq, batch, pos, told, drops>>

\* Mutant: every removal gives the unit back.
RemoveWatchDropsAll(w) ==
    /\ inotifyMap' = [inotifyMap EXCEPT ![w] = <<>>]
    /\ stale' = IF pos > 0 /\ w = Head(batch) /\ stale = "no"
                THEN "erased" ELSE stale
    /\ IF w \in kernelWatch
       THEN /\ kernelWatch' = kernelWatch \ {w}
            /\ evq' = Append(evq, w)
            /\ count' = count - 1
            /\ pending' = pending - 1
            /\ drops' = IF count = 1 THEN drops + 1 ELSE drops
       ELSE UNCHANGED <<kernelWatch, evq, count, pending, drops>>

\* The rest of off: the vector is dropped and the watch removed.  The kernel
\* refuses if the file was deleted, else it queues a last event, IN_IGNORED.
RemoveWatch(w) ==
    /\ inotifyMap' = [inotifyMap EXCEPT ![w] = <<>>]
    /\ stale' = IF pos > 0 /\ w = Head(batch) /\ stale = "no"
                THEN "erased" ELSE stale
    /\ IF w \in kernelWatch
       THEN /\ kernelWatch' = kernelWatch \ {w}
            /\ evq' = Append(evq, w)
            /\ count' = count - 1
            /\ IF count = 1 THEN pending' = pending - 1 /\ drops' = drops + 1
                            ELSE UNCHANGED <<pending, drops>>
       ELSE UNCHANGED <<kernelWatch, evq, count, pending, drops>>

\* The vector without its i-th element.
Erased(vec, i) == SubSeq(vec, 1, i - 1) \o SubSeq(vec, i + 1, Len(vec))

\* Mutant: the watch of the last listener stays.
OffKeepsWatch(w, f) ==
    /\ phase = "js"
    /\ \E i \in 1..Len(inotifyMap[w]) :
         /\ inotifyMap[w][i] = f
         /\ inotifyMap' = [inotifyMap EXCEPT ![w] = Erased(@, i)]
    /\ UNCHANGED <<phase, cur, pending, where, kind, cq, ready, kernelWatch,
                   used, given, count, needSubmit, evq, batch, pos, stale,
                   told, drops>>

\* off({watchId, funcId}) of a listener that is there; of another one it
\* changes nothing.
Off(w, f) ==
    /\ phase = "js"
    /\ \E i \in 1..Len(inotifyMap[w]) :
         /\ inotifyMap[w][i] = f
         /\ IF Len(inotifyMap[w]) > 1
            THEN /\ inotifyMap' = [inotifyMap EXCEPT ![w] = Erased(@, i)]
                 /\ UNCHANGED <<kernelWatch, evq, count, pending, drops, stale>>
            ELSE RemoveWatch(w)
    /\ UNCHANGED <<phase, cur, where, kind, cq, ready, used, given, needSubmit,
                   batch, pos, told>>

\* off({watchId}): all listeners.
OffAll(w) ==
    /\ phase = "js" /\ inotifyMap[w] # <<>>
    /\ RemoveWatch(w)
    /\ UNCHANGED <<phase, cur, where, kind, cq, ready, used, given, needSubmit,
                   batch, pos, told>>

-----------------------------------------------------------------------------
(* The kernel *)

\* Something happens to a watched file.
FileChanged(w) ==
    /\ Live /\ w \in kernelWatch /\ Len(evq) < MaxEvents
    /\ evq' = Append(evq, w)
    /\ UNCHANGED <<ringVars, kernelWatch, used, inotifyMap, given, count,
                   needSubmit, batch, pos, stale, told, drops>>

\* A watched file is deleted: IN_DELETE_SELF, IN_IGNORED, and no watch.
FileDeleted(w) ==
    /\ Live /\ w \in kernelWatch /\ Len(evq) < MaxEvents
    /\ kernelWatch' = kernelWatch \ {w}
    /\ evq' = evq \o <<w, w>>
    /\ UNCHANGED <<ringVars, used, inotifyMap, given, count, needSubmit, batch,
                   pos, stale, told, drops>>

\* The read completes with the queued events that fit into its 4096 bytes.
CompleteRead(r) ==
    /\ kind[r] = "inotify" /\ evq # <<>>
    /\ Complete(r)
    /\ LET n == Smaller(Len(evq), 4096 \div EventSize) IN
         batch' = SubSeq(evq, 1, n) /\ evq' = SubSeq(evq, n + 1, Len(evq))
    /\ UNCHANGED <<kernelWatch, used, inotifyMap, given, count, needSubmit, pos,
                   stale, told, drops>>

-----------------------------------------------------------------------------
(* inotifyHandler *)

\* The result of the read, stored in a char.
CharOf(n) == ((n + 128) % 256) - 128

\* Mutant: `<=` in the test of the handler's loop.
HandledOneMore(n) ==
    LET size == CharOf(n * EventSize) IN
      IF size < 0 THEN 0 ELSE size \div EventSize + 1

\* How many of n events the handler's loop visits.
Handled(n) ==
    LET size == CharOf(n * EventSize) IN
      IF size <= 0 THEN 0 ELSE (size + EventSize - 1) \div EventSize

\* The loop of the thread calls the handler.
ReapRead ==
    /\ ready > 0 /\ kind[Head(cq)] = "inotify"
    /\ Deliver("after")
    /\ batch' = SubSeq(batch, 1, Handled(Len(batch)))
    /\ UNCHANGED <<kernelWatch, used, inotifyMap, given, count, needSubmit, evq,
                   pos, stale, told, drops>>

\* The handler is between two listeners.
InHandler == phase = "after" /\ kind[cur] = "inotify"

\* makeCallback of listener n of the event's vector.
CallListener(n) ==
    /\ pos' = n /\ phase' = "js"
    /\ told' = told \cup {inotifyMap[Head(batch)][n]}
    /\ UNCHANGED <<batch, stale>>

EventDone ==
    /\ batch' = Tail(batch) /\ pos' = 0 /\ stale' = "no" /\ told' = {}
    /\ UNCHANGED phase

\* The next event: its first listener, if its descriptor is a key.
NextEvent ==
    /\ InHandler /\ batch # <<>> /\ pos = 0
    /\ IF inotifyMap[Head(batch)] # <<>> THEN CallListener(1) ELSE EventDone
    /\ UNCHANGED <<cur, pending, where, kind, cq, ready, kernelWatch, used,
                   inotifyMap, given, count, needSubmit, evq, drops>>

\* it++, and the test against end().  An iterator past the end, or into a
\* vector that has moved, never meets it.  If the vector is gone its memory
\* may still hold the old end.
NextListener ==
    /\ InHandler /\ pos > 0
    /\ LET len == Len(inotifyMap[Head(batch)]) IN
         \/ stale = "no" /\ pos < len /\ CallListener(pos + 1)
         \/ stale = "no" /\ pos = len /\ EventDone
         \/ stale = "erased" /\ EventDone
         \/ /\ stale # "no" \/ pos > len
            /\ phase' = "crashed" /\ UNCHANGED <<batch, pos, stale, told>>
    /\ UNCHANGED <<cur, pending, where, kind, cq, ready, kernelWatch, used,
                   inotifyMap, given, count, needSubmit, evq, drops>>

\* Mutant: needSubmit is not set, so no read is submitted.
HandlerDoneStops ==
    /\ InHandler /\ batch = <<>>
    /\ Free
    /\ UNCHANGED <<pending, cq, ready, inotifyVars>>

\* The end of the handler: the request is freed and a new one submitted, in
\* the same memory.  (The environment is read from the freed request; the
\* allocator leaves that word alone.)
HandlerDone ==
    /\ InHandler /\ batch = <<>>
    /\ SubmitRequest(cur, "inotify", "drain")
    /\ cur' = IF phase' = "drain" THEN None ELSE cur
    /\ UNCHANGED inotifyVars

-----------------------------------------------------------------------------
\* The steps of the event loop that are not about inotify.
OtherStep ==
    /\ \/ \E r \in Requests : JSOperation(r)
       \/ \E r \in Requests \ Readers : Complete(r)
       \/ JSReturn
       \/ Terminate
       \/ Interrupted
       \/ LoopStep
    /\ UNCHANGED inotifyVars

HandlerStep == ReapRead \/ NextEvent \/ NextListener \/ HandlerDone

InotifyNext ==
    \/ OtherStep
    \/ \E w \in WatchIds :
         \/ \E f \in FuncIds : On(w, f) \/ Off(w, f)
         \/ OffAll(w) \/ FileChanged(w) \/ FileDeleted(w)
    \/ \E r \in Requests : CompleteRead(r)
    \/ HandlerStep
    \/ Over /\ UNCHANGED inotifyVars

InotifySpec == InotifyInit /\ [][InotifyNext]_allVars

\* The thread runs, listeners return, and a read with events completes.
InotifyFairSpec ==
    /\ InotifySpec
    /\ WF_allVars((LoopStep /\ UNCHANGED inotifyVars) \/ HandlerStep)
    /\ WF_allVars(JSReturn /\ UNCHANGED inotifyVars)
    /\ WF_allVars(\E r \in Requests : CompleteRead(r))
-----------------------------------------------------------------------------
(* Properties *)

\* Types of the state.
InotifyTypeOK ==
    /\ RingTypeOK
    /\ phase \in Phases
    /\ kernelWatch \subseteq used /\ used \subseteq WatchIds
    /\ given \subseteq FuncIds /\ told \subseteq given
    /\ inotifyMap \in [WatchIds -> Seq(given)]
    /\ count \in Nat /\ drops \in Nat /\ needSubmit \in BOOLEAN
    /\ evq \in Seq(used) /\ batch \in Seq(used)
    /\ pos \in Nat /\ (pos > 0 => batch # <<>>)
    /\ stale \in {"no", "erased", "moved"}

\* `pending` counts the requests, the read among them, less one for every time
\* the last watch was removed (inotify.cc:127): removing the others, deleting
\* watched files and the handler's re-submission do not disturb it.
PendingIsShort == Balance + drops = 0

\* Once a file was watched exactly one read of the inotify fd is under way or
\* handled, whatever the listeners add and remove meanwhile (needSubmit,
\* inotify.cc:32-49): two would share events, none would lose them all.
OneReader ==
    phase # "crashed" => Cardinality(Readers) = IF used = {} THEN 0 ELSE 1

\* `count` is at least the number of live watches, so the process is not let
\* go while one lives, and no watch lives without a listener.
WatchesAreCounted ==
    /\ count >= Cardinality(kernelWatch)
    /\ \A w \in kernelWatch : inotifyMap[w] # <<>>

\* A process that ever watched a file ends by itself only if all watches were
\* removed at some time.  (A watch made after that does not keep it alive.)
WatchKeepsLoopAlive == phase = "exited" /\ used # {} => drops > 0

\* The narrowing of the result to a char loses events, but never makes the
\* handler visit more events than the read returned.
NeverReadsPastTheBatch == Handled(Len(batch)) <= Len(batch)

\* No listener is called twice for one event, although others are added and
\* removed before and behind the iterator.
ToldOnce ==
    [][pos' > 0 /\ phase = "after" /\ phase' = "js"
         => inotifyMap[Head(batch)][pos'] \notin told]_allVars

\* The comment inotify.cc:25: the iteration copes with elements that are
\* deleted in a callback.
LoopStaysInside ==
    pos > 0 => stale = "no" /\ pos <= Len(inotifyMap[Head(batch)])

\* Queued events reach the handler, whatever else is posted or refused.
EventsAreRead == (evq # <<>>) ~> (InHandler \/ ~Live)
=============================================================================
