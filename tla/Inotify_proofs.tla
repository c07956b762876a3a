--------------------------- MODULE Inotify_proofs ---------------------------
(***************************************************************************)
(* The watches of module Inotify, for any number of requests, descriptors, *)
(* listeners and events of any size: what `pending` and `count` count, and *)
(* that the narrowed size of a read is never beyond the read.              *)
(***************************************************************************)
EXTENDS Inotify, EventLoop_proofs

\* What does not speak of the ring.
WatchInv ==
    /\ kernelWatch \subseteq used /\ used \subseteq WatchIds
    /\ given \subseteq FuncIds /\ told \subseteq given
    /\ inotifyMap \in [WatchIds -> Seq(given)]
    /\ count \in Nat /\ drops \in Nat /\ needSubmit \in BOOLEAN
    /\ evq \in Seq(used) /\ batch \in Seq(used)
    /\ pos \in Nat /\ (pos > 0 => batch # <<>>)
    /\ stale \in {"no", "erased", "moved"}
    /\ WatchesAreCounted

\* The read request and the flag that stands for it.
ReaderInv ==
    /\ needSubmit = (used = {})
    /\ used = {} => Readers = {}
    /\ phase # "crashed" /\ used # {} => \E r \in Requests : Readers = {r}

\* The iterator of the handler lives only while the read's callback runs, so
\* that no completion replaces the batch under it.
IteratorInv == pos > 0 => cur # None /\ kind[cur] = "inotify"

InotifyIInv ==
    /\ CoreInv
    /\ phase \in Phases
    /\ PendingIsShort
    /\ WatchInv
    /\ ReaderInv
    /\ IteratorInv

-----------------------------------------------------------------------------
(* Helpers *)

\* A sequence over a set is one over a larger set.
LEMMA SeqMonotone ==
    ASSUME NEW S, NEW T, S \subseteq T, NEW s \in Seq(S)
    PROVE  s \in Seq(T)
BY ElementOfSeq, LenProperties, SeqDef

\* Adding a descriptor to the kernel's and taking one away.
LEMMA WatchSetChanges ==
    ASSUME NEW S \in SUBSET WatchIds, NEW w
    PROVE  /\ Cardinality(S) \in Nat
           /\ Cardinality(S \cup {w}) <= Cardinality(S) + 1
           /\ Cardinality(S \cup {w}) \in Nat
           /\ Cardinality(S \ {w}) = IF w \in S THEN Cardinality(S) - 1
                                                ELSE Cardinality(S)
<1>1. IsFiniteSet(S)  BY WatchAssumption, FS_Subset
<1>2. Cardinality(S) \in Nat  BY <1>1, FS_CardinalityType
<1>3. IsFiniteSet(S \cup {w})  BY <1>1, FS_AddElement
<1>4. Cardinality(S \cup {w}) \in Nat  BY <1>3, FS_CardinalityType
<1>5. Cardinality(S \cup {w}) = IF w \in S THEN Cardinality(S)
                                           ELSE Cardinality(S) + 1
  BY <1>1, FS_AddElement
<1>6. Cardinality(S \ {w}) = IF w \in S THEN Cardinality(S) - 1
                                        ELSE Cardinality(S)
  BY <1>1, FS_RemoveElement
<1>7. QED  BY <1>2, <1>4, <1>5, <1>6

\* The vector without an element.
LEMMA ErasedIs ==
    ASSUME NEW S, NEW vec \in Seq(S), NEW i \in 1..Len(vec)
    PROVE  /\ Erased(vec, i) \in Seq(S)
           /\ Len(Erased(vec, i)) = Len(vec) - 1
<1>1. Len(vec) \in Nat  BY LenProperties
<1>2. /\ SubSeq(vec, 1, i - 1) \in Seq(S)
      /\ Len(SubSeq(vec, 1, i - 1)) = i - 1
  BY <1>1
<1>3. /\ SubSeq(vec, i + 1, Len(vec)) \in Seq(S)
      /\ Len(SubSeq(vec, i + 1, Len(vec))) = Len(vec) - i
  BY <1>1
<1> DEFINE s == SubSeq(vec, 1, i - 1)
           t == SubSeq(vec, i + 1, Len(vec))
<1>4. s \in Seq(S) /\ t \in Seq(S) /\ Len(s) = i - 1 /\ Len(t) = Len(vec) - i
  BY <1>2, <1>3
<1> HIDE DEF s, t
<1>5. s \o t \in Seq(S) /\ Len(s \o t) = Len(s) + Len(t)
  BY <1>4, ConcatProperties
<1>6. Erased(vec, i) = s \o t  BY DEF Erased, s, t
<1>7. Erased(vec, i) \in Seq(S)  BY <1>5, <1>6
<1>8. Len(Erased(vec, i)) = (i - 1) + (Len(vec) - i)  BY <1>4, <1>5, <1>6
<1>9. i \in Int  BY <1>1
<1>10. QED  BY <1>1, <1>7, <1>8, <1>9

\* inotify.cc:8-12: the narrowing to a char never makes a read longer.
LEMMA HandledBound ==
    ASSUME NEW n \in Nat PROVE Handled(n) \in Nat /\ Handled(n) <= n
<1> DEFINE bytes == n * EventSize
           size == CharOf(bytes)
<1>1. EventSize \in 16..272  BY EventAssumption
<1>2. bytes \in Nat  BY <1>1
<1>3. size \in Int /\ size <= bytes
  BY <1>2 DEF CharOf
<1>4. CASE size <= 0
  BY <1>4 DEF Handled
<1>5. CASE size > 0
  <2>1. Handled(n) = (size + EventSize - 1) \div EventSize
    BY <1>3, <1>5 DEF Handled
  <2> DEFINE q == (size + EventSize - 1) \div EventSize
  <2>2. q \in Nat /\ q * EventSize <= size + EventSize - 1
    BY <1>1, <1>3, <1>5
  <2>3. q * EventSize < (n + 1) * EventSize
    BY <1>1, <1>2, <1>3, <2>2
  <2>4. q < n + 1
    BY <1>1, <2>2, <2>3
  <2>5. QED  BY <2>1, <2>2, <2>4
<1>6. QED  BY <1>3, <1>4, <1>5

\* No watches at the start.
LEMMA InotifyInitIInv == InotifyInit => InotifyIInv
<1> SUFFICES ASSUME InotifyInit PROVE InotifyIInv
  OBVIOUS
<1>1. CoreInv /\ Balance = 0 /\ phase \in Phases
  BY InitIInv DEF InotifyInit, IInv
<1>2. PendingIsShort  BY <1>1 DEF PendingIsShort, InotifyInit
<1>3. WatchInv
  BY FS_EmptySet DEF InotifyInit, WatchInv, WatchesAreCounted
<1>4. ReaderInv
  BY DEF ReaderInv, InotifyInit, RingInit, Readers
<1>5. IteratorInv  BY DEF IteratorInv, InotifyInit
<1>6. QED  BY <1>1, <1>2, <1>3, <1>4, <1>5 DEF InotifyIInv

-----------------------------------------------------------------------------
(* The steps *)

\* Who the reader is depends on `kind`, and on the watches made.
LEMMA ReaderStays ==
    ASSUME ReaderInv, kind' = kind, used' = used, needSubmit' = needSubmit,
           phase = "crashed" => phase' = "crashed"
    PROVE  ReaderInv'
BY DEF ReaderInv, Readers

\* The state of the watches in a step of the ring.
LEMMA WatchStays == ASSUME WatchInv, UNCHANGED inotifyVars PROVE WatchInv'
BY DEF WatchInv, WatchesAreCounted, inotifyVars

\* The callback that runs stays what it is when another request is taken.
LEMMA IteratorStays ==
    ASSUME IteratorInv, pos' = pos, cur' = cur,
           cur # None => kind'[cur] = kind[cur]
    PROVE  IteratorInv'
BY DEF IteratorInv

\* Outside of callbacks the handler has no iterator.
LEMMA NoIterator ==
    ASSUME InotifyIInv, cur = None \/ kind[cur] # "inotify" PROVE pos = 0
BY DEF InotifyIInv, IteratorInv, WatchInv

\* A request that is taken is not the one whose callback runs.
LEMMA CurrentIsKept ==
    ASSUME CoreInv, NEW r \in Requests, where[r] = "free", NEW k,
           kind' = kind \/ kind' = [kind EXCEPT ![r] = k], cur # None
    PROVE  kind'[cur] = kind[cur]
<1>1. cur \in At("cb")  BY DEF CoreInv, OneCallbackAtATime
<1>2. cur # r /\ cur \in Requests  BY <1>1 DEF At
<1>3. QED  BY <1>2 DEF CoreInv, RingCore

\* A step of the event loop alone.
LEMMA OtherStepKeeps == ASSUME InotifyIInv, OtherStep PROVE InotifyIInv'
<1>1. ASSUME NEW r \in Requests, JSOperation(r)
      PROVE  \E k \in IOKinds : Request(r, k)
  BY <1>1 DEF JSOperation, ReadWrite, Close, Connect, Listen, OpenAt,
              IOKinds, Listeners
<1>2. UNCHANGED inotifyVars  BY DEF OtherStep
<1>3. \/ \E r \in Requests, k \in IOKinds : Request(r, k)
      \/ \E r \in Requests : Complete(r)
      \/ ThreadStep \/ Enter \/ Reap \/ Rearm \/ Release
  BY <1>1 DEF OtherStep, LoopStep, ThreadStep
<1>4. CoreInv' /\ Balance' = Balance
  BY <1>3, LoopStepKeeps DEF InotifyIInv
<1>5. phase' \in Phases /\ phase # "crashed"
  BY <1>3 DEF InotifyIInv, Phases, Ended, Live, Request, SubmitRequest, Complete,
     ThreadStep, LoopCheck, Wake, Interrupted, DrainDone, JSReturn, Terminate,
     Enter, Reap, Deliver, CallBack, Rearm, Release, Free
<1>6. Readers' = Readers
  <2>1. CASE kind' = kind  BY <2>1 DEF Readers
  <2>2. CASE \E r \in Requests, k \in IOKinds : Request(r, k)
    <3>1. PICK r \in Requests, k \in IOKinds : Request(r, k)  BY <2>2
    <3>2. kind[r] = "none" /\ k # "inotify"
      BY <3>1 DEF Request, InotifyIInv, CoreInv, RingCore, FreeIsNothing,
                  IOKinds, Listeners
    <3>3. kind' = kind \/ kind' = [kind EXCEPT ![r] = k]
      BY <3>1 DEF Request, SubmitRequest
    <3>4. QED
      BY <2>1, <3>2, <3>3 DEF Readers, InotifyIInv, CoreInv, RingCore
  <2>3. CASE Rearm
    <3>1. kind' = kind \/ kind' = [kind EXCEPT ![cur] = kind[cur]]
      BY <2>3 DEF Rearm, SubmitRequest
    <3>2. QED  BY <3>1 DEF Readers, InotifyIInv, CoreInv, RingCore
  <2>4. CASE Release
    <3>1. kind' = [kind EXCEPT ![cur] = "none"] /\ kind[cur] # "inotify"
      BY <2>4 DEF Release, Free, IOKinds, Listeners
    <3>2. QED  BY <3>1 DEF Readers, InotifyIInv, CoreInv, RingCore
  <2>5. QED
    BY <1>3, <2>1, <2>2, <2>3, <2>4
       DEF Complete, ThreadStep, LoopCheck, Wake, Interrupted, DrainDone,
           JSReturn, Terminate, Enter, Reap, Deliver, CallBack
<1>7. ReaderInv'
  BY <1>2, <1>5, <1>6 DEF InotifyIInv, ReaderInv, inotifyVars
<1>8. PendingIsShort'
  BY <1>2, <1>4 DEF InotifyIInv, PendingIsShort, inotifyVars
<1>9. WatchInv'  BY <1>2, WatchStays DEF InotifyIInv
<1>10. IteratorInv'
  <2>1. pos' = pos  BY <1>2 DEF inotifyVars
  <2>2. CASE \E r \in Requests, k \in IOKinds : Request(r, k)
    <3>1. PICK r \in Requests, k \in IOKinds : Request(r, k)  BY <2>2
    <3>2. /\ where[r] = "free" /\ cur' = cur
          /\ kind' = kind \/ kind' = [kind EXCEPT ![r] = k]
      BY <3>1 DEF Request, SubmitRequest
    <3>3. cur # None => kind'[cur] = kind[cur]
      BY <3>2, CurrentIsKept DEF InotifyIInv
    <3>4. QED  BY <2>1, <3>2, <3>3, IteratorStays DEF InotifyIInv
  <2>3. CASE (\E r \in Requests : Complete(r)) \/ ThreadStep \/ Enter
    <3>1. cur' = cur /\ kind' = kind
      BY <2>3 DEF Complete, Enter, ThreadStep, LoopCheck, Wake, Interrupted,
                  DrainDone, JSReturn, Terminate
    <3>2. QED  BY <2>1, <3>1, IteratorStays DEF InotifyIInv
  <2>4. CASE Reap \/ Rearm \/ Release
    <3>1. cur = None \/ kind[cur] # "inotify"
      BY <2>4 DEF Reap, Deliver, CallBack, Rearm, Release, IOKinds, Listeners,
                  InotifyIInv, CoreInv, OneCallbackAtATime
    <3>2. pos' = 0  BY <2>1, <3>1, NoIterator
    <3>3. QED  BY <3>2 DEF IteratorInv
  <2>5. QED  BY <1>3, <2>2, <2>3, <2>4
<1>11. QED  BY <1>4, <1>5, <1>7, <1>8, <1>9, <1>10 DEF InotifyIInv

\* on: one more listener, at most one more watch, and the first read.
LEMMA OnKeeps ==
    ASSUME InotifyIInv, NEW w \in WatchIds, NEW f \in FuncIds, On(w, f)
    PROVE  InotifyIInv'
<1>1. /\ phase = "js" /\ f \notin given /\ SubmitReadRequest
      /\ kernelWatch' = kernelWatch \cup {w} /\ used' = used \cup {w}
      /\ count' = count + 1 /\ given' = given \cup {f}
      /\ inotifyMap' = [inotifyMap EXCEPT ![w] = Append(@, f)]
      /\ stale' \in {stale, "moved"}
      /\ UNCHANGED <<cur, evq, batch, pos, told, drops>>
  BY DEF On
<1>2. /\ CoreInv' /\ Balance' = Balance /\ phase' \in {"js", "crashed"}
      /\ needSubmit' = FALSE
      /\ cur # None => kind'[cur] = kind[cur]
      /\ phase' # "crashed" => \E r \in Requests : Readers' = {r}
  <2>1. CASE needSubmit
    <3>1. PICK r \in Requests :
            where[r] = "free" /\ SubmitRequest(r, "inotify", "js")
      BY <1>1, <2>1 DEF SubmitReadRequest
    <3>2. "inotify" \in Kinds \ {"none"}  BY DEF Kinds
    <3>3. CoreInv' /\ Balance' = Balance
      BY <1>1, <3>1, <3>2, SubmitFreeKeeps DEF InotifyIInv
    <3>4. needSubmit' = FALSE  BY <1>1, <2>1 DEF SubmitReadRequest
    <3>5. Readers = {}  BY <2>1 DEF InotifyIInv, ReaderInv, WatchInv
    <3>6. phase' = "crashed" \/ (phase' = "js" /\ kind' = [kind EXCEPT ![r] = "inotify"])
      BY <3>1 DEF SubmitRequest
    <3>7. phase' # "crashed" => Readers' = {r}
      BY <3>5, <3>6 DEF Readers, InotifyIInv, CoreInv, RingCore
    <3>8. where[r] = "free" /\ (kind' = kind \/ kind' = [kind EXCEPT ![r] = "inotify"])
      BY <3>1 DEF SubmitRequest
    <3>9. cur # None => kind'[cur] = kind[cur]
      BY <3>8, CurrentIsKept DEF InotifyIInv
    <3>10. QED  BY <3>3, <3>4, <3>6, <3>7, <3>9
  <2>2. CASE ~needSubmit
    <3>1. UNCHANGED <<phase, pending, where, kind, cq, ready, needSubmit>>
      BY <1>1, <2>2 DEF SubmitReadRequest
    <3>2. UNCHANGED ringVars  BY <1>1, <3>1 DEF ringVars
    <3>3. CoreInv' /\ Balance' = Balance
      BY <3>2, StutterKeepsCore DEF InotifyIInv
    <3>4. \E r \in Requests : Readers = {r}
      BY <1>1, <2>2 DEF InotifyIInv, ReaderInv, WatchInv
    <3>5. Readers' = Readers  BY <3>1 DEF Readers
    <3>6. needSubmit' = FALSE  BY <2>2, <3>1 DEF InotifyIInv, WatchInv
    <3>7. QED  BY <1>1, <3>1, <3>3, <3>4, <3>5, <3>6
  <2>3. QED  BY <2>1, <2>2
<1>3. WatchInv'
  <2>1. inotifyMap' \in [WatchIds -> Seq(given')]
    <3>1. inotifyMap \in [WatchIds -> Seq(given')]
      BY <1>1, SeqMonotone DEF InotifyIInv, WatchInv
    <3>2. Append(inotifyMap[w], f) \in Seq(given')
      BY <1>1, <3>1, AppendProperties
    <3>3. QED  BY <1>1, <3>1, <3>2
  <2>2. evq' \in Seq(used') /\ batch' \in Seq(used')
    BY <1>1, SeqMonotone DEF InotifyIInv, WatchInv
  <2>3. WatchesAreCounted'
    <3>1. Cardinality(kernelWatch') <= Cardinality(kernelWatch) + 1
          /\ Cardinality(kernelWatch) \in Nat /\ Cardinality(kernelWatch') \in Nat
      BY <1>1, WatchSetChanges DEF InotifyIInv, WatchInv
    <3>2. count' >= Cardinality(kernelWatch')
      BY <1>1, <3>1 DEF InotifyIInv, WatchInv, WatchesAreCounted
    <3>3. ASSUME NEW v \in kernelWatch' PROVE inotifyMap'[v] # <<>>
      <4>1. CASE v = w
        <5>1. inotifyMap[w] \in Seq(given)  BY DEF InotifyIInv, WatchInv
        <5>2. Append(inotifyMap[w], f) # <<>>  BY <5>1
        <5>3. QED  BY <1>1, <4>1, <5>2 DEF InotifyIInv, WatchInv
      <4>2. CASE v # w
        BY <1>1, <3>3, <4>2 DEF InotifyIInv, WatchInv, WatchesAreCounted
      <4>3. QED  BY <4>1, <4>2
    <3>4. QED  BY <3>2, <3>3 DEF WatchesAreCounted
  <2>4. /\ kernelWatch' \subseteq used' /\ used' \subseteq WatchIds
        /\ given' \subseteq FuncIds /\ told' \subseteq given'
        /\ stale' \in {"no", "erased", "moved"}
    BY <1>1 DEF InotifyIInv, WatchInv
  <2>5. count' \in Nat /\ drops' \in Nat
    BY <1>1 DEF InotifyIInv, WatchInv
  <2>6. pos' \in Nat /\ (pos' > 0 => batch' # <<>>)
    BY <1>1 DEF InotifyIInv, WatchInv
  <2>7. needSubmit' \in BOOLEAN  BY <1>2
  <2>8. QED
    BY <2>1, <2>2, <2>3, <2>4, <2>5, <2>6, <2>7 DEF WatchInv
<1>4. ReaderInv'  BY <1>1, <1>2 DEF ReaderInv
<1>5. PendingIsShort'
  BY <1>1, <1>2 DEF InotifyIInv, PendingIsShort
<1>6. IteratorInv'  BY <1>1, <1>2, IteratorStays DEF InotifyIInv
<1>7. QED  BY <1>2, <1>3, <1>4, <1>5, <1>6 DEF InotifyIInv, Phases, Ended

\* Dropping a vector: `count` goes down with the kernel's watches, and takes a
\* unit of `pending` at zero.
LEMMA RemoveWatchKeeps ==
    ASSUME InotifyIInv, NEW w \in WatchIds, RemoveWatch(w), phase = "js",
           UNCHANGED <<phase, cur, where, kind, cq, ready, used, given,
                       needSubmit, batch, pos, told>>
    PROVE  InotifyIInv'
<1>1. /\ inotifyMap' = [inotifyMap EXCEPT ![w] = <<>>]
      /\ stale' \in {stale, "erased"}
      /\ \/ /\ w \in kernelWatch
            /\ kernelWatch' = kernelWatch \ {w} /\ evq' = Append(evq, w)
            /\ count' = count - 1
            /\ \/ pending' = pending - 1 /\ drops' = drops + 1
               \/ UNCHANGED <<pending, drops>>
         \/ w \notin kernelWatch /\ UNCHANGED <<kernelWatch, evq, count, pending, drops>>
  BY DEF RemoveWatch
<1>2. pending \in Int /\ drops \in Nat /\ Balance \in Int
  BY BalanceType DEF InotifyIInv, WatchInv, CoreInv, RingCore
<1>3. pending' \in Int  BY <1>1, <1>2
<1>4. CoreInv' /\ Balance' = Balance + (pending' - pending)
  <2>1. cur' = cur /\ where' = where /\ kind' = kind /\ cq' = cq
        /\ ready' = ready /\ phase' = "js"
    OBVIOUS
  <2>2. QED  BY <1>3, <2>1, CounterKeepsCore DEF InotifyIInv
<1>5. PendingIsShort'
  <2>1. Balance + drops = 0  BY DEF InotifyIInv, PendingIsShort
  <2>2. CASE pending' = pending - 1 /\ drops' = drops + 1
    BY <1>2, <1>4, <2>1, <2>2 DEF PendingIsShort
  <2>3. CASE UNCHANGED <<pending, drops>>
    BY <1>2, <1>4, <2>1, <2>3 DEF PendingIsShort
  <2>4. QED  BY <1>1, <2>2, <2>3
<1>6. WatchInv'
  <2>1. inotifyMap' \in [WatchIds -> Seq(given')]
    BY <1>1 DEF InotifyIInv, WatchInv
  <2>2. evq' \in Seq(used')
    <3>1. w \in kernelWatch => w \in used  BY DEF InotifyIInv, WatchInv
    <3>2. evq \in Seq(used)  BY DEF InotifyIInv, WatchInv
    <3>3. w \in kernelWatch => Append(evq, w) \in Seq(used)
      BY <3>1, <3>2, AppendProperties
    <3>4. evq' = evq \/ (w \in kernelWatch /\ evq' = Append(evq, w))  BY <1>1
    <3>5. QED  BY <3>2, <3>3, <3>4
  <2>3. /\ Cardinality(kernelWatch) \in Nat
        /\ Cardinality(kernelWatch \ {w}) = IF w \in kernelWatch
                                            THEN Cardinality(kernelWatch) - 1
                                            ELSE Cardinality(kernelWatch)
    BY WatchSetChanges DEF InotifyIInv, WatchInv
  <2>4. count' \in Int /\ count' >= Cardinality(kernelWatch')
    <3>1. count \in Nat /\ count >= Cardinality(kernelWatch)
      BY DEF InotifyIInv, WatchInv, WatchesAreCounted
    <3>2. \/ /\ count' = count - 1
             /\ Cardinality(kernelWatch') = Cardinality(kernelWatch) - 1
          \/ count' = count /\ kernelWatch' = kernelWatch
      BY <1>1, <2>3
    <3>3. QED  BY <2>3, <3>1, <3>2
  <2>5. Cardinality(kernelWatch') \in Nat
    <3>1. kernelWatch' \in SUBSET WatchIds  BY <1>1 DEF InotifyIInv, WatchInv
    <3>2. QED  BY <3>1, WatchSetChanges
  <2>6. count' \in Nat  BY <2>4, <2>5
  <2>7. \A v \in kernelWatch' : inotifyMap'[v] # <<>>
    BY <1>1 DEF InotifyIInv, WatchInv, WatchesAreCounted
  <2>8. WatchesAreCounted'  BY <2>4, <2>7 DEF WatchesAreCounted
  <2>9. kernelWatch' \subseteq used' /\ drops' \in Nat
    BY <1>1, <1>2 DEF InotifyIInv, WatchInv
  <2>10. QED
    BY <1>1, <2>1, <2>2, <2>6, <2>8, <2>9 DEF InotifyIInv, WatchInv
<1>7. ReaderInv'  BY ReaderStays DEF InotifyIInv
<1>8. IteratorInv'  BY IteratorStays DEF InotifyIInv
<1>9. QED  BY <1>4, <1>5, <1>6, <1>7, <1>8 DEF InotifyIInv

\* off of one listener: of several, it goes alone.
LEMMA OffKeeps ==
    ASSUME InotifyIInv, NEW w \in WatchIds, NEW f \in FuncIds, Off(w, f)
    PROVE  InotifyIInv'
<1>1. /\ phase = "js"
      /\ UNCHANGED <<phase, cur, where, kind, cq, ready, used, given,
                     needSubmit, batch, pos, told>>
  BY DEF Off
<1>2. PICK i \in 1..Len(inotifyMap[w]) :
        IF Len(inotifyMap[w]) > 1
        THEN /\ inotifyMap' = [inotifyMap EXCEPT ![w] = Erased(@, i)]
             /\ UNCHANGED <<kernelWatch, evq, count, pending, drops, stale>>
        ELSE RemoveWatch(w)
  BY DEF Off
<1>3. CASE Len(inotifyMap[w]) > 1
  <2>1. /\ inotifyMap' = [inotifyMap EXCEPT ![w] = Erased(inotifyMap[w], i)]
        /\ UNCHANGED <<kernelWatch, evq, count, pending, drops, stale>>
    BY <1>2, <1>3
  <2>2. inotifyMap[w] \in Seq(given)  BY DEF InotifyIInv, WatchInv
  <2>3. /\ Erased(inotifyMap[w], i) \in Seq(given)
        /\ Len(Erased(inotifyMap[w], i)) = Len(inotifyMap[w]) - 1
    BY <2>2, ErasedIs
  <2>4. Len(inotifyMap[w]) \in Nat  BY <2>2, LenProperties
  <2>5. Erased(inotifyMap[w], i) # <<>>
    <3>1. Len(Erased(inotifyMap[w], i)) > 0  BY <1>3, <2>3, <2>4
    <3>2. QED  BY <3>1
  <2>6. CoreInv' /\ Balance' = Balance
    <3>1. UNCHANGED ringVars  BY <1>1, <2>1 DEF ringVars
    <3>2. QED  BY <3>1, StutterKeepsCore DEF InotifyIInv
  <2>7. WatchInv'
    BY <1>1, <2>1, <2>3, <2>5 DEF InotifyIInv, WatchInv, WatchesAreCounted
  <2>8. ReaderInv'  BY <1>1, ReaderStays DEF InotifyIInv
  <2>9. IteratorInv'  BY <1>1, IteratorStays DEF InotifyIInv
  <2>10. QED
    BY <1>1, <2>1, <2>6, <2>7, <2>8, <2>9 DEF InotifyIInv, PendingIsShort
<1>4. CASE ~(Len(inotifyMap[w]) > 1)
  BY <1>1, <1>2, <1>4, RemoveWatchKeeps
<1>5. QED  BY <1>3, <1>4

\* off of all.
LEMMA OffAllKeeps ==
    ASSUME InotifyIInv, NEW w \in WatchIds, OffAll(w) PROVE InotifyIInv'
<1>1. /\ phase = "js" /\ RemoveWatch(w)
      /\ UNCHANGED <<phase, cur, where, kind, cq, ready, used, given,
                     needSubmit, batch, pos, told>>
  BY DEF OffAll
<1>2. QED  BY <1>1, RemoveWatchKeeps

\* The kernel queues events; a deleted file loses its watch.
LEMMA KernelKeeps ==
    ASSUME InotifyIInv, NEW w \in WatchIds, FileChanged(w) \/ FileDeleted(w)
    PROVE  InotifyIInv'
<1>1. /\ UNCHANGED <<ringVars, used, inotifyMap, given, count, needSubmit,
                     batch, pos, stale, told, drops>>
      /\ w \in kernelWatch
      /\ \/ kernelWatch' = kernelWatch /\ evq' = Append(evq, w)
         \/ kernelWatch' = kernelWatch \ {w} /\ evq' = evq \o <<w, w>>
  BY DEF FileChanged, FileDeleted
<1>2. CoreInv' /\ Balance' = Balance
  BY <1>1, StutterKeepsCore DEF InotifyIInv
<1>3. w \in used /\ evq \in Seq(used)
  BY <1>1 DEF InotifyIInv, WatchInv
<1>4. evq' \in Seq(used)
  <2>1. Append(evq, w) \in Seq(used)  BY <1>3, AppendProperties
  <2>2. <<w, w>> \in Seq(used)  BY <1>3
  <2>3. evq \o <<w, w>> \in Seq(used)  BY <1>3, <2>2, ConcatProperties
  <2>4. QED  BY <1>1, <2>1, <2>3
<1>5. WatchesAreCounted'
  <2>1. /\ Cardinality(kernelWatch) \in Nat
        /\ Cardinality(kernelWatch \ {w}) = Cardinality(kernelWatch) - 1
    BY <1>1, WatchSetChanges DEF InotifyIInv, WatchInv
  <2>2. count' >= Cardinality(kernelWatch')
    <3>1. count' = count /\ count \in Nat /\ count >= Cardinality(kernelWatch)
      BY <1>1 DEF InotifyIInv, WatchInv, WatchesAreCounted
    <3>2. \/ Cardinality(kernelWatch') = Cardinality(kernelWatch)
          \/ Cardinality(kernelWatch') = Cardinality(kernelWatch) - 1
      BY <1>1, <2>1
    <3>3. QED  BY <2>1, <3>1, <3>2
  <2>3. \A v \in kernelWatch' : inotifyMap'[v] # <<>>
    BY <1>1 DEF InotifyIInv, WatchInv, WatchesAreCounted
  <2>4. QED  BY <2>2, <2>3 DEF WatchesAreCounted
<1>6. WatchInv'
  BY <1>1, <1>4, <1>5 DEF InotifyIInv, WatchInv
<1>7. ReaderInv'
  BY <1>1, ReaderStays DEF InotifyIInv, ringVars
<1>8. IteratorInv'  BY <1>1, IteratorStays DEF InotifyIInv, ringVars
<1>9. QED
  BY <1>1, <1>2, <1>6, <1>7, <1>8 DEF InotifyIInv, PendingIsShort, ringVars

\* A request completes; the read's completion takes the oldest events.
LEMMA CompleteReadKeeps ==
    ASSUME InotifyIInv, NEW r \in Requests, CompleteRead(r)
    PROVE  InotifyIInv'
<1> DEFINE n == Smaller(Len(evq), 4096 \div EventSize)
<1>1. /\ Complete(r) /\ evq # <<>>
      /\ batch' = SubSeq(evq, 1, n) /\ evq' = SubSeq(evq, n + 1, Len(evq))
      /\ UNCHANGED <<kernelWatch, used, inotifyMap, given, count, needSubmit,
                     pos, stale, told, drops>>
  BY DEF CompleteRead
<1>2. CoreInv' /\ Balance' = Balance
  BY <1>1, CompleteKeepsCore DEF InotifyIInv
<1>3. evq \in Seq(used) /\ Len(evq) \in Nat /\ Len(evq) > 0
  BY <1>1, LenProperties, EmptySeq DEF InotifyIInv, WatchInv
<1>4. n \in 1..Len(evq)
  <2>1. EventSize \in 16..272  BY EventAssumption
  <2>2. 4096 \div EventSize \in Nat /\ 4096 \div EventSize >= 1
    <3>1. EventSize \in {16, 32, 48, 64, 80, 96, 112, 128, 144, 160, 176, 192,
                         208, 224, 240, 256, 272}
      BY EventAssumption
    <3>2. QED  BY <3>1
  <2>3. QED  BY <1>3, <2>2 DEF Smaller
<1> HIDE DEF n
<1>5. batch' \in Seq(used) /\ evq' \in Seq(used)
  BY <1>1, <1>3, <1>4, SubSeqProperties
<1>6. batch' # <<>>
  <2>1. Len(batch') = n  BY <1>1, <1>3, <1>4, SubSeqProperties
  <2>2. QED  BY <1>4, <2>1
<1>7. WatchInv'
  BY <1>1, <1>5, <1>6 DEF InotifyIInv, WatchInv, WatchesAreCounted
<1>8. phase' = phase /\ kind' = kind /\ cur' = cur  BY <1>1 DEF Complete
<1>9. ReaderInv'  BY <1>1, <1>8, ReaderStays DEF InotifyIInv
<1>10. IteratorInv'  BY <1>1, <1>8, IteratorStays DEF InotifyIInv
<1>11. QED
  BY <1>1, <1>2, <1>7, <1>8, <1>9, <1>10 DEF InotifyIInv, PendingIsShort

\* The handler is called; it does not look beyond the read.
LEMMA ReapReadKeeps == ASSUME InotifyIInv, ReapRead PROVE InotifyIInv'
<1>1. /\ Deliver("after") /\ batch' = SubSeq(batch, 1, Handled(Len(batch)))
      /\ UNCHANGED <<kernelWatch, used, inotifyMap, given, count, needSubmit,
                     evq, pos, stale, told, drops>>
  BY DEF ReapRead
<1>2. CoreInv' /\ Balance' = Balance
  BY <1>1, DeliverKeepsCore DEF InotifyIInv
<1>3. /\ phase = "drain" /\ phase' = "after" /\ kind' = kind
  BY <1>1 DEF Deliver, CallBack
<1>4. batch \in Seq(used) /\ Len(batch) \in Nat
  BY LenProperties DEF InotifyIInv, WatchInv
<1>5. Handled(Len(batch)) \in 0..Len(batch)
  BY <1>4, HandledBound
<1>6. batch' \in Seq(used)  BY <1>1, <1>4, <1>5, SubSeqProperties
<1>7. pos = 0
  BY <1>3, NoIterator DEF InotifyIInv, CoreInv, OneCallbackAtATime
<1>8. WatchInv'
  BY <1>1, <1>6, <1>7 DEF InotifyIInv, WatchInv, WatchesAreCounted
<1>9. ReaderInv'  BY <1>1, <1>3, ReaderStays DEF InotifyIInv
<1>10. IteratorInv'  BY <1>1, <1>7 DEF IteratorInv
<1>11. QED
  BY <1>1, <1>2, <1>3, <1>8, <1>9, <1>10
     DEF InotifyIInv, PendingIsShort, Phases

\* The handler calls a listener, goes on to the next event, or runs away.
LEMMA HandlerMovesKeeps ==
    ASSUME InotifyIInv, NextEvent \/ NextListener PROVE InotifyIInv'
<1>1. /\ phase = "after" /\ kind[cur] = "inotify"
      /\ UNCHANGED <<cur, pending, where, kind, cq, ready, kernelWatch, used,
                     inotifyMap, given, count, needSubmit, evq, drops>>
  BY DEF NextEvent, NextListener, InHandler
<1>2. cur # None  BY <1>1 DEF InotifyIInv, CoreInv, OneCallbackAtATime
<1>3. batch # <<>>
  BY DEF NextEvent, NextListener, InotifyIInv, WatchInv
<1>4. batch \in Seq(used) /\ Head(batch) \in WatchIds
  <2>1. batch \in Seq(used)  BY DEF InotifyIInv, WatchInv
  <2>2. Head(batch) \in used  BY <1>3, <2>1
  <2>3. QED  BY <2>1, <2>2 DEF InotifyIInv, WatchInv
<1> DEFINE vec == inotifyMap[Head(batch)]
<1>5. vec \in Seq(given) /\ Len(vec) \in Nat /\ pos \in Nat
  BY <1>4, LenProperties DEF InotifyIInv, WatchInv
<1>6. \/ \E n \in 1..Len(vec) : CallListener(n)
      \/ EventDone
      \/ phase' = "crashed" /\ UNCHANGED <<batch, pos, stale, told>>
  <2>1. CASE NextEvent
    <3>1. vec # <<>> => 1 \in 1..Len(vec)  BY <1>5, EmptySeq
    <3>2. QED  BY <2>1, <3>1 DEF NextEvent
  <2>2. CASE NextListener
    <3>1. pos < Len(vec) => pos + 1 \in 1..Len(vec)  BY <1>5
    <3>2. QED  BY <2>2, <3>1 DEF NextListener
  <2>3. QED  BY <2>1, <2>2
<1> HIDE DEF vec
<1>7. /\ phase' \in {"js", "after", "crashed"}
      /\ told' \subseteq given /\ batch' \in Seq(used)
      /\ pos' \in Nat /\ (pos' > 0 => batch' # <<>>)
      /\ stale' \in {"no", "erased", "moved"}
  <2>1. CASE \E n \in 1..Len(vec) : CallListener(n)
    <3>1. PICK n \in 1..Len(vec) : CallListener(n)  BY <2>1
    <3>2. /\ pos' = n /\ phase' = "js" /\ told' = told \cup {vec[n]}
          /\ batch' = batch /\ stale' = stale
      BY <3>1 DEF CallListener, vec
    <3>3. vec[n] \in given  BY <1>5, ElementOfSeq
    <3>4. pos' \in Nat  BY <1>5, <3>2
    <3>5. QED  BY <1>3, <1>4, <3>2, <3>3, <3>4 DEF InotifyIInv, WatchInv
  <2>2. CASE EventDone
    <3>1. Tail(batch) \in Seq(used)  BY <1>3, <1>4
    <3>2. QED  BY <1>1, <2>2, <3>1 DEF EventDone
  <2>3. CASE phase' = "crashed" /\ UNCHANGED <<batch, pos, stale, told>>
    BY <2>3 DEF InotifyIInv, WatchInv
  <2>4. QED  BY <1>6, <2>1, <2>2, <2>3
<1>8. CoreInv' /\ Balance' = Balance
  <2>1. pending' \in Int /\ Balance' = Balance + (pending' - pending) /\ CoreInv'
    BY <1>1, <1>2, <1>7, CounterKeepsCore
       DEF InotifyIInv, CoreInv, RingCore
  <2>2. QED
    BY <1>1, <2>1, BalanceType DEF InotifyIInv, CoreInv, RingCore
<1>9. WatchInv'
  BY <1>1, <1>7 DEF InotifyIInv, WatchInv, WatchesAreCounted
<1>10. ReaderInv'
  BY <1>1, ReaderStays DEF InotifyIInv
<1>11. IteratorInv'  BY <1>1, <1>2 DEF IteratorInv
<1>12. QED
  BY <1>1, <1>7, <1>8, <1>9, <1>10, <1>11
     DEF InotifyIInv, PendingIsShort, Phases, Ended

\* The handler ends: the read is submitted again, in the same request.
LEMMA HandlerDoneKeeps == ASSUME InotifyIInv, HandlerDone PROVE InotifyIInv'
<1>1. /\ phase = "after" /\ kind[cur] = "inotify" /\ batch = <<>>
      /\ SubmitRequest(cur, "inotify", "drain")
      /\ cur' = IF phase' = "drain" THEN None ELSE cur
      /\ UNCHANGED inotifyVars
  BY DEF HandlerDone, InHandler
<1>2. "inotify" \in Kinds \ {"none"}  BY DEF Kinds
<1>3. CoreInv' /\ Balance' = Balance
  BY <1>1, <1>2, ResubmitKeeps DEF InotifyIInv
<1>4. cur \in Requests
  BY <1>1 DEF InotifyIInv, CoreInv, OneCallbackAtATime
<1>5. phase' \in {"drain", "crashed"} /\ kind' = kind
  <2>1. [kind EXCEPT ![cur] = "inotify"] = kind
    BY <1>1, <1>4 DEF InotifyIInv, CoreInv, RingCore
  <2>2. QED  BY <1>1, <2>1 DEF SubmitRequest
<1>6. WatchInv'  BY <1>1, WatchStays DEF InotifyIInv
<1>7. ReaderInv'
  BY <1>1, <1>5, ReaderStays DEF InotifyIInv, inotifyVars
<1>8. IteratorInv'
  <2>1. pos' = 0  BY <1>1 DEF inotifyVars, InotifyIInv, WatchInv
  <2>2. QED  BY <2>1 DEF IteratorInv
<1>9. PendingIsShort'
  BY <1>1, <1>3 DEF inotifyVars, InotifyIInv, PendingIsShort
<1>10. QED
  BY <1>3, <1>5, <1>6, <1>7, <1>8, <1>9 DEF InotifyIInv, Phases, Ended

\* Nothing changes.
LEMMA InotifyStutter ==
    ASSUME InotifyIInv, UNCHANGED allVars PROVE InotifyIInv'
<1>1. UNCHANGED ringVars /\ UNCHANGED inotifyVars  BY DEF allVars
<1>2. CoreInv' /\ Balance' = Balance
  BY <1>1, StutterKeepsCore DEF InotifyIInv
<1>3. WatchInv'  BY <1>1, WatchStays DEF InotifyIInv
<1>4. phase' = phase /\ kind' = kind /\ cur' = cur  BY <1>1 DEF ringVars
<1>5. pos' = pos /\ used' = used /\ needSubmit' = needSubmit /\ drops' = drops
  BY <1>1 DEF inotifyVars
<1>6. ReaderInv'  BY <1>4, <1>5, ReaderStays DEF InotifyIInv
<1>7. IteratorInv'  BY <1>4, <1>5, IteratorStays DEF InotifyIInv
<1>8. QED
  BY <1>2, <1>3, <1>4, <1>5, <1>6, <1>7 DEF InotifyIInv, PendingIsShort

\* Every step.
LEMMA StepInotifyIInv ==
    ASSUME InotifyIInv, [InotifyNext]_allVars PROVE InotifyIInv'
<1>1. CASE OtherStep  BY <1>1, OtherStepKeeps
<1>2. CASE \E w \in WatchIds, f \in FuncIds : On(w, f)  BY <1>2, OnKeeps
<1>3. CASE \E w \in WatchIds, f \in FuncIds : Off(w, f)  BY <1>3, OffKeeps
<1>4. CASE \E w \in WatchIds : OffAll(w)  BY <1>4, OffAllKeeps
<1>5. CASE \E w \in WatchIds : FileChanged(w) \/ FileDeleted(w)
  BY <1>5, KernelKeeps
<1>6. CASE \E r \in Requests : CompleteRead(r)  BY <1>6, CompleteReadKeeps
<1>7. CASE ReapRead  BY <1>7, ReapReadKeeps
<1>8. CASE NextEvent \/ NextListener  BY <1>8, HandlerMovesKeeps
<1>9. CASE HandlerDone  BY <1>9, HandlerDoneKeeps
<1>10. CASE UNCHANGED allVars  BY <1>10, InotifyStutter
<1>11. QED
  BY <1>1, <1>2, <1>3, <1>4, <1>5, <1>6, <1>7, <1>8, <1>9, <1>10
     DEF InotifyNext, HandlerStep, Over, allVars

\* The invariant of every run of the module.
THEOREM InotifyInvariance == InotifySpec => []InotifyIInv
<1>1. InotifyInit => InotifyIInv  BY InotifyInitIInv
<1>2. InotifyIInv /\ [InotifyNext]_allVars => InotifyIInv'
  BY StepInotifyIInv
<1>3. QED  BY <1>1, <1>2, PTL DEF InotifySpec

-----------------------------------------------------------------------------
(* What the runs check *)

\* Types, for any number of descriptors, listeners and events.
THEOREM InotifyTypeCorrect == InotifySpec => []InotifyTypeOK
<1>1. InotifyIInv => InotifyTypeOK
  BY DEF InotifyIInv, InotifyTypeOK, WatchInv, CoreInv, RingCore, RingTypeOK
<1>2. QED  BY <1>1, InotifyInvariance, PTL

\* inotify.cc:127 and io_uring.cc:93: the loop's counter is short by exactly
\* the units the removals of last watches took.
THEOREM PendingIsCounted == InotifySpec => []PendingIsShort
<1>1. InotifyIInv => PendingIsShort  BY DEF InotifyIInv
<1>2. QED  BY <1>1, InotifyInvariance, PTL

\* inotify.cc:75-86 and 113-127: `count` never falls below the watches that
\* live, and each of them has a listener.
THEOREM WatchesAlwaysCounted == InotifySpec => []WatchesAreCounted
<1>1. InotifyIInv => WatchesAreCounted  BY DEF InotifyIInv, WatchInv
<1>2. QED  BY <1>1, InotifyInvariance, PTL

\* inotify.cc:32-49: one read of the inotify fd, whatever listeners do.
THEOREM AlwaysOneReader == InotifySpec => []OneReader
<1>1. InotifyIInv => OneReader
  <2>1. SUFFICES ASSUME InotifyIInv, phase # "crashed"
        PROVE  Cardinality(Readers) = IF used = {} THEN 0 ELSE 1
    BY DEF OneReader
  <2>2. CASE used = {}
    BY <2>1, <2>2, FS_EmptySet DEF InotifyIInv, ReaderInv
  <2>3. CASE used # {}
    BY <2>1, <2>3, FS_Singleton DEF InotifyIInv, ReaderInv
  <2>4. QED  BY <2>2, <2>3
<1>2. QED  BY <1>1, InotifyInvariance, PTL

\* inotify.cc:8-12: for every event size and number of events, the size of the
\* read narrowed to a char never leads the handler past the read.
THEOREM ReadsStayInside == InotifySpec => []NeverReadsPastTheBatch
<1>1. InotifyIInv => NeverReadsPastTheBatch
  <2>1. SUFFICES ASSUME InotifyIInv PROVE Handled(Len(batch)) <= Len(batch)
    BY DEF NeverReadsPastTheBatch
  <2>2. batch \in Seq(used)  BY <2>1 DEF InotifyIInv, WatchInv
  <2>3. Len(batch) \in Nat  BY <2>2, LenProperties
  <2>4. QED  BY <2>3, HandledBound
<1>2. QED  BY <1>1, InotifyInvariance, PTL

-----------------------------------------------------------------------------
(* The process ends by itself only if the watches let it go *)

\* The loop is left when its counter is zero, and then nothing counts.
LeftAtZero == phase = "exited" => pending = 0

LEMMA ExitStep ==
    ASSUME LeftAtZero, [InotifyNext]_allVars PROVE LeftAtZero'
<1>1. CASE phase' = "exited"
  <2>1. CASE OtherStep
    <3>1. phase = "check" /\ LoopCheck
      BY <1>1, <2>1
         DEF OtherStep, LoopStep, LoopCheck, Wake, Interrupted, DrainDone,
             JSReturn, Terminate, Enter, Reap, Deliver, CallBack, Rearm, Release, Free,
             Complete, Live, Ended, JSOperation, ReadWrite, Close, Connect,
             Listen, OpenAt, Request, SubmitRequest
    <3>2. QED  BY <1>1, <3>1 DEF LoopCheck, LeftAtZero
  <2>2. CASE HandlerStep
    BY <1>1, <2>2 DEF HandlerStep, ReapRead, Deliver, CallBack, NextEvent,
                      NextListener, InHandler, CallListener, EventDone, HandlerDone,
                      SubmitRequest
  <2>3. CASE \E w \in WatchIds :
               (\E f \in FuncIds : On(w, f) \/ Off(w, f)) \/ OffAll(w)
    BY <1>1, <2>3 DEF On, SubmitReadRequest, SubmitRequest, Off, OffAll
  <2>4. CASE \E w \in WatchIds : FileChanged(w) \/ FileDeleted(w)
    BY <1>1, <2>4 DEF FileChanged, FileDeleted, ringVars, Live, Ended
  <2>5. CASE \E r \in Requests : CompleteRead(r)
    BY <1>1, <2>5 DEF CompleteRead, Complete, Live, Ended
  <2>6. CASE UNCHANGED ringVars
    BY <2>6 DEF ringVars, LeftAtZero
  <2>7. QED
    BY <2>1, <2>2, <2>3, <2>4, <2>5, <2>6 DEF InotifyNext, Over, allVars
<1>2. QED  BY <1>1 DEF LeftAtZero

\* io_uring.cc:93 and inotify.cc:33: a process that made a watch leaves the
\* loop only after the last watch was removed at some time.
THEOREM WatchesKeepTheLoop == InotifySpec => []WatchKeepsLoopAlive
<1>1. InotifyInit => LeftAtZero
  BY DEF InotifyInit, RingInit, LeftAtZero
<1>2. LeftAtZero /\ [InotifyNext]_allVars => LeftAtZero'
  BY ExitStep
<1>3. InotifyIInv /\ LeftAtZero => WatchKeepsLoopAlive
  <2>1. SUFFICES ASSUME InotifyIInv, LeftAtZero, phase = "exited", used # {}
        PROVE  drops > 0
    BY DEF WatchKeepsLoopAlive
  <2>2. PICK r \in Requests : Readers = {r}
    BY <2>1 DEF InotifyIInv, ReaderInv
  <2>3. r \in Requests /\ kind[r] = "inotify"  BY <2>2 DEF Readers
  <2>4. where[r] # "free" /\ where[r] # "cb"
    BY <2>1, <2>3, RequestsAssumption
       DEF InotifyIInv, CoreInv, RingCore, FreeIsNothing, OneCallbackAtATime, At
  <2>5. r \in Outstanding
    BY <2>1, <2>3, <2>4 DEF Outstanding, InotifyIInv, CoreInv, RingCore, Places
  <2>6. IsFiniteSet(Outstanding)
    BY RequestsAssumption, FS_Subset DEF Outstanding
  <2>7. Cardinality(Outstanding) \in Nat /\ Cardinality(Outstanding) # 0
    BY <2>5, <2>6, FS_CardinalityType, FS_EmptySet
  <2>8. pending = 0 /\ drops \in Nat
    BY <2>1 DEF LeftAtZero, InotifyIInv, WatchInv
  <2>9. QED
    BY <2>1, <2>7, <2>8 DEF InotifyIInv, PendingIsShort, Balance
<1>4. QED  BY <1>1, <1>2, <1>3, InotifyInvariance, PTL DEF InotifySpec

-----------------------------------------------------------------------------
(* No listener is called twice for an event *)

\* A vector never holds a listener twice, and none of those behind a good
\* iterator was called for the event.
ToldInv ==
    /\ \A w \in WatchIds : \A i, j \in 1..Len(inotifyMap[w]) :
         inotifyMap[w][i] = inotifyMap[w][j] => i = j
    /\ pos = 0 => told = {}
    /\ pos > 0 /\ stale = "no" =>
         \A i \in 1..Len(inotifyMap[Head(batch)]) :
            i > pos => inotifyMap[Head(batch)][i] \notin told

\* Where the elements of the shorter vector come from.
LEMMA ErasedAt ==
    ASSUME NEW S, NEW vec \in Seq(S), NEW i \in 1..Len(vec),
           NEW j \in 1..Len(Erased(vec, i))
    PROVE  /\ j < i => j \in 1..Len(vec) /\ Erased(vec, i)[j] = vec[j]
           /\ j >= i => j + 1 \in 1..Len(vec) /\ Erased(vec, i)[j] = vec[j + 1]
<1>1. Len(vec) \in Nat /\ Len(Erased(vec, i)) = Len(vec) - 1
  BY ErasedIs, LenProperties
<1> DEFINE s == SubSeq(vec, 1, i - 1)
           t == SubSeq(vec, i + 1, Len(vec))
<1>2. /\ s \in Seq(S) /\ Len(s) = i - 1
      /\ \A n \in 1..(i - 1) : s[n] = vec[n]
  BY <1>1
<1>3. /\ t \in Seq(S) /\ Len(t) = Len(vec) - i
      /\ \A n \in 1..(Len(vec) - i) : t[n] = vec[i + n]
  BY <1>1
<1>4. Erased(vec, i) = s \o t  BY DEF Erased
<1> HIDE DEF s, t
<1>5. \A n \in 1..(Len(s) + Len(t)) :
         (s \o t)[n] = IF n <= Len(s) THEN s[n] ELSE t[n - Len(s)]
  BY <1>2, <1>3, ConcatProperties
<1>6. j \in 1..(Len(s) + Len(t)) /\ j \in Nat /\ i \in Nat
  BY <1>1, <1>2, <1>3
<1>7. CASE j < i
  <2>1. j <= Len(s) /\ j \in 1..(i - 1) /\ j \in 1..Len(vec)
    BY <1>1, <1>2, <1>6, <1>7
  <2>2. QED  BY <1>2, <1>4, <1>5, <1>6, <1>7, <2>1
<1>8. CASE j >= i
  <2>1. ~(j <= Len(s)) /\ j - Len(s) \in 1..(Len(vec) - i)
        /\ i + (j - Len(s)) = j + 1 /\ j + 1 \in 1..Len(vec)
    BY <1>1, <1>2, <1>3, <1>6, <1>8
  <2>2. QED  BY <1>3, <1>4, <1>5, <1>6, <1>8, <2>1
<1>9. QED  BY <1>6, <1>7, <1>8

\* Steps that leave the listeners and the iterator alone.
LEMMA ToldStays ==
    ASSUME ToldInv, UNCHANGED <<inotifyMap, pos, told, stale, batch>>
    PROVE  ToldInv'
BY DEF ToldInv

\* A new listener is a new id at the end.
LEMMA OnTold ==
    ASSUME InotifyIInv, ToldInv, NEW w \in WatchIds, NEW f \in FuncIds, On(w, f)
    PROVE  ToldInv'
<1>1. /\ f \notin given
      /\ inotifyMap' = [inotifyMap EXCEPT ![w] = Append(inotifyMap[w], f)]
      /\ stale' \in {stale, "moved"}
      /\ batch' = batch /\ pos' = pos /\ told' = told
  BY DEF On
<1>2. /\ inotifyMap \in [WatchIds -> Seq(given)] /\ told \subseteq given
  BY DEF InotifyIInv, WatchInv
<1> DEFINE vec == inotifyMap[w]
<1>3. vec \in Seq(given) /\ Len(vec) \in Nat  BY <1>2, LenProperties
<1>4. /\ Len(Append(vec, f)) = Len(vec) + 1
      /\ \A i \in 1..Len(vec) : Append(vec, f)[i] = vec[i] /\ vec[i] \in given
      /\ Append(vec, f)[Len(vec) + 1] = f
  BY <1>3, ElementOfSeq, AppendProperties
<1>5. inotifyMap'[w] = Append(vec, f)  BY <1>1, <1>2
<1> HIDE DEF vec
<1>6. ASSUME NEW v \in WatchIds, NEW i \in 1..Len(inotifyMap'[v]),
             NEW j \in 1..Len(inotifyMap'[v]), inotifyMap'[v][i] = inotifyMap'[v][j]
      PROVE  i = j
  <2>1. CASE v # w  BY <1>1, <1>2, <1>6, <2>1 DEF ToldInv
  <2>2. CASE v = w
    <3>1. i \in 1..Len(vec) \/ i = Len(vec) + 1  BY <1>3, <1>4, <1>5, <2>2
    <3>2. j \in 1..Len(vec) \/ j = Len(vec) + 1  BY <1>3, <1>4, <1>5, <2>2
    <3>3. \A a, b \in 1..Len(vec) : vec[a] = vec[b] => a = b
      BY DEF ToldInv, vec
    <3>4. QED  BY <1>1, <1>4, <1>5, <1>6, <2>2, <3>1, <3>2, <3>3
  <2>3. QED  BY <2>1, <2>2
<1>7. ASSUME pos > 0, stale' = "no", NEW i \in 1..Len(inotifyMap'[Head(batch)]),
             i > pos
      PROVE  inotifyMap'[Head(batch)][i] \notin told
  <2>1. stale = "no"  BY <1>1, <1>7
  <2>2. CASE Head(batch) = w
    <3>1. i \in 1..Len(vec) \/ i = Len(vec) + 1  BY <1>3, <1>4, <1>5, <2>2
    <3>2. CASE i \in 1..Len(vec)
      BY <1>4, <1>5, <1>7, <2>1, <2>2, <3>2 DEF ToldInv, vec
    <3>3. CASE i = Len(vec) + 1  BY <1>1, <1>2, <1>4, <1>5, <2>2, <3>3
    <3>4. QED  BY <3>1, <3>2, <3>3
  <2>3. CASE Head(batch) # w
    <3>1. inotifyMap'[Head(batch)] = inotifyMap[Head(batch)]
      <4>1. batch \in Seq(used) /\ batch # <<>> /\ used \subseteq WatchIds
        BY <1>7 DEF InotifyIInv, WatchInv
      <4>2. Head(batch) \in WatchIds  BY <4>1
      <4>3. QED  BY <1>1, <1>2, <2>3, <4>2
    <3>2. QED  BY <1>7, <2>1, <3>1 DEF ToldInv
  <2>4. QED  BY <2>2, <2>3
<1>8. QED  BY <1>1, <1>6, <1>7 DEF ToldInv

\* A vector that is gone marks its iterator.
LEMMA RemoveWatchTold ==
    ASSUME InotifyIInv, ToldInv, NEW w \in WatchIds, RemoveWatch(w),
           UNCHANGED <<batch, pos, told>>
    PROVE  ToldInv'
<1>1. /\ inotifyMap' = [inotifyMap EXCEPT ![w] = <<>>]
      /\ stale' = "no" => stale = "no"
      /\ batch' = batch /\ pos' = pos /\ told' = told
  BY DEF RemoveWatch
<1>2. inotifyMap \in [WatchIds -> Seq(given)]
  BY DEF InotifyIInv, WatchInv
<1>3. \A v \in WatchIds : inotifyMap'[v] = inotifyMap[v] \/ Len(inotifyMap'[v]) = 0
  BY <1>1, <1>2
<1>4. pos > 0 => Head(batch) \in WatchIds
  <2>1. pos > 0 => batch \in Seq(used) /\ batch # <<>>
    BY DEF InotifyIInv, WatchInv
  <2>2. pos > 0 => Head(batch) \in used  BY <2>1
  <2>3. QED  BY <2>2 DEF InotifyIInv, WatchInv
<1>5. QED  BY <1>1, <1>3, <1>4 DEF ToldInv

\* A listener that goes moves the others to the front, never behind the
\* iterator again.
LEMMA OffTold ==
    ASSUME InotifyIInv, ToldInv, NEW w \in WatchIds, NEW f \in FuncIds, Off(w, f)
    PROVE  ToldInv'
<1>1. batch' = batch /\ pos' = pos /\ told' = told  BY DEF Off
<1>2. PICK k \in 1..Len(inotifyMap[w]) :
        IF Len(inotifyMap[w]) > 1
        THEN /\ inotifyMap' = [inotifyMap EXCEPT ![w] = Erased(@, k)]
             /\ UNCHANGED <<kernelWatch, evq, count, pending, drops, stale>>
        ELSE RemoveWatch(w)
  BY DEF Off
<1>3. CASE ~(Len(inotifyMap[w]) > 1)
  BY <1>1, <1>2, <1>3, RemoveWatchTold
<1>4. CASE Len(inotifyMap[w]) > 1
  <2> DEFINE vec == inotifyMap[w]
             new == Erased(vec, k)
  <2>1. inotifyMap' = [inotifyMap EXCEPT ![w] = new] /\ stale' = stale
    BY <1>2, <1>4
  <2>2. inotifyMap \in [WatchIds -> Seq(given)] /\ vec \in Seq(given)
    BY DEF InotifyIInv, WatchInv
  <2>3. inotifyMap'[w] = new  BY <2>1, <2>2
  <2>4. \A j \in 1..Len(new) :
           /\ j < k => j \in 1..Len(vec) /\ new[j] = vec[j]
           /\ j >= k => j + 1 \in 1..Len(vec) /\ new[j] = vec[j + 1]
    BY <2>2, ErasedAt
  <2>5. k \in Int /\ Len(new) \in Nat
    <3>1. new \in Seq(given) /\ Len(vec) \in Nat
      BY <2>2, ErasedIs, LenProperties
    <3>2. QED  BY <3>1, LenProperties
  <2>6. ASSUME NEW i \in 1..Len(new), NEW j \in 1..Len(new), new[i] = new[j]
        PROVE  i = j
    <3>1. \A a, b \in 1..Len(vec) : vec[a] = vec[b] => a = b
      BY DEF ToldInv
    <3> HIDE DEF vec, new
    <3>2. i \in Int /\ j \in Int  BY <2>5
    <3>3. CASE i < k /\ j < k
      BY <2>4, <2>6, <3>1, <3>3
    <3>4. CASE i >= k /\ j >= k
      <4>1. i + 1 = j + 1  BY <2>4, <2>6, <3>1, <3>4
      <4>2. QED  BY <3>2, <4>1
    <3>5. CASE i < k /\ j >= k
      <4>1. i = j + 1  BY <2>4, <2>6, <3>1, <3>5
      <4>2. QED  BY <2>5, <3>2, <3>5, <4>1
    <3>6. CASE i >= k /\ j < k
      <4>1. i + 1 = j  BY <2>4, <2>6, <3>1, <3>6
      <4>2. QED  BY <2>5, <3>2, <3>6, <4>1
    <3>7. QED  BY <2>5, <3>2, <3>3, <3>4, <3>5, <3>6
  <2>7. ASSUME pos > 0, stale = "no", Head(batch) = w,
               NEW i \in 1..Len(new), i > pos
        PROVE  new[i] \notin told
    <3>1. \A a \in 1..Len(vec) : a > pos => vec[a] \notin told
      BY <2>7 DEF ToldInv
    <3>2. pos \in Nat  BY DEF InotifyIInv, WatchInv
    <3> HIDE DEF vec, new
    <3>3. i \in Int /\ i + 1 > pos  BY <2>5, <2>7, <3>2
    <3>4. QED  BY <2>4, <2>5, <2>7, <3>1, <3>3
  <2> HIDE DEF vec, new
  <2>8. \A v \in WatchIds : v # w => inotifyMap'[v] = inotifyMap[v]
    BY <2>1, <2>2
  <2>9. pos > 0 => Head(batch) \in WatchIds
    <3>1. pos > 0 => batch \in Seq(used) /\ batch # <<>>
      BY DEF InotifyIInv, WatchInv
    <3>2. pos > 0 => Head(batch) \in used  BY <3>1
    <3>3. QED  BY <3>2 DEF InotifyIInv, WatchInv
  <2>10. \A v \in WatchIds : \A i, j \in 1..Len(inotifyMap'[v]) :
           inotifyMap'[v][i] = inotifyMap'[v][j] => i = j
    BY <2>3, <2>6, <2>8 DEF ToldInv
  <2>11. pos > 0 /\ stale = "no" =>
           \A i \in 1..Len(inotifyMap'[Head(batch)]) :
              i > pos => inotifyMap'[Head(batch)][i] \notin told
    BY <2>3, <2>7, <2>8, <2>9 DEF ToldInv
  <2>12. QED  BY <1>1, <2>1, <2>10, <2>11 DEF ToldInv
<1>5. QED  BY <1>3, <1>4

\* The handler's own steps: the listener that is called becomes one of those
\* told, and all behind it are others.
LEMMA HandlerMovesTold ==
    ASSUME InotifyIInv, ToldInv, NextEvent \/ NextListener
    PROVE  /\ ToldInv'
           /\ phase' = "js" => inotifyMap[Head(batch)][pos'] \notin told
<1> DEFINE vec == inotifyMap[Head(batch)]
<1>1. inotifyMap' = inotifyMap /\ phase = "after"
  BY DEF NextEvent, NextListener, InHandler
<1>2. batch # <<>> /\ pos \in Nat
  BY DEF NextEvent, NextListener, InotifyIInv, WatchInv
<1>3. Head(batch) \in WatchIds
  <2>1. batch \in Seq(used)  BY DEF InotifyIInv, WatchInv
  <2>2. Head(batch) \in used  BY <1>2, <2>1
  <2>3. QED  BY <2>2 DEF InotifyIInv, WatchInv
<1>4. vec \in Seq(given) /\ Len(vec) \in Nat
  BY <1>3, LenProperties DEF InotifyIInv, WatchInv
<1>5. \/ /\ CallListener(pos + 1) /\ pos + 1 \in 1..Len(vec)
         /\ pos = 0 \/ stale = "no"
      \/ EventDone
      \/ phase' = "crashed" /\ UNCHANGED <<batch, pos, stale, told>>
  <2>1. CASE NextEvent
    <3>1. vec # <<>> => 1 \in 1..Len(vec)  BY <1>4, EmptySeq
    <3>2. pos = 0  BY <2>1 DEF NextEvent
    <3>3. pos + 1 = 1  BY <3>2
    <3>4. QED  BY <2>1, <3>1, <3>2, <3>3 DEF NextEvent
  <2>2. CASE NextListener
    <3>1. pos < Len(vec) => pos + 1 \in 1..Len(vec)  BY <1>2, <1>4
    <3>2. QED  BY <2>2, <3>1 DEF NextListener
  <2>3. QED  BY <2>1, <2>2
<1>6. CASE CallListener(pos + 1) /\ pos + 1 \in 1..Len(vec)
           /\ (pos = 0 \/ stale = "no")
  <2>1. /\ pos' = pos + 1 /\ told' = told \cup {vec[pos + 1]}
        /\ batch' = batch /\ stale' = stale
    BY <1>6 DEF CallListener
  <2>2. \A i \in 1..Len(vec) : i > pos => vec[i] \notin told
    BY <1>2, <1>6 DEF ToldInv
  <2>3. \A i, j \in 1..Len(vec) : vec[i] = vec[j] => i = j
    BY <1>3 DEF ToldInv
  <2> HIDE DEF vec
  <2>4. pos + 1 > pos /\ pos' # 0  BY <1>2, <2>1
  <2>5. vec[pos + 1] \notin told  BY <1>6, <2>2, <2>4
  <2>6. ASSUME NEW i \in 1..Len(vec), i > pos + 1 PROVE vec[i] \notin told'
    <3>1. i > pos /\ i # pos + 1  BY <1>2, <2>6
    <3>2. QED  BY <1>6, <2>1, <2>2, <2>3, <3>1
  <2>7. ToldInv'
    BY <1>1, <2>1, <2>4, <2>6 DEF ToldInv, vec
  <2>8. QED  BY <2>1, <2>5, <2>7 DEF vec
<1>7. CASE EventDone
  BY <1>1, <1>7 DEF EventDone, ToldInv
<1>8. CASE phase' = "crashed" /\ UNCHANGED <<batch, pos, stale, told>>
  BY <1>1, <1>8 DEF ToldInv
<1>9. QED  BY <1>5, <1>6, <1>7, <1>8

\* A new batch arrives only when there is no iterator.
LEMMA BatchTold ==
    ASSUME InotifyIInv, ToldInv, ReapRead \/ \E r \in Requests : CompleteRead(r)
    PROVE  ToldInv'
<1>1. inotifyMap' = inotifyMap /\ pos' = pos /\ told' = told /\ stale' = stale
  BY DEF ReapRead, CompleteRead
<1>2. pos = 0
  <2>1. CASE ReapRead
    BY <2>1, NoIterator
       DEF ReapRead, Deliver, CallBack, InotifyIInv, CoreInv, OneCallbackAtATime
  <2>2. CASE \E r \in Requests : CompleteRead(r)
    <3>1. PICK r \in Requests :
            kind[r] = "inotify" /\ where[r] = "kernel" /\ phase # "crashed"
      BY <2>2 DEF CompleteRead, Complete, Live, Ended
    <3>2. r \in Readers  BY <3>1 DEF Readers
    <3>3. PICK q \in Requests : Readers = {q}
      BY <3>1, <3>2 DEF InotifyIInv, ReaderInv
    <3>4. cur # r
      BY <3>1, RequestsAssumption
         DEF InotifyIInv, CoreInv, OneCallbackAtATime, At
    <3>5. cur \in Requests \cup {None} /\ cur \notin Readers
      BY <3>2, <3>3, <3>4 DEF InotifyIInv, CoreInv
    <3>6. cur = None \/ kind[cur] # "inotify"  BY <3>5 DEF Readers
    <3>7. QED  BY <3>6, NoIterator
  <2>3. QED  BY <2>1, <2>2
<1>3. QED  BY <1>1, <1>2 DEF ToldInv

LEMMA ToldStep ==
    ASSUME InotifyIInv, ToldInv, [InotifyNext]_allVars
    PROVE  /\ ToldInv'
           /\ pos' > 0 /\ phase = "after" /\ phase' = "js" =>
                inotifyMap[Head(batch)][pos'] \notin told
<1>1. CASE NextEvent \/ NextListener  BY <1>1, HandlerMovesTold
<1>2. CASE \E w \in WatchIds, f \in FuncIds : On(w, f)
  BY <1>2, OnTold DEF On
<1>3. CASE \E w \in WatchIds, f \in FuncIds : Off(w, f)
  BY <1>3, OffTold DEF Off
<1>4. CASE \E w \in WatchIds : OffAll(w)
  BY <1>4, RemoveWatchTold DEF OffAll
<1>5. CASE ReapRead
  BY <1>5, BatchTold DEF ReapRead, Deliver, CallBack
<1>6. CASE \E r \in Requests : CompleteRead(r)
  <2>1. phase' = phase  BY <1>6 DEF CompleteRead, Complete
  <2>2. QED  BY <1>6, <2>1, BatchTold
<1>7. CASE \E w \in WatchIds : FileChanged(w) \/ FileDeleted(w)
  <2>1. /\ phase' = phase
        /\ UNCHANGED <<inotifyMap, pos, told, stale, batch>>
    BY <1>7 DEF FileChanged, FileDeleted, ringVars
  <2>2. QED  BY <2>1, ToldStays
<1>8. CASE OtherStep \/ HandlerDone \/ UNCHANGED allVars
  <2>1. UNCHANGED <<inotifyMap, pos, told, stale, batch>>
    BY <1>8 DEF OtherStep, HandlerDone, allVars, inotifyVars
  <2>2. phase = "after" => phase' # "js"
    BY <1>8 DEF OtherStep, LoopStep, LoopCheck, Wake, Interrupted, DrainDone,
      JSReturn, Terminate, Enter, Reap, Deliver, CallBack, Rearm, Release, Free,
      Complete, JSOperation, ReadWrite, Close, Connect, Listen, OpenAt,
      Request, SubmitRequest, HandlerDone, allVars, ringVars
  <2>3. QED  BY <2>1, <2>2, ToldStays
<1>9. CASE Over /\ UNCHANGED inotifyVars
  <2>1. UNCHANGED allVars  BY <1>9 DEF Over, allVars
  <2>2. QED  BY <1>8, <2>1
<1>10. QED
  BY <1>1, <1>2, <1>3, <1>4, <1>5, <1>6, <1>7, <1>8, <1>9
     DEF InotifyNext, HandlerStep

\* inotify.cc:20-30: no listener is called twice for one event, for any number
\* of listeners added and removed under the iterator.
THEOREM ListenersAreToldOnce == InotifySpec => ToldOnce
<1>1. InotifyInit => ToldInv
  BY DEF InotifyInit, ToldInv
<1>2. InotifyIInv /\ ToldInv /\ [InotifyNext]_allVars => ToldInv'
  BY ToldStep
<1>3. InotifySpec => []ToldInv
  BY <1>1, <1>2, InotifyInvariance, PTL DEF InotifySpec
<1>4. /\ InotifyIInv /\ ToldInv
      /\ [InotifyNext]_allVars
      => [pos' > 0 /\ phase = "after" /\ phase' = "js"
           => inotifyMap[Head(batch)][pos'] \notin told]_allVars
  BY ToldStep
<1>5. QED
  BY <1>3, <1>4, InotifyInvariance, PTL DEF InotifySpec, ToldOnce
=============================================================================
