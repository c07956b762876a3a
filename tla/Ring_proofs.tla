----------------------------- MODULE Ring_proofs -----------------------------
(***************************************************************************)
(* What each step of the ring preserves, for any set of requests, any size *)
(* of the completion ring and both kernels.  The proofs of the modules     *)
(* built on Ring cite these lemmas, one per step.                          *)
(***************************************************************************)
EXTENDS Ring, FiniteSetTheorems, SequenceTheorems, TLAPS

\* The part of the invariant that does not speak of the thread.
RingCore ==
    /\ where \in [Requests -> Places]
    /\ kind \in [Requests -> Kinds]
    /\ pending \in Int
    /\ cq \in Seq(Requests)
    /\ ready \in 0..CQEntries /\ ready <= Len(cq)
    /\ CompletionQueueExact
    /\ FreeIsNothing

-----------------------------------------------------------------------------
(* Sequences without duplicates *)

\* Appending a new element to a sequence without duplicates keeps it so.
LEMMA AppendNew ==
    ASSUME NEW S, NEW q \in Seq(S), NEW e \in S,
           IsInjective(q), e \notin Range(q)
    PROVE  /\ IsInjective(Append(q, e))
           /\ Range(Append(q, e)) = Range(q) \cup {e}
<1> DEFINE a == Append(q, e)
<1>1. /\ a \in Seq(S) /\ Len(a) = Len(q) + 1
      /\ \A i \in 1..Len(q) : a[i] = q[i]
      /\ a[Len(q) + 1] = e
  BY AppendProperties
<1>2. /\ DOMAIN q = 1..Len(q) /\ Len(q) \in Nat
      /\ DOMAIN a = 1..(Len(q) + 1)
  BY <1>1, LenProperties
<1> HIDE DEF a
<1>3. IsInjective(a)
  BY <1>1, <1>2, SMTT(30) DEF IsInjective, Range
<1>4. Range(a) = Range(q) \cup {e}
  <2>1. ASSUME NEW x \in Range(a) PROVE x \in Range(q) \cup {e}
    <3>1. PICK i \in 1..(Len(q) + 1) : x = a[i]  BY <1>2 DEF Range
    <3>2. CASE i = Len(q) + 1  BY <1>1, <3>1, <3>2
    <3>3. CASE i # Len(q) + 1
      <4>1. i \in 1..Len(q)  BY <1>2, <3>1, <3>3
      <4>2. QED  BY <1>1, <1>2, <3>1, <4>1 DEF Range
    <3>4. QED  BY <3>2, <3>3
  <2>2. ASSUME NEW x \in Range(q) PROVE x \in Range(a)
    <3>1. PICK i \in 1..Len(q) : x = q[i]  BY <1>2 DEF Range
    <3>2. i \in 1..(Len(q) + 1)  BY <1>2
    <3>3. QED  BY <1>1, <1>2, <3>1, <3>2 DEF Range
  <2>3. e \in Range(a)
    <3>1. Len(q) + 1 \in 1..(Len(q) + 1)  BY <1>2
    <3>2. QED  BY <1>1, <1>2, <3>1 DEF Range
  <2>4. QED  BY <2>1, <2>2, <2>3
<1>5. QED  BY <1>3, <1>4 DEF a

\* The tail of a sequence without duplicates has lost exactly its head.
LEMMA TailLosesHead ==
    ASSUME NEW S, NEW q \in Seq(S), q # <<>>, IsInjective(q)
    PROVE  /\ Head(q) \in Range(q)
           /\ IsInjective(Tail(q))
           /\ Range(Tail(q)) = Range(q) \ {Head(q)}
<1> DEFINE t == Tail(q)
<1>1. /\ t \in Seq(S) /\ Len(t) = Len(q) - 1
      /\ \A i \in 1..Len(t) : t[i] = q[i + 1]
  BY HeadTailProperties
<1>2. /\ Len(q) \in Nat \ {0}
      /\ DOMAIN q = 1..Len(q)
      /\ DOMAIN t = 1..(Len(q) - 1)
  BY <1>1, LenProperties, EmptySeq
<1>3. Head(q) = q[1]
  BY <1>2
<1> HIDE DEF t
<1>4. Head(q) \in Range(q)
  BY <1>2, <1>3 DEF Range
<1>5. IsInjective(t)
  <2> SUFFICES ASSUME NEW i \in 1..(Len(q) - 1), NEW j \in 1..(Len(q) - 1),
                      t[i] = t[j]
               PROVE  i = j
    BY <1>2 DEF IsInjective
  <2>1. q[i + 1] = q[j + 1] /\ i + 1 \in 1..Len(q) /\ j + 1 \in 1..Len(q)
    BY <1>1, <1>2
  <2>2. i + 1 = j + 1  BY <1>2, <2>1 DEF IsInjective
  <2>3. QED  BY <2>2
<1>6. Range(t) = Range(q) \ {Head(q)}
  <2>1. ASSUME NEW x \in Range(t) PROVE x \in Range(q) /\ x # Head(q)
    <3>1. PICK i \in 1..(Len(q) - 1) : x = t[i]  BY <1>2 DEF Range
    <3>2. x = q[i + 1] /\ i + 1 \in 1..Len(q) /\ i + 1 # 1
      BY <1>1, <1>2, <3>1
    <3>3. x \in Range(q)  BY <1>2, <3>2 DEF Range
    <3>4. 1 \in DOMAIN q  BY <1>2
    <3>5. x # Head(q)  BY <1>2, <1>3, <3>2, <3>4 DEF IsInjective
    <3>6. QED  BY <3>3, <3>5
  <2>2. ASSUME NEW x \in Range(q), x # Head(q) PROVE x \in Range(t)
    <3>1. PICK i \in 1..Len(q) : x = q[i]  BY <1>2 DEF Range
    <3>2. i # 1  BY <1>3, <2>2, <3>1
    <3>3. i - 1 \in 1..(Len(q) - 1) /\ (i - 1) + 1 = i  BY <1>2, <3>2
    <3>4. t[i - 1] = x  BY <1>1, <1>2, <3>1, <3>3
    <3>5. QED  BY <1>2, <3>3, <3>4 DEF Range
  <2>3. QED  BY <2>1, <2>2
<1>7. QED  BY <1>4, <1>5, <1>6 DEF t

-----------------------------------------------------------------------------
(* Counting: what a change of one place does to the number of outstanding  *)
(* requests                                                                *)

Away == {"sq", "kernel", "cq"}
OutstandingIn(w) == {r \in Requests : w[r] \in Away}

\* Outstanding is a finite set, and its size depends on `where` alone.
LEMMA OutstandingFinite ==
    ASSUME NEW w
    PROVE  /\ IsFiniteSet(OutstandingIn(w))
           /\ Cardinality(OutstandingIn(w)) \in Nat
<1>1. OutstandingIn(w) \in SUBSET Requests  BY DEF OutstandingIn
<1>2. IsFiniteSet(OutstandingIn(w))
  BY <1>1, RequestsAssumption, FS_Subset
<1>3. QED  BY <1>2, FS_CardinalityType

\* A request that leaves the process for the queues counts for one more.
LEMMA OneMoreOutstanding ==
    ASSUME NEW w \in [Requests -> Places], NEW r \in Requests,
           w[r] \notin Away, NEW p \in Away
    PROVE  Cardinality(OutstandingIn([w EXCEPT ![r] = p]))
             = Cardinality(OutstandingIn(w)) + 1
<1>1. OutstandingIn([w EXCEPT ![r] = p]) = OutstandingIn(w) \cup {r}
  BY DEF OutstandingIn
<1>2. r \notin OutstandingIn(w)  BY DEF OutstandingIn
<1>3. QED  BY <1>1, <1>2, OutstandingFinite, FS_AddElement

\* A request whose callback begins counts for one less.
LEMMA OneLessOutstanding ==
    ASSUME NEW w \in [Requests -> Places], NEW r \in Requests,
           w[r] \in Away, NEW p, p \notin Away
    PROVE  Cardinality(OutstandingIn([w EXCEPT ![r] = p]))
             = Cardinality(OutstandingIn(w)) - 1
<1>1. OutstandingIn([w EXCEPT ![r] = p]) = OutstandingIn(w) \ {r}
  BY DEF OutstandingIn
<1>2. r \in OutstandingIn(w)  BY DEF OutstandingIn
<1>3. QED  BY <1>1, <1>2, OutstandingFinite, FS_RemoveElement

\* The balance in terms of these.
LEMMA BalanceIs == /\ Balance = pending - Cardinality(OutstandingIn(where))
                   /\ Balance' = pending' - Cardinality(OutstandingIn(where'))
BY DEF Balance, Outstanding, OutstandingIn, Away

-----------------------------------------------------------------------------
(* The steps *)

\* The ring starts empty.
LEMMA RingInitCore == RingInit => RingCore /\ Balance = 0 /\ OneCallbackAtATime
<1> SUFFICES ASSUME RingInit PROVE RingCore /\ Balance = 0 /\ OneCallbackAtATime
  OBVIOUS
<1>1. /\ where \in [Requests -> Places] /\ kind \in [Requests -> Kinds]
      /\ FreeIsNothing /\ OneCallbackAtATime
  BY DEF RingInit, Places, Kinds, FreeIsNothing, OneCallbackAtATime, At
<1>2. /\ cq \in Seq(Requests) /\ ready \in 0..CQEntries /\ ready <= Len(cq)
      /\ pending \in Int
  BY CQEntriesAssumption DEF RingInit
<1>3. CompletionQueueExact
  <2>1. IsInjective(cq)  BY DEF RingInit, IsInjective
  <2>2. Range(cq) = {}  BY DEF RingInit, Range
  <2>3. At("cq") = {}  BY DEF RingInit, At
  <2>4. QED  BY <2>1, <2>2, <2>3 DEF CompletionQueueExact
<1>4. OutstandingIn(where) = {}  BY DEF RingInit, OutstandingIn, Away
<1>5. Balance = 0
  BY <1>4, BalanceIs, FS_EmptySet DEF RingInit
<1>6. QED  BY <1>1, <1>2, <1>3, <1>5 DEF RingCore

\* What the kernel finds room for is within the ring and the queue.
LEMMA FlushedBounds ==
    RingCore => Flushed \in 0..CQEntries /\ Flushed <= Len(cq)
<1> SUFFICES ASSUME RingCore PROVE Flushed \in 0..CQEntries /\ Flushed <= Len(cq)
  OBVIOUS
<1>1. Len(cq) \in Nat  BY LenProperties DEF RingCore
<1>2. QED  BY <1>1, CQEntriesAssumption DEF Flushed, Smaller

\* SubmitRequest, of a request that is not in a queue: it counts what it
\* submits, refused or not, or crashes.
LEMMA SubmitKeeps ==
    ASSUME RingCore, NEW r \in Requests, where[r] \notin Away,
           NEW k \in Kinds \ {"none"}, NEW ph, SubmitRequest(r, k, ph)
    PROVE  RingCore' /\ Balance' = Balance
<1>1. CASE At("sq") # {}
  <2>1. UNCHANGED <<pending, where, kind, cq, ready>>
    BY <1>1 DEF SubmitRequest
  <2>2. QED
    BY <2>1, BalanceIs
       DEF RingCore, CompletionQueueExact, FreeIsNothing, At
<1>2. CASE At("sq") = {}
  <2> DEFINE p == IF Refused THEN "sq" ELSE "kernel"
  <2>1. /\ pending' = pending + 1
        /\ where' = [where EXCEPT ![r] = p]
        /\ kind' = [kind EXCEPT ![r] = k]
        /\ ready' = IF RefuseWhenBacklogged THEN Flushed ELSE ready
        /\ cq' = cq
    BY <1>2 DEF SubmitRequest
  <2>2. p \in Away /\ p \in Places /\ p \notin {"free", "cq"}
    BY DEF Away, Places
  <2> HIDE DEF p
  <2>3. where' \in [Requests -> Places] /\ pending' \in Int
    BY <2>1, <2>2 DEF RingCore
  <2>4. ready' \in 0..CQEntries /\ ready' <= Len(cq')
    BY <2>1, FlushedBounds DEF RingCore
  <2>5. CompletionQueueExact'
    <3>1. At("cq")' = At("cq")
      BY <2>1, <2>2 DEF At, RingCore, Away
    <3>2. QED  BY <2>1, <3>1 DEF CompletionQueueExact, RingCore
  <2>6. FreeIsNothing'
    <3> SUFFICES ASSUME NEW s \in Requests
                 PROVE  where'[s] = "free" <=> kind'[s] = "none"
      BY DEF FreeIsNothing
    <3>1. CASE s = r
      <4>1. where'[r] = p  BY <2>1 DEF RingCore
      <4>2. kind'[r] = k  BY <2>1 DEF RingCore
      <4>3. QED  BY <2>2, <3>1, <4>1, <4>2
    <3>2. CASE s # r
      <4>1. where'[s] = where[s] /\ kind'[s] = kind[s]  BY <2>1, <3>2
      <4>2. QED  BY <4>1 DEF RingCore, FreeIsNothing
    <3>3. QED  BY <3>1, <3>2
  <2>7. Balance' = Balance
    <3>1. Cardinality(OutstandingIn(where')) = Cardinality(OutstandingIn(where)) + 1
      BY <2>1, <2>2, OneMoreOutstanding DEF RingCore
    <3>2. QED  BY <2>1, <3>1, BalanceIs, OutstandingFinite DEF RingCore
  <2>8. cq' \in Seq(Requests) /\ kind' \in [Requests -> Kinds]
    BY <2>1 DEF RingCore
  <2>9. QED  BY <2>3, <2>4, <2>5, <2>6, <2>7, <2>8 DEF RingCore
<1>3. QED  BY <1>1, <1>2

\* Entering the kernel to wait submits what was refused and moves no request
\* out of the count.
LEMMA EnterKeeps ==
    ASSUME RingCore, Enter
    PROVE  RingCore' /\ Balance' = Balance
<1>1. /\ pending' = pending /\ kind' = kind /\ cq' = cq /\ ready' = Flushed
      /\ \/ where' = where
         \/ where' = [r \in Requests |->
                        IF where[r] = "sq" THEN "kernel" ELSE where[r]]
  BY DEF Enter
<1>2. where' \in [Requests -> Places]
  BY <1>1 DEF RingCore, Places
<1>3. /\ OutstandingIn(where') = OutstandingIn(where)
      /\ At("cq")' = At("cq")
  BY <1>1 DEF OutstandingIn, Away, At, RingCore
<1>4. Balance' = Balance  BY <1>1, <1>3, BalanceIs
<1>5. CompletionQueueExact'  BY <1>1, <1>3 DEF CompletionQueueExact, RingCore
<1>6. FreeIsNothing'  BY <1>1 DEF FreeIsNothing, RingCore
<1>7. ready' \in 0..CQEntries /\ ready' <= Len(cq')
  BY <1>1, FlushedBounds
<1>8. QED  BY <1>1, <1>2, <1>4, <1>5, <1>6, <1>7 DEF RingCore

\* A completion changes the queue a request counts in, and enters the queue
\* of completions once.
LEMMA CompleteKeeps ==
    ASSUME RingCore, NEW r \in Requests, Complete(r)
    PROVE  RingCore' /\ Balance' = Balance
<1>1. /\ where[r] = "kernel" /\ where' = [where EXCEPT ![r] = "cq"]
      /\ cq' = Append(cq, r) /\ kind' = kind /\ pending' = pending
      /\ ready' = IF ready = Len(cq) /\ ready < CQEntries THEN ready + 1 ELSE ready
  BY DEF Complete
<1>2. where' \in [Requests -> Places]  BY <1>1 DEF RingCore, Places
<1>3. /\ OutstandingIn(where') = OutstandingIn(where)
      /\ At("cq")' = At("cq") \cup {r}
      /\ r \notin At("cq")
  BY <1>1 DEF OutstandingIn, Away, At, RingCore
<1>4. Balance' = Balance  BY <1>1, <1>3, BalanceIs
<1>5. CompletionQueueExact'
  <2>1. cq \in Seq(Requests) /\ IsInjective(cq) /\ Range(cq) = At("cq")
    BY DEF RingCore, CompletionQueueExact
  <2>2. /\ IsInjective(Append(cq, r))
        /\ Range(Append(cq, r)) = Range(cq) \cup {r}
    BY <1>3, <2>1, AppendNew
  <2>3. QED  BY <1>1, <1>3, <2>1, <2>2 DEF CompletionQueueExact
<1>6. FreeIsNothing'  BY <1>1 DEF FreeIsNothing, RingCore
<1>7. /\ cq' \in Seq(Requests) /\ Len(cq') = Len(cq) + 1
  BY <1>1, AppendProperties DEF RingCore
<1>8. ready' \in 0..CQEntries /\ ready' <= Len(cq')
  <2>1. Len(cq) \in Nat  BY LenProperties DEF RingCore
  <2>2. QED  BY <1>1, <1>7, <2>1, CQEntriesAssumption DEF RingCore
<1>9. QED  BY <1>1, <1>2, <1>4, <1>5, <1>6, <1>7, <1>8 DEF RingCore

\* The oldest posted completion is of a request in the completion queue.
LEMMA HeadIsPosted ==
    ASSUME RingCore, ready > 0
    PROVE  /\ cq # <<>>
           /\ Head(cq) \in Requests /\ where[Head(cq)] = "cq"
           /\ kind[Head(cq)] # "none"
<1>1. Len(cq) \in Nat /\ Len(cq) > 0  BY LenProperties DEF RingCore
<1>2. cq # <<>>  BY <1>1, EmptySeq
<1>3. Head(cq) \in Range(cq)  BY <1>2, TailLosesHead
                                 DEF RingCore, CompletionQueueExact
<1>4. Head(cq) \in At("cq")  BY <1>3 DEF RingCore, CompletionQueueExact
<1>5. QED  BY <1>2, <1>4 DEF At, RingCore, FreeIsNothing

\* A completion is taken, whatever happens to the count meanwhile.
LEMMA CallBackKeeps ==
    ASSUME RingCore, ready > 0, NEW ph, CallBack(ph), pending' \in Int
    PROVE  /\ RingCore' /\ Balance' = Balance + 1 + (pending' - pending)
           /\ Head(cq) \in Requests /\ cur' = Head(cq) /\ phase' = ph
           /\ At("cb")' = At("cb") \cup {Head(cq)}
           /\ \A r \in Requests : where[r] = "sq" => where'[r] = "sq"
<1>1. /\ cq' = Tail(cq) /\ ready' = ready - 1
      /\ cur' = Head(cq) /\ phase' = ph /\ kind' = kind
      /\ where' = [where EXCEPT ![Head(cq)] = "cb"]
  BY DEF CallBack
<1>2. /\ cq # <<>> /\ Head(cq) \in Requests /\ where[Head(cq)] = "cq"
      /\ kind[Head(cq)] # "none"
  BY HeadIsPosted
<1>3. where' \in [Requests -> Places]  BY <1>1 DEF RingCore, Places
<1>4. At("cq")' = At("cq") \ {Head(cq)}
  BY <1>1, <1>2 DEF At, RingCore
<1>5. Balance' = Balance + 1 + (pending' - pending)
  <2>1. Cardinality(OutstandingIn(where')) = Cardinality(OutstandingIn(where)) - 1
    BY <1>1, <1>2, OneLessOutstanding DEF RingCore, Away
  <2>2. /\ Cardinality(OutstandingIn(where)) \in Nat
        /\ pending \in Int /\ pending' \in Int
    BY OutstandingFinite DEF RingCore
  <2>3. QED  BY <2>1, <2>2, BalanceIs
<1>6. CompletionQueueExact'
  BY <1>1, <1>2, <1>4, TailLosesHead DEF CompletionQueueExact, RingCore
<1>7. FreeIsNothing'
  BY <1>1, <1>2 DEF FreeIsNothing, RingCore
<1>8. cq' \in Seq(Requests) /\ Len(cq') = Len(cq) - 1
  BY <1>1, <1>2, HeadTailProperties DEF RingCore
<1>9. ready' \in 0..CQEntries /\ ready' <= Len(cq')
  <2>1. Len(cq) \in Nat  BY LenProperties DEF RingCore
  <2>2. QED  BY <1>1, <1>8, <2>1, CQEntriesAssumption DEF RingCore
<1>10. /\ At("cb")' = At("cb") \cup {Head(cq)}
       /\ \A r \in Requests : where[r] = "sq" => where'[r] = "sq"
  BY <1>1, <1>2 DEF At, RingCore
<1>11. QED
  BY <1>1, <1>2, <1>3, <1>5, <1>6, <1>7, <1>8, <1>9, <1>10 DEF RingCore

\* Taking a completion and counting down uncounts its request.
LEMMA DeliverKeeps ==
    ASSUME RingCore, NEW ph, Deliver(ph)
    PROVE  RingCore' /\ Balance' = Balance
<1>1. ready > 0 /\ pending' = pending - 1 /\ CallBack(ph)  BY DEF Deliver
<1>2. pending \in Int /\ pending' \in Int
  BY <1>1 DEF RingCore
<1>3. RingCore' /\ Balance' = Balance + 1 + (pending' - pending)
  BY <1>1, <1>2, CallBackKeeps
<1>4. Balance \in Int  BY BalanceIs, OutstandingFinite DEF RingCore
<1>5. pending' - pending = 0 - 1  BY <1>1, <1>2
<1>6. Balance' = Balance  BY <1>3, <1>4, <1>5
<1>7. QED  BY <1>3, <1>6

\* Freeing the request of a callback touches neither queue.
LEMMA FreeKeeps ==
    ASSUME RingCore, cur \in Requests, where[cur] = "cb", Free,
           cq' = cq, ready' = ready, pending' \in Int
    PROVE  RingCore' /\ OutstandingIn(where') = OutstandingIn(where)
<1>1. /\ where' = [where EXCEPT ![cur] = "free"]
      /\ kind' = [kind EXCEPT ![cur] = "none"]
  BY DEF Free
<1>2. where' \in [Requests -> Places] /\ kind' \in [Requests -> Kinds]
  BY <1>1 DEF RingCore, Places, Kinds
<1>3. /\ OutstandingIn(where') = OutstandingIn(where)
      /\ At("cq")' = At("cq")
  BY <1>1 DEF OutstandingIn, Away, At, RingCore
<1>4. CompletionQueueExact'  BY <1>3 DEF CompletionQueueExact, RingCore
<1>5. FreeIsNothing'  BY <1>1 DEF FreeIsNothing, RingCore
<1>6. QED  BY <1>2, <1>3, <1>4, <1>5 DEF RingCore

\* A step that touches only the thread's own variables.
LEMMA ThreadStepKeeps ==
    ASSUME RingCore, UNCHANGED <<pending, where, kind, cq, ready>>
    PROVE  RingCore' /\ Balance' = Balance
BY BalanceIs DEF RingCore, CompletionQueueExact, FreeIsNothing, At
=============================================================================
