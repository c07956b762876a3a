---------------------------- MODULE Events_proofs ----------------------------
(***************************************************************************)
(* Module Events, for any types of events, functions and wrappers, and any *)
(* depth of calls from listeners:                                          *)
(*   CountCorrect, EventsTypes  _eventsCount is exact, the types hold;     *)
(*   LeavesNone    removeAllListeners(type) empties the list of its type;  *)
(*   OnceIsOnce    the listener of a once runs at most once;               *)
(*   NothingStays  a promise that settled has left no listener;            *)
(*   EmitterRefinement  the emitter implements EmitterContract.            *)
(* Listeners run in the middle of every method and change the lists, so    *)
(* each invariant says what every suspended call relies on.                *)
(***************************************************************************)
EXTENDS Events, SequenceTheorems, FiniteSetTheorems, TLAPS

Filled(evs) == {t \in Types : evs[t] # <<>>}

\* The emitter and the calls on the stack.
EmitterInv ==
    /\ events \in [Types -> Seq(Listeners)]
    /\ stack \in Seq(Frames)
    /\ CountIsExact

\* Everything else.
OtherTypes ==
    /\ made \subseteq Wrappers /\ fired \subseteq Wrappers
    /\ promise \in Promises
    /\ adds \in 0..MaxAdds /\ calls \in 0..MaxCalls /\ throws \in 0..MaxThrows
    /\ ran \in [Wrappers -> Nat]

EventsInv == EmitterInv /\ OtherTypes
-----------------------------------------------------------------------------
(* Lists, frames and counts *)

LEMMA TypesFinite == IsFiniteSet(Types)
<1>1. IsFiniteSet(Names \cup {"error"})
  BY NamesAssumption, FS_AddElement
<1>2. IsFiniteSet((Names \cup {"error"}) \cup {"newListener"})
  BY <1>1, FS_AddElement
<1>3. IsFiniteSet(((Names \cup {"error"}) \cup {"newListener"})
                    \cup {"removeListener"})
  BY <1>2, FS_AddElement
<1>4. Types = ((Names \cup {"error"}) \cup {"newListener"})
                \cup {"removeListener"}
  BY DEF Types
<1>5. QED  BY <1>3, <1>4

\* Only the list of type t differs.
OnlyAt(t, evs, new) == \A u \in Types : u # t => new[u] = evs[u]

\* The types with listeners, when the list of one changes.
LEMMA FilledChange ==
    ASSUME NEW evs \in [Types -> Seq(Listeners)], NEW t \in Types,
           NEW list \in Seq(Listeners), NEW new \in [Types -> Seq(Listeners)],
           new[t] = list, OnlyAt(t, evs, new)
    PROVE  /\ Cardinality(Filled(evs)) \in Nat
           /\ list = <<>> /\ evs[t] # <<>> =>
                Cardinality(Filled(new)) = Cardinality(Filled(evs)) - 1
           /\ list # <<>> /\ evs[t] = <<>> =>
                Cardinality(Filled(new)) = Cardinality(Filled(evs)) + 1
           /\ (list = <<>> <=> evs[t] = <<>>) =>
                Cardinality(Filled(new)) = Cardinality(Filled(evs))
<1>1. IsFiniteSet(Filled(evs))
  BY TypesFinite, FS_Subset DEF Filled
<1>2. Cardinality(Filled(evs)) \in Nat
  BY <1>1, FS_CardinalityType
<1>3. t \in Filled(evs) <=> evs[t] # <<>>
  BY DEF Filled
<1>4. CASE list = <<>>
  <2>1. Filled(new) = Filled(evs) \ {t}
    BY <1>4 DEF Filled, OnlyAt
  <2>2. Cardinality(Filled(new)) =
          IF t \in Filled(evs) THEN Cardinality(Filled(evs)) - 1
          ELSE Cardinality(Filled(evs))
    BY <1>1, <2>1, FS_RemoveElement
  <2>3. QED  BY <1>2, <1>3, <1>4, <2>2
<1>5. CASE list # <<>>
  <2>1. Filled(new) = Filled(evs) \cup {t}
    BY <1>5 DEF Filled, OnlyAt
  <2>2. Cardinality(Filled(new)) =
          IF t \in Filled(evs) THEN Cardinality(Filled(evs))
          ELSE Cardinality(Filled(evs)) + 1
    BY <1>1, <2>1, FS_AddElement
  <2>3. QED  BY <1>2, <1>3, <1>5, <2>2
<1>6. QED  BY <1>4, <1>5

LEMMA NothingFilled ==
    /\ NoEvents \in [Types -> Seq(Listeners)]
    /\ Cardinality(Filled(NoEvents)) = 0
<1>1. NoEvents \in [Types -> Seq(Listeners)]
  BY DEF NoEvents
<1>2. Filled(NoEvents) = {}
  BY DEF Filled, NoEvents
<1>3. QED  BY <1>1, <1>2, FS_EmptySet

LEMMA SpecialTypes ==
    "error" \in Types /\ "newListener" \in Types /\ "removeListener" \in Types
BY DEF Types

\* The frames that the methods make.
LEMMA FrameOf ==
    /\ Js \in Frames /\ [op |-> "settle"] \in Frames
    /\ [op |-> "second"] \in Frames
    /\ \A w \in Wrappers : [op |-> "first", wrapper |-> w] \in Frames
    /\ \A t \in Types, r \in Seq(Listeners) :
         [op |-> "emit", type |-> t, rest |-> r] \in Frames
    /\ \A t \in Types, l \in Listeners, p \in BOOLEAN :
         [op |-> "add", type |-> t, listener |-> l, prepend |-> p] \in Frames
    /\ \A l \in Listeners : l.wrapper # NoWrapper =>
         [op |-> "once", listener |-> l] \in Frames
    /\ \A t \in Types, n \in Nat, b, g \in BOOLEAN, ls \in Seq(Listeners) :
         [op |-> "remove", type |-> t, next |-> n, live |-> b,
          list |-> ls, grown |-> g] \in Frames
    /\ \A ks \in Seq(Types) : [op |-> "clear", keys |-> ks] \in Frames
BY DEF Frames, Js

\* What the frames hold.
LEMMA FrameFields ==
    ASSUME NEW f \in Frames
    PROVE  /\ f.op = "first" => f.wrapper \in Wrappers
           /\ f.op = "emit" => f.type \in Types /\ f.rest \in Seq(Listeners)
           /\ f.op = "add" => /\ f.type \in Types /\ f.listener \in Listeners
                              /\ f.prepend \in BOOLEAN
           /\ f.op = "once" => /\ f.listener \in Listeners
                               /\ f.listener.wrapper # NoWrapper
           /\ f.op = "remove" =>
                /\ f.type \in Types /\ f.next \in Nat
                /\ f.live \in BOOLEAN /\ f.list \in Seq(Listeners)
                /\ f.grown \in BOOLEAN
           /\ f.op = "clear" => f.keys \in Seq(Types)
BY DEF Frames

\* A frame goes on.
LEMMA FrameUpdate ==
    ASSUME NEW f \in Frames
    PROVE  /\ f.op = "emit" => \A r \in Seq(Listeners) :
                [f EXCEPT !.rest = r] \in Frames
           /\ f.op = "remove" => \A n \in Nat : [f EXCEPT !.next = n] \in Frames
           /\ f.op = "remove" => [f EXCEPT !.grown = TRUE] \in Frames
           /\ f.op = "remove" => \A ls \in Seq(Listeners) :
                [f EXCEPT !.live = FALSE, !.list = ls] \in Frames
           /\ f.op = "clear" => \A ks \in Seq(Types) :
                [f EXCEPT !.keys = ks] \in Frames
<1>1. f.op = "emit" => \A r \in Seq(Listeners) :
        [f EXCEPT !.rest = r] \in Frames
  BY DEF Frames
<1>2. f.op = "remove" => \A n \in Nat : [f EXCEPT !.next = n] \in Frames
  BY DEF Frames
<1>3. f.op = "remove" => [f EXCEPT !.grown = TRUE] \in Frames
  BY DEF Frames
<1>4. f.op = "remove" => \A ls \in Seq(Listeners) :
        [f EXCEPT !.live = FALSE, !.list = ls] \in Frames
  BY DEF Frames
<1>5. f.op = "clear" => \A ks \in Seq(Types) :
        [f EXCEPT !.keys = ks] \in Frames
  BY DEF Frames
<1>6. QED  BY <1>1, <1>2, <1>3, <1>4, <1>5

\* The next turn of a removeAllListeners.
LEMMA NextUpdate ==
    ASSUME NEW f \in Frames, f.op = "remove", NEW n \in Nat
    PROVE  /\ [f EXCEPT !.next = n] \in Frames
           /\ [f EXCEPT !.next = n].op = "remove"
<1>1. [f EXCEPT !.next = n] \in Frames
  BY FrameUpdate
<1>2. [f EXCEPT !.next = n].op = f.op
  BY DEF Frames
<1>3. QED
  BY <1>1, <1>2

LEMMA ClearUpdate ==
    ASSUME NEW f \in Frames, f.op = "clear", NEW ks \in Seq(Types)
    PROVE  /\ [f EXCEPT !.keys = ks] \in Frames
           /\ [f EXCEPT !.keys = ks].op = "clear"
<1>1. [f EXCEPT !.keys = ks] \in Frames
  BY FrameUpdate
<1>2. [f EXCEPT !.keys = ks].op = f.op
  BY DEF Frames
<1>3. QED
  BY <1>1, <1>2

\* A stack of which every frame is replaced by a frame.
LEMMA MappedStack ==
    ASSUME NEW under \in Seq(Frames), NEW new,
           new = [i \in DOMAIN under |-> new[i]],
           \A i \in DOMAIN under : new[i] \in Frames
    PROVE  new \in Seq(Frames)
<1>1. DOMAIN under = 1..Len(under) /\ Len(under) \in Nat
  BY LenProperties
<1>2. new \in [1..Len(under) -> Frames]
  BY <1>1
<1>3. QED  BY <1>1, <1>2 DEF Seq

LEMMA UnderTypes ==
    ASSUME NEW under \in Seq(Frames)
    PROVE  \A i \in DOMAIN under : under[i] \in Frames
BY ElementOfSeq, LenProperties

LEMMA DetachedType ==
    ASSUME NEW under \in Seq(Frames), NEW t, NEW list \in Seq(Listeners)
    PROVE  Detached(under, t, list) \in Seq(Frames)
<1>1. ASSUME NEW i \in DOMAIN under
      PROVE  Detached(under, t, list)[i] \in Frames
  BY UnderTypes, FrameUpdate DEF Detached
<1>2. Detached(under, t, list)
        = [i \in DOMAIN under |-> Detached(under, t, list)[i]]
  BY DEF Detached
<1>3. QED  BY <1>1, <1>2, MappedStack

LEMMA AllDetachedType ==
    ASSUME NEW under \in Seq(Frames), events \in [Types -> Seq(Listeners)]
    PROVE  AllDetached(under) \in Seq(Frames)
<1>1. ASSUME NEW i \in DOMAIN under
      PROVE  AllDetached(under)[i] \in Frames
  <2>1. under[i] \in Frames  BY UnderTypes
  <2>2. CASE under[i].op = "remove"
    <3>1. events[under[i].type] \in Seq(Listeners)
      BY <2>1, <2>2, FrameFields
    <3>2. QED  BY <2>1, <2>2, <3>1, FrameUpdate DEF AllDetached
  <2>3. CASE under[i].op # "remove"
    BY <2>1, <2>3 DEF AllDetached
  <2>4. QED  BY <2>2, <2>3
<1>2. AllDetached(under) = [i \in DOMAIN under |-> AllDetached(under)[i]]
  BY DEF AllDetached
<1>3. QED  BY <1>1, <1>2, MappedStack

LEMMA GrownType ==
    ASSUME NEW under \in Seq(Frames), NEW t
    PROVE  Grown(under, t) \in Seq(Frames)
<1>1. ASSUME NEW i \in DOMAIN under
      PROVE  Grown(under, t)[i] \in Frames
  BY UnderTypes, FrameUpdate DEF Grown
<1>2. Grown(under, t) = [i \in DOMAIN under |-> Grown(under, t)[i]]
  BY DEF Grown
<1>3. QED  BY <1>1, <1>2, MappedStack

LEMMA EmitOnType ==
    ASSUME NEW evs \in [Types -> Seq(Listeners)], NEW t \in Types,
           NEW under \in Seq(Frames)
    PROVE  EmitOn(evs, t, under) \in Seq(Frames)
<1>1. [op |-> "emit", type |-> t, rest |-> evs[t]] \in Frames
  BY FrameOf
<1>2. QED  BY <1>1, AppendProperties DEF EmitOn

\* A listener leaves a list, which was not empty.
LEMMA RemoveAtType ==
    ASSUME NEW list \in Seq(Listeners), NEW last \in DOMAIN list
    PROVE  RemoveAt(list, last) \in Seq(Listeners) /\ list # <<>>
<1>1. Len(list) \in Nat /\ last \in 1..Len(list)
  BY LenProperties
<1>2. \A i \in 1..Len(list) : list[i] \in Listeners
  BY ElementOfSeq
<1>3. SubSeq(list, 1, last - 1) \in Seq(Listeners)
  <2>1. 1 \in 1..(Len(list) + 1) /\ last - 1 \in 0..Len(list)
    BY <1>1
  <2>2. \A i \in 1..(last - 1) : list[i] \in Listeners
    BY <1>1, <1>2
  <2>3. QED  BY <2>1, <2>2, SubSeqProperties
<1>4. SubSeq(list, last + 1, Len(list)) \in Seq(Listeners)
  <2>1. last + 1 \in 1..(Len(list) + 1) /\ Len(list) \in 0..Len(list)
    BY <1>1
  <2>2. \A i \in (last + 1)..Len(list) : list[i] \in Listeners
    BY <1>1, <1>2
  <2>3. QED  BY <2>1, <2>2, SubSeqProperties
<1>5. RemoveAt(list, last) \in Seq(Listeners)
  BY <1>3, <1>4, ConcatProperties DEF RemoveAt
<1>6. list # <<>>
  BY <1>1, EmptySeq
<1>7. QED  BY <1>5, <1>6

-----------------------------------------------------------------------------
(* The parts of the methods *)

\* The stack changes and the lists do not.
LEMMA OnlyStack ==
    ASSUME EmitterInv, UNCHANGED emitterVars, stack' \in Seq(Frames)
    PROVE  EmitterInv'
BY DEF EmitterInv, emitterVars, CountIsExact

\* One list changes, and the count with it.
LEMMA ListChange ==
    ASSUME EmitterInv, NEW t \in Types, NEW list \in Seq(Listeners),
           events' = [events EXCEPT ![t] = list],
           eventsCount' =
             CASE list = <<>> /\ events[t] # <<>> -> eventsCount - 1
               [] list # <<>> /\ events[t] = <<>> -> eventsCount + 1
               [] OTHER -> eventsCount,
           stack' \in Seq(Frames)
    PROVE  EmitterInv'
<1>1. events \in [Types -> Seq(Listeners)]
      /\ eventsCount = Cardinality(Filled(events))
  BY DEF EmitterInv, CountIsExact, Filled
<1>2. /\ events' \in [Types -> Seq(Listeners)] /\ events'[t] = list
      /\ OnlyAt(t, events, events')
  BY <1>1 DEF OnlyAt
<1>3. /\ Cardinality(Filled(events)) \in Nat
      /\ list = <<>> /\ events[t] # <<>> =>
           Cardinality(Filled(events')) = Cardinality(Filled(events)) - 1
      /\ list # <<>> /\ events[t] = <<>> =>
           Cardinality(Filled(events')) = Cardinality(Filled(events)) + 1
      /\ (list = <<>> <=> events[t] = <<>>) =>
           Cardinality(Filled(events')) = Cardinality(Filled(events))
  BY ONLY <1>1, <1>2, FilledChange, t \in Types, list \in Seq(Listeners)
<1>4. eventsCount' = Cardinality(Filled(events'))
  BY <1>1, <1>3
<1>5. QED
  BY <1>2, <1>4 DEF EmitterInv, CountIsExact, Filled

\* All lists go, and the count with them.
LEMMA AllGone ==
    ASSUME events' = NoEvents, eventsCount' = 0, stack' \in Seq(Frames)
    PROVE  EmitterInv'
BY NothingFilled DEF EmitterInv, CountIsExact, Filled

LEMMA InsertKeeps ==
    ASSUME EmitterInv, NEW t \in Types, NEW l \in Listeners,
           NEW prepend \in BOOLEAN, NEW under \in Seq(Frames),
           Insert(t, l, prepend, under)
    PROVE  EmitterInv'
<1> DEFINE list == IF prepend THEN <<l>> \o events[t]
                   ELSE Append(events[t], l)
<1>1. events[t] \in Seq(Listeners)
  BY DEF EmitterInv
<1>2. list \in Seq(Listeners) /\ list # <<>>
  <2>1. CASE prepend
    <3>1. <<l>> \in Seq(Listeners) /\ Len(<<l>>) = 1
      OBVIOUS
    <3>2. /\ <<l>> \o events[t] \in Seq(Listeners)
          /\ Len(<<l>> \o events[t]) = 1 + Len(events[t])
          /\ Len(events[t]) \in Nat
      BY <1>1, <3>1, ConcatProperties, LenProperties
    <3>3. QED  BY <2>1, <3>2, EmptySeq
  <2>2. CASE ~prepend
    <3>1. Append(events[t], l) \in Seq(Listeners)
          /\ Append(events[t], l) # <<>>
      BY <1>1, AppendProperties
    <3>2. QED  BY <2>2, <3>1
  <2>3. QED  BY <2>1, <2>2
<1>3. events' = [events EXCEPT ![t] = list]
      /\ eventsCount' = IF events[t] = <<>> THEN eventsCount + 1
                        ELSE eventsCount
  BY DEF Insert
<1>4. stack' \in Seq(Frames)
  BY GrownType DEF Insert
<1> HIDE DEF list
<1>5. QED  BY <1>2, <1>3, <1>4, ListChange

LEMMA AddListenerKeeps ==
    ASSUME EmitterInv, NEW t \in Types, NEW l \in Listeners,
           NEW prepend \in BOOLEAN, NEW under \in Seq(Frames),
           AddListener(t, l, prepend, under)
    PROVE  EmitterInv'
<1>1. CASE events["newListener"] = <<>>
  BY <1>1, InsertKeeps DEF AddListener
<1>2. CASE events["newListener"] # <<>>
  <2> DEFINE frame == [op |-> "add", type |-> t, listener |-> l,
                       prepend |-> prepend]
  <2>1. UNCHANGED emitterVars
        /\ stack' = EmitOn(events, "newListener", Append(under, frame))
    BY <1>2 DEF AddListener
  <2>2. frame \in Frames  BY FrameOf
  <2> HIDE DEF frame
  <2>3. Append(under, frame) \in Seq(Frames)
    BY <2>2, AppendProperties
  <2>4. events \in [Types -> Seq(Listeners)]
    BY DEF EmitterInv
  <2>5. stack' \in Seq(Frames)
    BY <2>1, <2>3, <2>4, SpecialTypes, EmitOnType
  <2>6. QED  BY <2>1, <2>5, OnlyStack
<1>3. QED  BY <1>1, <1>2

LEMMA RemoveListenerKeeps ==
    ASSUME EmitterInv, NEW t \in Types, NEW l, NEW under \in Seq(Frames),
           RemoveListener(t, l, under)
    PROVE  EmitterInv'
<1>1. CASE ~\E i \in DOMAIN events[t] : Matches(events[t][i], l)
  <2>1. stack' = under /\ UNCHANGED emitterVars
    BY <1>1 DEF RemoveListener
  <2>2. QED  BY <2>1, OnlyStack
<1>2. CASE \E i \in DOMAIN events[t] : Matches(events[t][i], l)
  <2>1. PICK last \in DOMAIN events[t] :
          /\ events' = [events EXCEPT ![t] = RemoveAt(events[t], last)]
          /\ eventsCount' = IF RemoveAt(events[t], last) = <<>>
                            THEN eventsCount - 1 ELSE eventsCount
          /\ stack' = EmitOn(events', "removeListener",
                        IF Len(RemoveAt(events[t], last)) = 1
                        THEN Detached(under, t, RemoveAt(events[t], last))
                        ELSE under)
    BY <1>2 DEF RemoveListener
  <2> DEFINE left == RemoveAt(events[t], last)
             below == IF Len(left) = 1 THEN Detached(under, t, left)
                      ELSE under
  <2>2. events[t] \in Seq(Listeners) /\ events \in [Types -> Seq(Listeners)]
    BY DEF EmitterInv
  <2>3. left \in Seq(Listeners) /\ events[t] # <<>>
    BY <2>2, RemoveAtType
  <2>4. /\ events' = [events EXCEPT ![t] = left]
        /\ eventsCount' = IF left = <<>> THEN eventsCount - 1
                          ELSE eventsCount
        /\ stack' = EmitOn(events', "removeListener", below)
    BY <2>1
  <2> HIDE DEF left
  <2>5. below \in Seq(Frames)
    BY <2>3, DetachedType
  <2> HIDE DEF below
  <2>6. events' \in [Types -> Seq(Listeners)]
    BY <2>2, <2>3, <2>4
  <2>7. stack' \in Seq(Frames)
    BY <2>4, <2>5, <2>6, SpecialTypes, EmitOnType
  <2>8. QED  BY <2>3, <2>4, <2>7, ListChange
<1>3. QED  BY <1>1, <1>2

LEMMA RemoveAllOfKeeps ==
    ASSUME EmitterInv, NEW t \in Types, NEW under \in Seq(Frames),
           RemoveAllOf(t, under)
    PROVE  EmitterInv'
<1>1. events \in [Types -> Seq(Listeners)] /\ events[t] \in Seq(Listeners)
  BY DEF EmitterInv
<1>2. CASE events["removeListener"] = <<>>
  <2>1. /\ events' = [events EXCEPT ![t] = <<>>]
        /\ eventsCount' = IF events[t] = <<>> THEN eventsCount
                          ELSE eventsCount - 1
        /\ stack' = Detached(under, t, events[t])
    BY <1>2 DEF RemoveAllOf
  <2>2. stack' \in Seq(Frames)
    BY <1>1, <2>1, DetachedType
  <2>3. <<>> \in Seq(Listeners)  BY EmptySeq
  <2>4. QED  BY <2>1, <2>2, <2>3, ListChange
<1>3. CASE events["removeListener"] # <<>>
  <2> DEFINE frame == [op |-> "remove", type |-> t, next |-> Len(events[t]),
                       live |-> Len(events[t]) > 1,
                       list |-> events[t], grown |-> FALSE]
  <2>1. UNCHANGED emitterVars
        /\ stack' = IF events[t] = <<>> THEN under ELSE Append(under, frame)
    BY <1>3 DEF RemoveAllOf
  <2>2. frame \in Frames
    <3>1. Len(events[t]) \in Nat /\ (Len(events[t]) > 1) \in BOOLEAN
      BY <1>1, LenProperties
    <3>2. QED  BY <1>1, <3>1, FrameOf
  <2> HIDE DEF frame
  <2>3. stack' \in Seq(Frames)
    BY <2>1, <2>2, AppendProperties
  <2>4. QED  BY <2>1, <2>3, OnlyStack
<1>4. QED  BY <1>2, <1>3

LEMMA ThrowType ==
    ASSUME NEW under \in Seq(Frames), Throw(under)
    PROVE  stack' \in Seq(Frames)
<1>1. Len(under) \in Nat /\ DOMAIN under = 1..Len(under)
  BY LenProperties
<1>2. PICK j \in 0..Len(under) : stack' = SubSeq(under, 1, j)
  BY <1>1 DEF Throw
<1>3. \A i \in 1..j : under[i] \in Frames
  BY <1>1, <1>2, UnderTypes
<1>4. QED  BY <1>2, <1>3, SubSeqProperties

LEMMA ThrowPromise ==
    ASSUME NEW under, Throw(under), promise \in Promises
    PROVE  promise' \in Promises
BY DEF Throw, Promises

\* A function is called on a good stack.
LEMMA ApplyKeeps ==
    ASSUME EmitterInv, NEW f \in AllFunctions, NEW under \in Seq(Frames),
           Apply(f, under), promise.name \in Types
    PROVE  EmitterInv'
<1>1. /\ Append(under, Js) \in Seq(Frames)
      /\ Append(under, [op |-> "settle"]) \in Seq(Frames)
  BY FrameOf, AppendProperties
<1>2. CASE stack' = Append(under, Js) /\ UNCHANGED emitterVars
  BY <1>1, <1>2, OnlyStack
<1>3. CASE RemoveListener("error", Plain("errorListener"),
                          Append(under, [op |-> "settle"]))
  BY <1>1, <1>3, SpecialTypes, RemoveListenerKeeps
<1>4. CASE RemoveListener(promise.name, Plain("resolver"),
                          Append(under, [op |-> "settle"]))
  BY <1>1, <1>4, RemoveListenerKeeps
<1>5. QED  BY <1>2, <1>3, <1>4 DEF Apply

-----------------------------------------------------------------------------
(* The actions *)

\* The stack is a frame on what is below it.
LEMMA TopAndBelow ==
    ASSUME EmitterInv, stack # <<>>
    PROVE  Top \in Frames /\ Below \in Seq(Frames)
<1>1. stack \in Seq(Frames)  BY DEF EmitterInv
<1>2. Len(stack) \in Nat /\ Len(stack) # 0 /\ DOMAIN stack = 1..Len(stack)
  BY <1>1, EmptySeq, LenProperties
<1>3. Len(stack) \in DOMAIN stack  BY <1>2
<1>4. Top \in Frames
  BY <1>1, <1>3, UnderTypes DEF Top
<1>5. \A i \in 1..(Len(stack) - 1) : stack[i] \in Frames
  BY <1>1, <1>2, UnderTypes
<1>6. Below \in Seq(Frames)
  BY <1>2, <1>5, SubSeqProperties DEF Below, Front
<1>7. QED  BY <1>4, <1>6

\* Listeners that the program passes.
LEMMA ListenerTypes ==
    /\ \A f \in AllFunctions : Plain(f) \in Listeners
    /\ \A f \in AllFunctions, w \in Wrappers :
         Wrapped(f, w) \in Listeners /\ Wrapped(f, w).wrapper # NoWrapper
    /\ Functions \subseteq AllFunctions
    /\ "resolver" \in AllFunctions /\ "errorListener" \in AllFunctions
BY WrappersAssumption DEF Plain, Wrapped, Listeners, AllFunctions

\* A call of a method counts as one.
LEMMA CallTypes ==
    ASSUME OtherTypes, Call \/ CallAdd
    PROVE  /\ adds' \in 0..MaxAdds /\ calls' \in 0..MaxCalls
           /\ throws' \in 0..MaxThrows
BY BoundsAssumption DEF OtherTypes, Call, CallAdd

LEMMA InitEvents == Init => EventsInv
<1> SUFFICES ASSUME Init PROVE EventsInv  OBVIOUS
<1>1. EmitterInv
  BY NothingFilled, EmptySeq DEF Init, EmitterInv, CountIsExact, Filled
<1>2. OtherTypes
  BY BoundsAssumption, SpecialTypes DEF Init, OtherTypes, NoPromise, Promises
<1>3. QED  BY <1>1, <1>2 DEF EventsInv

LEMMA AddingSteps ==
    ASSUME EventsInv,
           NEW t \in Types, NEW f \in Functions, NEW prepend \in BOOLEAN,
           On(t, f, prepend) \/ \E w \in Wrappers : Once(t, f, w, prepend)
    PROVE  EventsInv'
<1>1. /\ EmitterInv /\ OtherTypes /\ stack \in Seq(Frames)
  BY DEF EventsInv, EmitterInv
<1>2. CASE On(t, f, prepend)
  <2>1. EmitterInv'
    BY <1>1, <1>2, ListenerTypes, AddListenerKeeps DEF On
  <2>2. OtherTypes'
    BY <1>1, <1>2, CallTypes DEF On, OtherTypes, onceVars
  <2>3. QED  BY <2>1, <2>2 DEF EventsInv
<1>3. ASSUME NEW w \in Wrappers, Once(t, f, w, prepend)
      PROVE  EventsInv'
  <2>1. EmitterInv'
    BY <1>1, <1>3, ListenerTypes, AddListenerKeeps DEF Once
  <2>2. OtherTypes'
    BY <1>1, <1>3, CallTypes DEF Once, OtherTypes
  <2>3. QED  BY <2>1, <2>2 DEF EventsInv
<1>4. QED  BY <1>2, <1>3

LEMMA PromiseStep ==
    ASSUME EventsInv, NEW t \in Types, NEW w \in Wrappers,
           NEW e \in Wrappers, PromiseOnce(t, w, e)
    PROVE  EventsInv'
<1>1. EmitterInv /\ OtherTypes /\ stack \in Seq(Frames)
  BY DEF EventsInv, EmitterInv
<1>2. Append(stack, [op |-> "first", wrapper |-> e]) \in Seq(Frames)
  BY <1>1, FrameOf, AppendProperties
<1>3. Wrapped("resolver", w) \in Listeners
  BY ListenerTypes
<1>4. EmitterInv'
  BY <1>1, <1>2, <1>3, AddListenerKeeps DEF PromiseOnce
<1>5. OtherTypes'
  BY <1>1, CallTypes DEF PromiseOnce, OtherTypes, Promises
<1>6. QED  BY <1>4, <1>5 DEF EventsInv

LEMMA RemovingSteps ==
    ASSUME EventsInv, NEW t \in Types,
           \/ \E f \in Functions : Off(t, f)
           \/ RemoveAllListeners(t)
           \/ RemoveEverything
    PROVE  EventsInv'
<1>1. /\ EmitterInv /\ OtherTypes /\ stack \in Seq(Frames)
      /\ events \in [Types -> Seq(Listeners)]
  BY DEF EventsInv, EmitterInv
<1>2. OtherTypes'
  BY <1>1, CallTypes
     DEF Off, RemoveAllListeners, RemoveEverything, OtherTypes, onceVars
<1>3. ASSUME NEW f \in Functions, Off(t, f)
      PROVE  EventsInv'
  <2>1. EmitterInv'
    BY <1>1, <1>3, RemoveListenerKeeps DEF Off
  <2>2. QED  BY <1>2, <2>1 DEF EventsInv
<1>4. CASE RemoveAllListeners(t)
  <2>1. EmitterInv'
    BY <1>1, <1>4, RemoveAllOfKeeps DEF RemoveAllListeners
  <2>2. QED  BY <1>2, <2>1 DEF EventsInv
<1>5. CASE RemoveEverything
  <2>1. CASE events["removeListener"] = <<>>
    <3>1. events' = NoEvents /\ eventsCount' = 0
          /\ stack' = AllDetached(stack)
      BY <1>5, <2>1 DEF RemoveEverything
    <3>2. stack' \in Seq(Frames)
      BY <1>1, <3>1, AllDetachedType
    <3>3. QED  BY <1>2, <3>1, <3>2, AllGone DEF EventsInv
  <2>2. CASE events["removeListener"] # <<>>
    <3> DEFINE S == {s \in Types : events[s] # <<>>} \ {"removeListener"}
    <3>1. PICK keys \in SetToSeqs(S) :
            stack' = Append(stack, [op |-> "clear",
                              keys |-> Append(keys, "removeListener")])
      BY <1>5, <2>2 DEF RemoveEverything
    <3>2. UNCHANGED emitterVars
      BY <1>5, <2>2 DEF RemoveEverything
    <3>3. keys \in Seq(Types)
      <4> DEFINE n == Cardinality(S)
      <4>1. n \in Nat
        BY TypesFinite, FS_Subset, FS_CardinalityType
      <4>2. keys \in [1..n -> S]
        BY <3>1 DEF SetToSeqs
      <4>3. keys \in [1..n -> Types]
        BY <4>2
      <4> HIDE DEF n
      <4>4. QED  BY <4>1, <4>3 DEF Seq
    <3>4. Append(keys, "removeListener") \in Seq(Types)
      BY <3>3, SpecialTypes, AppendProperties
    <3>5. stack' \in Seq(Frames)
      BY <1>1, <3>1, <3>4, FrameOf, AppendProperties
    <3>6. QED  BY <1>1, <1>2, <3>2, <3>5, OnlyStack DEF EventsInv
  <2>3. QED  BY <2>1, <2>2
<1>6. QED  BY <1>3, <1>4, <1>5

\* emit, and the end of a listener.
LEMMA RunningSteps ==
    ASSUME EventsInv,
           (\E t \in Names \cup {"error"} : Emit(t)) \/ Return \/ ThrowOne
    PROVE  EventsInv'
<1>1. /\ EmitterInv /\ OtherTypes /\ stack \in Seq(Frames)
      /\ events \in [Types -> Seq(Listeners)]
  BY DEF EventsInv, EmitterInv
<1>2. UNCHANGED emitterVars
  BY DEF Emit, Return, ThrowOne
<1>3. OtherTypes'
  <2>1. CASE \E t \in Names \cup {"error"} : Emit(t)
    <3>1. promise' \in Promises
      BY <1>1, <2>1, ThrowPromise DEF Emit, OtherTypes
    <3>2. QED  BY <1>1, <2>1, <3>1, CallTypes DEF Emit, OtherTypes, wrapperVars
  <2>2. CASE Return
    BY <1>1, <2>2 DEF Return, OtherTypes, onceVars
  <2>3. CASE ThrowOne
    <3>1. promise' \in Promises
      BY <1>1, <2>3, ThrowPromise DEF ThrowOne, OtherTypes
    <3>2. QED
      BY <1>1, <2>3, <3>1, BoundsAssumption
         DEF ThrowOne, OtherTypes, wrapperVars
  <2>4. QED  BY <2>1, <2>2, <2>3
<1>4. stack' \in Seq(Frames)
  <2>1. ASSUME NEW t \in Names \cup {"error"}, Emit(t)
        PROVE  stack' \in Seq(Frames)
    <3>1. Throw(stack) \/ stack' = EmitOn(events, t, stack)
      BY <2>1 DEF Emit
    <3>2. t \in Types  BY DEF Types
    <3>3. QED  BY <1>1, <3>1, <3>2, ThrowType, EmitOnType
  <2>2. CASE Return
    BY <1>1, <2>2, TopAndBelow DEF Return
  <2>3. CASE ThrowOne
    BY <1>1, <2>3, TopAndBelow, ThrowType DEF ThrowOne
  <2>4. QED  BY <2>1, <2>2, <2>3
<1>5. QED  BY <1>1, <1>2, <1>3, <1>4, OnlyStack DEF EventsInv

\* emit goes on.
LEMMA CallNextStep ==
    ASSUME EventsInv, CallNext
    PROVE  EventsInv'
<1>1. EmitterInv /\ OtherTypes /\ promise.name \in Types
  BY DEF EventsInv, OtherTypes, Promises
<1>2. /\ stack # <<>> /\ Top.op = "emit" /\ Top.rest # <<>>
      /\ UNCHANGED <<adds, calls, throws, made, fired, promise, ran>>
  BY DEF CallNext, Resume, onceVars
<1>3. /\ Top \in Frames /\ Below \in Seq(Frames) /\ Top.type \in Types
      /\ Top.rest \in Seq(Listeners)
  BY <1>1, <1>2, TopAndBelow, FrameFields
<1> DEFINE l == Head(Top.rest)
           under == Append(Below, [Top EXCEPT !.rest = Tail(@)])
<1>4. l \in Listeners /\ under \in Seq(Frames)
  <2>1. l \in Listeners /\ Tail(Top.rest) \in Seq(Listeners)
    BY <1>2, <1>3, HeadTailProperties
  <2>2. [Top EXCEPT !.rest = Tail(Top.rest)] \in Frames
    BY <1>2, <1>3, <2>1, FrameUpdate
  <2>3. QED  BY <1>3, <2>1, <2>2, AppendProperties
<1>5. \/ Apply(l.fn, under)
      \/ stack' = under /\ UNCHANGED emitterVars
      \/ /\ l.wrapper # NoWrapper
         /\ RemoveListener(Top.type, l,
              Append(under, [op |-> "once", listener |-> l]))
  BY DEF CallNext
<1> HIDE DEF l, under
<1>6. CASE Apply(l.fn, under)
  <2>1. l.fn \in AllFunctions  BY <1>4 DEF Listeners
  <2>2. EmitterInv'  BY <1>1, <1>4, <1>6, <2>1, ApplyKeeps
  <2>3. QED  BY <1>1, <1>2, <2>2 DEF EventsInv, OtherTypes
<1>7. CASE stack' = under /\ UNCHANGED emitterVars
  <2>1. EmitterInv'  BY <1>1, <1>4, <1>7, OnlyStack
  <2>2. QED  BY <1>1, <1>2, <2>1 DEF EventsInv, OtherTypes
<1>8. CASE /\ l.wrapper # NoWrapper
           /\ RemoveListener(Top.type, l,
                Append(under, [op |-> "once", listener |-> l]))
  <2>1. Append(under, [op |-> "once", listener |-> l]) \in Seq(Frames)
    BY <1>4, <1>8, FrameOf, AppendProperties
  <2>2. EmitterInv'  BY <1>1, <1>3, <1>8, <2>1, RemoveListenerKeeps
  <2>3. QED  BY <1>1, <1>2, <2>2 DEF EventsInv, OtherTypes
<1>9. QED  BY <1>5, <1>6, <1>7, <1>8

\* onceWrapper calls its listener.
LEMMA FireStep ==
    ASSUME EventsInv, Fire
    PROVE  EventsInv'
<1>1. EmitterInv /\ OtherTypes /\ promise.name \in Types
  BY DEF EventsInv, OtherTypes, Promises
<1> DEFINE l == Top.listener
<1>2. /\ stack # <<>> /\ Top.op = "once" /\ Apply(l.fn, Below)
      /\ fired' = fired \cup {l.wrapper}
      /\ ran' = [ran EXCEPT ![l.wrapper] = ran[l.wrapper] + 1]
      /\ UNCHANGED <<adds, calls, throws, made, promise>>
  BY DEF Fire, Resume
<1>3. Top \in Frames /\ Below \in Seq(Frames)
  BY <1>1, <1>2, TopAndBelow
<1>4. l \in Listeners /\ l.wrapper # NoWrapper
  BY <1>2, <1>3, FrameFields
<1> HIDE DEF l
<1>5. l.fn \in AllFunctions /\ l.wrapper \in Wrappers
  BY <1>4 DEF Listeners
<1>6. EmitterInv'
  BY <1>1, <1>2, <1>3, <1>5, ApplyKeeps
<1>7. OtherTypes'
  <2>1. ran \in [Wrappers -> Nat]  BY <1>1 DEF OtherTypes
  <2>2. ran' \in [Wrappers -> Nat]  BY <1>2, <1>5, <2>1
  <2>3. QED  BY <1>1, <1>2, <1>5, <2>2 DEF OtherTypes
<1>8. QED  BY <1>6, <1>7 DEF EventsInv

\* The methods that end, and those that go on after 'newListener'.
LEMMA EndingSteps ==
    ASSUME EventsInv, EmitDone \/ PromiseMade \/ Settle
    PROVE  EventsInv'
<1>1. EmitterInv /\ OtherTypes  BY DEF EventsInv
<1>2. stack # <<>> /\ stack' = Below /\ UNCHANGED emitterVars
  BY DEF EmitDone, PromiseMade, Settle, Resume
<1>3. EmitterInv'
  BY <1>1, <1>2, TopAndBelow, OnlyStack
<1>4. OtherTypes'
  <2>1. UNCHANGED <<adds, calls, throws, made, fired, ran>>
    BY DEF EmitDone, PromiseMade, Settle, Resume, onceVars
  <2>2. promise' = promise \/ \E st \in {"pending", "early", "settled"} :
                                promise' = [promise EXCEPT !.state = st]
    BY DEF EmitDone, PromiseMade, Settle, onceVars
  <2>3. QED  BY <1>1, <2>1, <2>2 DEF OtherTypes, Promises
<1>5. QED  BY <1>3, <1>4 DEF EventsInv

LEMMA AddedSteps ==
    ASSUME EventsInv, Added \/ PromiseSecond
    PROVE  EventsInv'
<1>1. EmitterInv /\ OtherTypes  BY DEF EventsInv
<1>2. /\ stack # <<>> /\ Top.op \in {"add", "first"}
      /\ UNCHANGED <<adds, calls, throws, made, fired, promise, ran>>
  BY DEF Added, PromiseSecond, Resume, onceVars
<1>3. Top \in Frames /\ Below \in Seq(Frames)
  BY <1>1, <1>2, TopAndBelow
<1>4. CASE Added
  <2>1. /\ Top.type \in Types /\ Top.listener \in Listeners
        /\ Top.prepend \in BOOLEAN
    BY <1>3, <1>4, FrameFields DEF Added, Resume
  <2>2. EmitterInv'
    BY <1>1, <1>3, <1>4, <2>1, InsertKeeps DEF Added
  <2>3. QED  BY <1>1, <1>2, <2>2 DEF EventsInv, OtherTypes
<1>5. CASE PromiseSecond
  <2>1. Wrapped("errorListener", Top.wrapper) \in Listeners
    BY <1>3, <1>5, FrameFields, ListenerTypes DEF PromiseSecond, Resume
  <2>2. Append(Below, [op |-> "second"]) \in Seq(Frames)
    BY <1>3, FrameOf, AppendProperties
  <2>3. EmitterInv'
    BY <1>1, <1>5, <2>1, <2>2, SpecialTypes, AddListenerKeeps
       DEF PromiseSecond
  <2>4. QED  BY <1>1, <1>2, <2>3 DEF EventsInv, OtherTypes
<1>6. QED  BY <1>4, <1>5

\* The loops of removeAllListeners.
LEMMA RemoveNextCases ==
    ASSUME EmitterInv, RemoveNext
    PROVE  LET array == IF Top.live THEN events[Top.type] ELSE Top.list
           IN  \/ stack' = Below /\ UNCHANGED <<emitterVars, promise>>
               \/ /\ Top.next \in DOMAIN array
                  /\ RemoveListener(Top.type, array[Top.next],
                       Append(Below, [Top EXCEPT !.next = @ - 1]))
                  /\ promise' = promise
               \/ Throw(Below) /\ UNCHANGED emitterVars
<1> DEFINE array == IF Top.live THEN events[Top.type] ELSE Top.list
<1>1. stack # <<>> /\ Top.op = "remove"
  BY DEF RemoveNext, Resume
<1>2. Top.type \in Types /\ Top.next \in Nat /\ Top.list \in Seq(Listeners)
  BY <1>1, TopAndBelow, FrameFields
<1>3. array \in Seq(Listeners)
  BY <1>2 DEF EmitterInv
<1>4. DOMAIN array = 1..Len(array) /\ Len(array) \in Nat
  BY <1>3, LenProperties
<1>5. CASE Top.next = 0
  <2>1. ~(Top.next \in DOMAIN array) /\ ~(Top.next > Len(array))
    BY <1>4, <1>5
  <2>2. QED  BY <1>5, <2>1 DEF RemoveNext
<1>6. CASE Top.next \in DOMAIN array
  <2>1. Top.next # 0 /\ ~(Top.next > Len(array))
    BY <1>4, <1>6
  <2>2. QED  BY <1>6, <2>1 DEF RemoveNext
<1>7. CASE Top.next > Len(array)
  <2>1. Top.next # 0 /\ ~(Top.next \in DOMAIN array)
    BY <1>4, <1>7
  <2>2. QED  BY <1>7, <2>1 DEF RemoveNext
<1>8. Top.next = 0 \/ Top.next \in DOMAIN array \/ Top.next > Len(array)
  BY <1>2, <1>4
<1>9. QED  BY <1>5, <1>6, <1>7, <1>8

LEMMA LoopSteps ==
    ASSUME EventsInv, RemoveNext \/ ClearNext
    PROVE  EventsInv'
<1>1. EmitterInv /\ OtherTypes  BY DEF EventsInv
<1>2. /\ stack # <<>> /\ Top.op \in {"remove", "clear"}
      /\ UNCHANGED <<adds, calls, throws, made, fired, ran>>
  BY DEF RemoveNext, ClearNext, Resume, onceVars, wrapperVars
<1>3. Top \in Frames /\ Below \in Seq(Frames)
  BY <1>1, <1>2, TopAndBelow
<1>4. EmitterInv'
  <2>1. CASE RemoveNext
    <3> DEFINE array == IF Top.live THEN events[Top.type] ELSE Top.list
               under == Append(Below, [Top EXCEPT !.next = @ - 1])
    <3>1. Top.op = "remove" /\ Top.type \in Types /\ Top.next \in Nat
      BY <1>3, <2>1, FrameFields DEF RemoveNext, Resume
    <3>2. \/ stack' = Below /\ UNCHANGED emitterVars
          \/ /\ Top.next \in DOMAIN array
             /\ RemoveListener(Top.type, array[Top.next], under)
          \/ Throw(Below) /\ UNCHANGED emitterVars
      BY <1>1, <2>1, RemoveNextCases
    <3>3. CASE stack' = Below /\ UNCHANGED emitterVars
      BY <1>1, <1>3, <3>3, OnlyStack
    <3>4. CASE /\ Top.next \in DOMAIN array
               /\ RemoveListener(Top.type, array[Top.next], under)
      <4>1. Top.next - 1 \in Nat
        <5>1. array \in Seq(Listeners)
          BY <1>1, <1>3, <3>1, FrameFields DEF EmitterInv
        <5>2. QED  BY <3>4, <5>1, LenProperties
      <4>2. [Top EXCEPT !.next = Top.next - 1] \in Frames
        BY <1>3, <3>1, <4>1, FrameUpdate
      <4>3. under \in Seq(Frames)
        BY <1>3, <4>2, AppendProperties
      <4> HIDE DEF array, under
      <4>4. QED  BY <1>1, <3>1, <3>4, <4>3, RemoveListenerKeeps
    <3>5. CASE Throw(Below) /\ UNCHANGED emitterVars
      BY <1>1, <1>3, <3>5, ThrowType, OnlyStack
    <3>6. QED  BY <3>2, <3>3, <3>4, <3>5
  <2>2. CASE ClearNext
    <3>1. Top.op = "clear" /\ Top.keys \in Seq(Types)
      BY <1>3, <2>2, FrameFields DEF ClearNext, Resume
    <3>2. CASE Top.keys # <<>>
      <4> DEFINE under == Append(Below, [Top EXCEPT !.keys = Tail(@)])
      <4>1. RemoveAllOf(Head(Top.keys), under)
        BY <2>2, <3>2 DEF ClearNext
      <4>2. Head(Top.keys) \in Types /\ Tail(Top.keys) \in Seq(Types)
        BY <3>1, <3>2, HeadTailProperties
      <4>3. [Top EXCEPT !.keys = Tail(Top.keys)] \in Frames
        BY <1>3, <3>1, <4>2, FrameUpdate
      <4>4. under \in Seq(Frames)
        BY <1>3, <4>3, AppendProperties
      <4> HIDE DEF under
      <4>5. QED  BY <1>1, <4>1, <4>2, <4>4, RemoveAllOfKeeps
    <3>3. CASE Top.keys = <<>>
      <4>1. events' = NoEvents /\ eventsCount' = 0
            /\ stack' = AllDetached(Below)
        BY <2>2, <3>3 DEF ClearNext
      <4>2. stack' \in Seq(Frames)
        BY <1>1, <1>3, <4>1, AllDetachedType DEF EmitterInv
      <4>3. QED  BY <4>1, <4>2, AllGone
    <3>4. QED  BY <3>2, <3>3
  <2>3. QED  BY <2>1, <2>2
<1>5. promise' \in Promises
  <2>1. CASE RemoveNext
    <3>1. promise' = promise \/ Throw(Below)
      BY <1>1, <2>1, RemoveNextCases
    <3>2. QED  BY <1>1, <3>1, ThrowPromise DEF OtherTypes
  <2>2. CASE ClearNext
    BY <1>1, <2>2 DEF ClearNext, onceVars, OtherTypes
  <2>3. QED  BY <2>1, <2>2
<1>6. QED  BY <1>1, <1>2, <1>4, <1>5 DEF EventsInv, OtherTypes

-----------------------------------------------------------------------------
(* Theorems *)

LEMMA EventsStep == EventsInv /\ [Next]_vars => EventsInv'
<1> SUFFICES ASSUME EventsInv, [Next]_vars PROVE EventsInv'
  OBVIOUS
<1>1. CASE \E t \in Types, f \in Functions, prepend \in BOOLEAN :
             On(t, f, prepend) \/ \E w \in Wrappers : Once(t, f, w, prepend)
  BY <1>1, AddingSteps
<1>2. CASE \/ \E t \in Types, f \in Functions : Off(t, f)
           \/ \E t \in Types : RemoveAllListeners(t)
           \/ RemoveEverything
  BY <1>2, SpecialTypes, RemovingSteps
<1>3. CASE \E t \in Names \cup {"error"} :
             \E w, e \in Wrappers : PromiseOnce(t, w, e)
  BY <1>3, PromiseStep DEF Types
<1>4. CASE (\E t \in Names \cup {"error"} : Emit(t)) \/ Return \/ ThrowOne
  BY <1>4, RunningSteps
<1>5. CASE MethodStep
  BY <1>5, CallNextStep, FireStep, EndingSteps, AddedSteps, LoopSteps
     DEF MethodStep
<1>6. CASE UNCHANGED vars
  BY <1>6 DEF EventsInv, EmitterInv, OtherTypes, CountIsExact, vars
<1>7. QED
  BY <1>1, <1>2, <1>3, <1>4, <1>5, <1>6 DEF Next, ProgramStep, Idle

LEMMA EventsInvariance == Spec => []EventsInv
<1>1. QED  BY InitEvents, EventsStep, PTL DEF Spec

\* _eventsCount (events/index.js:194, 284, 337) is the number of types with
\* listeners at every moment, also while listeners of 'newListener' and
\* 'removeListener' change the lists in the middle of a method.
THEOREM CountCorrect == Spec => []CountIsExact
<1>1. EventsInv => CountIsExact
  BY DEF EventsInv, EmitterInv
<1>2. QED  BY <1>1, EventsInvariance, PTL

\* The types of the emitter; in particular the count is never negative.
THEOREM EventsTypes == Spec => []TypeOK
<1>1. EventsInv => TypeOK
  <2> SUFFICES ASSUME EventsInv PROVE TypeOK  OBVIOUS
  <2>1. eventsCount = Cardinality(Filled(events))
    BY DEF EventsInv, EmitterInv, CountIsExact, Filled
  <2>2. IsFiniteSet(Filled(events))
    BY TypesFinite, FS_Subset DEF Filled
  <2>3. eventsCount \in Nat
    BY <2>1, <2>2, FS_CardinalityType
  <2>4. QED  BY <2>3 DEF EventsInv, EmitterInv, OtherTypes, TypeOK
<1>2. QED  BY <1>1, EventsInvariance, PTL
-----------------------------------------------------------------------------
(* Stacks and lists, index by index *)

LEMMA AppendFrames ==
    ASSUME NEW under \in Seq(Frames), NEW f \in Frames
    PROVE  /\ Append(under, f) \in Seq(Frames)
           /\ DOMAIN under = 1..Len(under) /\ Len(under) \in Nat
           /\ DOMAIN Append(under, f) = 1..(Len(under) + 1)
           /\ Len(Append(under, f)) = Len(under) + 1
           /\ \A i \in DOMAIN under : Append(under, f)[i] = under[i]
           /\ Append(under, f)[Len(under) + 1] = f
BY AppendProperties, LenProperties

LEMMA BelowFrames ==
    ASSUME EmitterInv, stack # <<>>
    PROVE  /\ Len(stack) \in Nat \ {0} /\ DOMAIN stack = 1..Len(stack)
           /\ Len(stack) \in DOMAIN stack /\ Top = stack[Len(stack)]
           /\ Top \in Frames /\ Below \in Seq(Frames)
           /\ Len(Below) = Len(stack) - 1 /\ DOMAIN Below = 1..Len(Below)
           /\ \A i \in DOMAIN Below :
                i \in DOMAIN stack /\ i # Len(stack) /\ Below[i] = stack[i]
<1>1. stack \in Seq(Frames)  BY DEF EmitterInv
<1>2. Len(stack) \in Nat \ {0} /\ DOMAIN stack = 1..Len(stack)
  BY <1>1, EmptySeq, LenProperties
<1>3. Top = stack[Len(stack)]  BY DEF Top
<1>4. \A i \in 1..(Len(stack) - 1) : stack[i] \in Frames
  BY <1>1, <1>2, UnderTypes
<1>5. /\ Below \in Seq(Frames) /\ Len(Below) = Len(stack) - 1
      /\ \A i \in 1..(Len(stack) - 1) : Below[i] = stack[i]
  BY <1>2, <1>4, SubSeqProperties DEF Below, Front
<1>6. DOMAIN Below = 1..Len(Below)
  BY <1>5, LenProperties
<1>7. QED  BY <1>2, <1>3, <1>5, <1>6, TopAndBelow

LEMMA ThrownFrames ==
    ASSUME NEW under \in Seq(Frames), Throw(under)
    PROVE  /\ stack' \in Seq(Frames)
           /\ Len(under) \in Nat /\ DOMAIN under = 1..Len(under)
           /\ Len(stack') \in Nat /\ DOMAIN stack' = 1..Len(stack')
           /\ Len(stack') <= Len(under)
           /\ \A i \in DOMAIN stack' : i \in DOMAIN under /\ stack'[i] = under[i]
<1>1. Len(under) \in Nat /\ DOMAIN under = 1..Len(under)
  BY LenProperties
<1>2. PICK j \in 0..Len(under) : stack' = SubSeq(under, 1, j)
  BY <1>1 DEF Throw
<1>3. \A i \in 1..j : under[i] \in Frames
  BY <1>1, <1>2, UnderTypes
<1>4. /\ stack' \in Seq(Frames) /\ Len(stack') = j
      /\ \A i \in 1..j : stack'[i] = under[i]
  BY <1>2, <1>3, SubSeqProperties
<1>5. DOMAIN stack' = 1..j
  BY <1>4, LenProperties
<1>6. QED  BY <1>1, <1>2, <1>4, <1>5

\* emit leaves the stack, or puts one frame on it.
LEMMA EmitOnFrames ==
    ASSUME NEW evs \in [Types -> Seq(Listeners)], NEW t \in Types,
           NEW under \in Seq(Frames)
    PROVE  LET f == [op |-> "emit", type |-> t, rest |-> evs[t]]
           IN  /\ f \in Frames
               /\ EmitOn(evs, t, under) \in {under, Append(under, f)}
BY FrameOf DEF EmitOn

\* A list without the listener at `last`.
LEMMA Removed ==
    ASSUME NEW list \in Seq(Listeners), NEW last \in DOMAIN list
    PROVE  LET left == RemoveAt(list, last)
           IN  /\ left \in Seq(Listeners)
               /\ Len(list) \in Nat \ {0} /\ DOMAIN list = 1..Len(list)
               /\ Len(left) = Len(list) - 1 /\ DOMAIN left = 1..Len(left)
               /\ \A j \in DOMAIN left :
                    LET i == IF j < last THEN j ELSE j + 1
                    IN  i \in DOMAIN list /\ i # last /\ left[j] = list[i]
<1> DEFINE a == SubSeq(list, 1, last - 1)
           b == SubSeq(list, last + 1, Len(list))
<1>1. Len(list) \in Nat /\ DOMAIN list = 1..Len(list) /\ last \in 1..Len(list)
  BY LenProperties
<1>2. \A i \in 1..Len(list) : list[i] \in Listeners
  BY ElementOfSeq
<1>3. /\ a \in Seq(Listeners) /\ Len(a) = last - 1
      /\ \A i \in 1..(last - 1) : a[i] = list[i]
  <2>1. \A i \in 1..(last - 1) : list[i] \in Listeners
    BY <1>1, <1>2
  <2>2. QED  BY <1>1, <2>1, SubSeqProperties
<1>4. /\ b \in Seq(Listeners) /\ Len(b) = Len(list) - last
      /\ \A i \in 1..(Len(list) - last) : b[i] = list[last + i]
  <2>1. \A i \in (last + 1)..Len(list) : list[i] \in Listeners
    BY <1>1, <1>2
  <2>2. QED  BY <1>1, <2>1, SubSeqProperties
<1>5. RemoveAt(list, last) = a \o b
  BY DEF RemoveAt
<1> HIDE DEF a, b
<1>6. /\ a \o b \in Seq(Listeners) /\ Len(a \o b) = Len(list) - 1
      /\ \A j \in 1..(Len(list) - 1) : (a \o b)[j] =
           IF j <= last - 1 THEN a[j] ELSE b[j - (last - 1)]
  <2>1. /\ a \o b \in Seq(Listeners) /\ Len(a \o b) = Len(a) + Len(b)
        /\ \A j \in 1..(Len(a) + Len(b)) : (a \o b)[j] =
             IF j <= Len(a) THEN a[j] ELSE b[j - Len(a)]
    BY <1>3, <1>4, ConcatProperties
  <2>2. Len(a) = last - 1 /\ Len(a) + Len(b) = Len(list) - 1
    BY <1>1, <1>3, <1>4
  <2>3. QED  BY <2>1, <2>2
<1>7. DOMAIN (a \o b) = 1..(Len(list) - 1)
  BY <1>6, LenProperties
<1>8. ASSUME NEW j \in 1..(Len(list) - 1)
      PROVE  LET i == IF j < last THEN j ELSE j + 1
             IN  /\ i \in DOMAIN list /\ i # last /\ (a \o b)[j] = list[i]
  <2>1. CASE j < last
    BY <1>1, <1>3, <1>6, <2>1
  <2>2. CASE ~(j < last)
    <3>1. (a \o b)[j] = b[j - (last - 1)] /\ j - (last - 1) \in 1..(Len(list) - last)
      BY <1>1, <1>6, <2>2
    <3>2. b[j - (last - 1)] = list[last + (j - (last - 1))]
      BY <1>4, <3>1
    <3>3. last + (j - (last - 1)) = j + 1  BY <1>1
    <3>4. QED  BY <1>1, <2>2, <3>1, <3>2, <3>3
  <2>3. QED  BY <2>1, <2>2
<1>9. Len(list) \in Nat \ {0} /\ DOMAIN (a \o b) = 1..Len(a \o b)
  <2>1. Len(list) \in Nat \ {0}  BY <1>1
  <2>2. DOMAIN (a \o b) = 1..Len(a \o b)  BY <1>6, LenProperties
  <2>3. QED  BY <2>1, <2>2
<1>10. QED  BY <1>1, <1>5, <1>6, <1>7, <1>8, <1>9, Zenon

\* removeListener that finds what it removes.
LEMMA Removal ==
    ASSUME EmitterInv, NEW t \in Types, NEW l, NEW under \in Seq(Frames),
           RemoveListener(t, l, under),
           \E i \in DOMAIN events[t] : Matches(events[t][i], l)
    PROVE  /\ events' \in [Types -> Seq(Listeners)]
           /\ \A u \in Types : u # t => events'[u] = events[u]
           /\ Len(events[t]) \in Nat \ {0}
           /\ DOMAIN events[t] = 1..Len(events[t])
           /\ Len(events'[t]) = Len(events[t]) - 1
           /\ DOMAIN events'[t] = 1..Len(events'[t])
           /\ \E last \in DOMAIN events[t] :
                /\ IsLastMatch(last, events[t], l)
                /\ \A j \in DOMAIN events'[t] :
                     LET i == IF j < last THEN j ELSE j + 1
                     IN  /\ i \in DOMAIN events[t] /\ i # last
                         /\ events'[t][j] = events[t][i]
           /\ stack' = EmitOn(events', "removeListener",
                              IF Len(events'[t]) = 1
                              THEN Detached(under, t, events'[t]) ELSE under)
<1>1. PICK last \in DOMAIN events[t] :
        /\ IsLastMatch(last, events[t], l)
        /\ events' = [events EXCEPT ![t] = RemoveAt(events[t], last)]
        /\ stack' = EmitOn(events', "removeListener",
                      IF Len(RemoveAt(events[t], last)) = 1
                      THEN Detached(under, t, RemoveAt(events[t], last))
                      ELSE under)
  BY DEF RemoveListener
<1>2. events \in [Types -> Seq(Listeners)] /\ events[t] \in Seq(Listeners)
  BY DEF EmitterInv
<1> DEFINE left == RemoveAt(events[t], last)
<1>3. /\ left \in Seq(Listeners)
      /\ Len(events[t]) \in Nat \ {0} /\ DOMAIN events[t] = 1..Len(events[t])
      /\ Len(left) = Len(events[t]) - 1 /\ DOMAIN left = 1..Len(left)
      /\ \A j \in DOMAIN left :
           LET i == IF j < last THEN j ELSE j + 1
           IN  i \in DOMAIN events[t] /\ i # last /\ left[j] = events[t][i]
  BY <1>2, Removed
<1>4. events' = [events EXCEPT ![t] = left]
      /\ stack' = EmitOn(events', "removeListener",
                    IF Len(left) = 1 THEN Detached(under, t, left) ELSE under)
  BY <1>1
<1> HIDE DEF left
<1>5. events'[t] = left /\ events' \in [Types -> Seq(Listeners)]
      /\ \A u \in Types : u # t => events'[u] = events[u]
  BY <1>2, <1>3, <1>4
<1>6. QED  BY <1>1, <1>3, <1>4, <1>5

\* removeListener that finds nothing.
LEMMA NoRemoval ==
    ASSUME NEW t, NEW l, NEW under, RemoveListener(t, l, under),
           ~\E i \in DOMAIN events[t] : Matches(events[t][i], l)
    PROVE  stack' = under /\ UNCHANGED emitterVars
BY DEF RemoveListener
-----------------------------------------------------------------------------
(* removeAllListeners(type) empties the list: it has as many steps to go   *)
(* as there are listeners left, or holds the array of the last one.        *)

GoodLoop(evs, f) ==
    f.op = "remove" /\ ~f.grown =>
        IF f.live THEN Len(evs[f.type]) <= f.next
        ELSE \/ evs[f.type] = <<>>
             \/ f.next >= 1 /\ Len(f.list) = 1 /\ evs[f.type] = f.list

\* The same before a listener of t is removed in its turn.
GoodBefore(evs, f, t) ==
    f.op = "remove" /\ ~f.grown =>
        IF f.type # t THEN GoodLoop(evs, f)
        ELSE IF f.live THEN Len(evs[t]) <= f.next + 1
        ELSE evs[t] = <<>> \/ (Len(f.list) = 1 /\ evs[t] = f.list)

Loops(evs, stk) == \A i \in DOMAIN stk : GoodLoop(evs, stk[i])

LoopsInv == Loops(events, stack)

LEMMA GoodIsGoodBefore ==
    ASSUME NEW evs \in [Types -> Seq(Listeners)], NEW f \in Frames, NEW t \in Types,
           GoodLoop(evs, f)
    PROVE  GoodBefore(evs, f, t)
<1>1. f.op = "remove" => f.next \in Nat /\ f.type \in Types
  BY FrameFields
<1>2. f.op = "remove" => Len(evs[f.type]) \in Nat
  BY <1>1, LenProperties
<1>3. CASE f.op = "remove" /\ ~f.grown /\ f.type = t /\ f.live
  <2>1. Len(evs[t]) <= f.next  BY <1>3 DEF GoodLoop
  <2>2. Len(evs[t]) <= f.next + 1  BY <1>1, <1>2, <1>3, <2>1
  <2>3. QED  BY <1>3, <2>2 DEF GoodBefore
<1>4. CASE ~(f.op = "remove" /\ ~f.grown /\ f.type = t /\ f.live)
  BY <1>4 DEF GoodLoop, GoodBefore
<1>5. QED  BY <1>3, <1>4

\* A frame of another method is put on a stack of good loops.
LEMMA LoopsAppend ==
    ASSUME NEW evs, NEW under \in Seq(Frames), NEW f \in Frames,
           Loops(evs, under), GoodLoop(evs, f)
    PROVE  Loops(evs, Append(under, f))
BY AppendFrames DEF Loops

LEMMA LoopsEmitOn ==
    ASSUME NEW evs \in [Types -> Seq(Listeners)], NEW t \in Types,
           NEW under \in Seq(Frames), Loops(evs, under)
    PROVE  Loops(evs, EmitOn(evs, t, under))
<1> DEFINE f == [op |-> "emit", type |-> t, rest |-> evs[t]]
<1>1. f \in Frames /\ EmitOn(evs, t, under) \in {under, Append(under, f)}
  BY EmitOnFrames
<1>2. GoodLoop(evs, f)
  BY DEF GoodLoop
<1> HIDE DEF f
<1>3. Loops(evs, Append(under, f))
  BY <1>1, <1>2, LoopsAppend
<1>4. QED  BY <1>1, <1>3

\* Loops that lose all their lists.
LEMMA EmptyIsGood ==
    ASSUME NEW evs, NEW f \in Frames,
           f.op = "remove" => evs[f.type] = <<>>
    PROVE  GoodLoop(evs, f)
<1>1. f.op = "remove" => f.next \in Nat
  BY FrameFields
<1>2. Len(<<>>) = 0
  BY EmptySeq
<1>3. QED  BY <1>1, <1>2 DEF GoodLoop

LEMMA LoopsInsert ==
    ASSUME EmitterInv, NEW t \in Types, NEW l, NEW prepend,
           NEW under \in Seq(Frames), Insert(t, l, prepend, under),
           Loops(events, under)
    PROVE  Loops(events', stack')
<1>1. stack' = Grown(under, t) /\ DOMAIN Grown(under, t) = DOMAIN under
  BY DEF Insert, Grown
<1>2. events \in [Types -> Seq(Listeners)]  BY DEF EmitterInv
<1>3. \A u \in Types : u # t => events'[u] = events[u]
  BY <1>2 DEF Insert
<1>4. ASSUME NEW i \in DOMAIN under
      PROVE  GoodLoop(events', Grown(under, t)[i])
  <2>1. under[i] \in Frames /\ GoodLoop(events, under[i])
    BY UnderTypes DEF Loops
  <2>2. CASE under[i].op = "remove" /\ under[i].type = t
    <3>1. Grown(under, t)[i] = [under[i] EXCEPT !.grown = TRUE]
      BY <2>2 DEF Grown
    <3>2. Grown(under, t)[i].grown
      BY <2>1, <2>2, <3>1 DEF Frames
    <3>3. QED  BY <3>2 DEF GoodLoop
  <2>3. CASE under[i].op = "remove" /\ under[i].type # t
    <3>1. Grown(under, t)[i] = under[i] /\ under[i].type \in Types
      BY <2>1, <2>3, FrameFields DEF Grown
    <3>2. events'[under[i].type] = events[under[i].type]
      BY <1>3, <2>3, <3>1
    <3>3. QED  BY <2>1, <3>1, <3>2 DEF GoodLoop
  <2>4. CASE under[i].op # "remove"
    BY <2>4 DEF Grown, GoodLoop
  <2>5. QED  BY <2>2, <2>3, <2>4
<1>5. QED  BY <1>1, <1>4 DEF Loops

LEMMA LoopsAddListener ==
    ASSUME EmitterInv, NEW t \in Types, NEW l \in Listeners,
           NEW prepend \in BOOLEAN, NEW under \in Seq(Frames),
           AddListener(t, l, prepend, under), Loops(events, under)
    PROVE  Loops(events', stack')
<1>1. CASE events["newListener"] = <<>>
  BY <1>1, LoopsInsert DEF AddListener
<1>2. CASE events["newListener"] # <<>>
  <2> DEFINE f == [op |-> "add", type |-> t, listener |-> l,
                   prepend |-> prepend]
  <2>1. events' = events
        /\ stack' = EmitOn(events, "newListener", Append(under, f))
    BY <1>2 DEF AddListener, emitterVars
  <2>2. f \in Frames /\ GoodLoop(events, f)
    BY FrameOf DEF GoodLoop
  <2> HIDE DEF f
  <2>3. Append(under, f) \in Seq(Frames) /\ Loops(events, Append(under, f))
    BY <2>2, LoopsAppend, AppendFrames
  <2>4. QED
    BY <2>1, <2>3, LoopsEmitOn, SpecialTypes DEF EmitterInv
<1>3. QED  BY <1>1, <1>2

LEMMA LoopsRemoveListener ==
    ASSUME EmitterInv, NEW t \in Types, NEW l, NEW under \in Seq(Frames),
           RemoveListener(t, l, under),
           IF \E i \in DOMAIN events[t] : Matches(events[t][i], l)
           THEN \A i \in DOMAIN under : GoodBefore(events, under[i], t)
           ELSE Loops(events, under)
    PROVE  Loops(events', stack')
<1>1. CASE ~\E i \in DOMAIN events[t] : Matches(events[t][i], l)
  BY <1>1, NoRemoval DEF emitterVars
<1>2. CASE \E i \in DOMAIN events[t] : Matches(events[t][i], l)
  <2> DEFINE left == events'[t]
             below == IF Len(left) = 1 THEN Detached(under, t, left)
                      ELSE under
  <2>1. /\ events' \in [Types -> Seq(Listeners)]
        /\ \A u \in Types : u # t => events'[u] = events[u]
        /\ Len(events[t]) \in Nat \ {0}
        /\ Len(left) = Len(events[t]) - 1
        /\ stack' = EmitOn(events', "removeListener", below)
    BY <1>2, Removal
  <2>2. left \in Seq(Listeners)  BY <2>1
  <2>3. below \in Seq(Frames) /\ DOMAIN below = DOMAIN under
    BY <2>2, DetachedType DEF Detached
  <2>4. ASSUME NEW i \in DOMAIN under
        PROVE  GoodLoop(events', below[i])
    <3>1. under[i] \in Frames /\ GoodBefore(events, under[i], t)
      BY <1>2, UnderTypes
    <3>2. CASE under[i].op # "remove"
      BY <3>2 DEF Detached, GoodLoop
    <3>3. CASE under[i].op = "remove" /\ under[i].type # t
      <4>1. below[i] = under[i] /\ under[i].type \in Types
        BY <3>1, <3>3, FrameFields DEF Detached
      <4>2. events'[under[i].type] = events[under[i].type]
        BY <2>1, <3>3, <4>1
      <4>3. QED  BY <3>1, <3>3, <4>1, <4>2 DEF GoodBefore, GoodLoop
    <3>4. CASE under[i].op = "remove" /\ under[i].type = t /\ under[i].grown
      <4>1. below[i].grown
        BY <3>1, <3>4 DEF Detached, Frames
      <4>2. QED  BY <4>1 DEF GoodLoop
    <3>5. CASE /\ under[i].op = "remove" /\ under[i].type = t
               /\ ~under[i].grown /\ under[i].live
      <4>1. under[i].next \in Nat /\ Len(events[t]) <= under[i].next + 1
        BY <3>1, <3>5, FrameFields DEF GoodBefore
      <4>2. CASE Len(left) = 1
        <5>1. below[i] = [under[i] EXCEPT !.live = FALSE, !.list = left]
          BY <3>5, <4>2 DEF Detached
        <5>2. /\ below[i].op = "remove" /\ below[i].type = t
              /\ ~below[i].live /\ below[i].list = left
              /\ below[i].next = under[i].next
          BY <3>1, <3>5, <5>1 DEF Frames
        <5>3. Len(events[t]) - 1 = 1 /\ Len(events[t]) \in Nat
          BY <2>1, <4>2
        <5>4. under[i].next >= 1
          <6>1. \A m, n \in Nat : m <= n + 1 /\ m - 1 = 1 => n >= 1
            OBVIOUS
          <6>2. QED  BY <4>1, <5>3, <6>1, Zenon
        <5>5. QED  BY <4>2, <5>2, <5>4 DEF GoodLoop
      <4>3. CASE Len(left) # 1
        <5>1. below[i] = under[i]  BY <4>3
        <5>2. Len(left) <= under[i].next  BY <2>1, <4>1
        <5>3. QED  BY <3>5, <5>1, <5>2 DEF GoodLoop
      <4>4. QED  BY <4>2, <4>3
    <3>6. CASE /\ under[i].op = "remove" /\ under[i].type = t
               /\ ~under[i].grown /\ ~under[i].live
      <4>1. below[i] = under[i]  BY <3>6 DEF Detached
      <4>2. events[t] # <<>>  BY <2>1, EmptySeq
      <4>3. Len(events[t]) = 1
        BY <3>1, <3>6, <4>2 DEF GoodBefore
      <4>4. left = <<>>  BY <2>1, <2>2, <4>3, EmptySeq
      <4>5. QED  BY <3>6, <4>1, <4>4 DEF GoodLoop
    <3>7. QED  BY <3>2, <3>3, <3>4, <3>5, <3>6
  <2>5. Loops(events', below)
    BY <2>3, <2>4 DEF Loops
  <2> HIDE DEF below
  <2>6. QED  BY <2>1, <2>3, <2>5, LoopsEmitOn, SpecialTypes
<1>3. QED  BY <1>1, <1>2

\* A loop of which no listener has been removed by itself.
LEMMA LoopsRemoveOther ==
    ASSUME EmitterInv, NEW t \in Types, NEW l, NEW under \in Seq(Frames),
           RemoveListener(t, l, under), Loops(events, under)
    PROVE  Loops(events', stack')
<1>1. \A i \in DOMAIN under : GoodBefore(events, under[i], t)
  BY UnderTypes, GoodIsGoodBefore DEF EmitterInv, Loops
<1>2. QED  BY <1>1, LoopsRemoveListener

\* The loop ends, removes a listener or fails.
LEMMA LoopsRemoveAllOf ==
    ASSUME EmitterInv, NEW t \in Types, NEW under \in Seq(Frames),
           RemoveAllOf(t, under), Loops(events, under)
    PROVE  Loops(events', stack')
<1>1. events \in [Types -> Seq(Listeners)] /\ events[t] \in Seq(Listeners)
  BY DEF EmitterInv
<1>2. CASE events["removeListener"] = <<>>
  <2>1. /\ events' = [events EXCEPT ![t] = <<>>]
        /\ stack' = Detached(under, t, events[t])
        /\ DOMAIN stack' = DOMAIN under
    BY <1>2 DEF RemoveAllOf, Detached
  <2>2. ASSUME NEW i \in DOMAIN under
        PROVE  GoodLoop(events', stack'[i])
    <3>1. under[i] \in Frames /\ stack'[i] \in Frames /\ GoodLoop(events, under[i])
      BY <1>1, <2>1, UnderTypes, DetachedType DEF Loops
    <3>2. CASE under[i].op = "remove" /\ under[i].type = t
      <4>1. stack'[i].op = "remove" /\ stack'[i].type = t
        BY <2>1, <3>1, <3>2 DEF Detached, Frames
      <4>2. events'[t] = <<>>  BY <1>1, <2>1
      <4>3. QED  BY <3>1, <4>1, <4>2, EmptyIsGood
    <3>3. CASE under[i].op = "remove" /\ under[i].type # t
      <4>1. stack'[i] = under[i] /\ under[i].type \in Types
        BY <2>1, <3>1, <3>3, FrameFields DEF Detached
      <4>2. events'[under[i].type] = events[under[i].type]
        BY <1>1, <2>1, <3>3, <4>1
      <4>3. QED  BY <3>1, <4>1, <4>2 DEF GoodLoop
    <3>4. CASE under[i].op # "remove"
      BY <2>1, <3>4 DEF Detached, GoodLoop
    <3>5. QED  BY <3>2, <3>3, <3>4
  <2>3. QED  BY <2>1, <2>2 DEF Loops
<1>3. CASE events["removeListener"] # <<>>
  <2> DEFINE f == [op |-> "remove", type |-> t, next |-> Len(events[t]),
                   live |-> Len(events[t]) > 1,
                   list |-> events[t], grown |-> FALSE]
  <2>1. events' = events
        /\ stack' = IF events[t] = <<>> THEN under ELSE Append(under, f)
    BY <1>3 DEF RemoveAllOf, emitterVars
  <2>2. CASE events[t] = <<>>
    BY <2>1, <2>2
  <2>3. CASE events[t] # <<>>
    <3>1. Len(events[t]) \in Nat \ {0} /\ (Len(events[t]) > 1) \in BOOLEAN
      BY <1>1, <2>3, EmptySeq
    <3>2. f \in Frames
      BY <1>1, <3>1, FrameOf
    <3>3. /\ f.op = "remove" /\ f.type = t /\ f.next = Len(events[t])
          /\ f.live = (Len(events[t]) > 1) /\ f.list = events[t]
      OBVIOUS
    <3> HIDE DEF f
    <3>4. f.live => Len(events[f.type]) <= f.next
      BY <3>1, <3>3
    <3>5. ~f.live => f.next >= 1 /\ Len(f.list) = 1 /\ events[f.type] = f.list
      <4>1. Len(events[t]) > 1 \/ Len(events[t]) = 1
        <5>1. \A n \in Nat \ {0} : n > 1 \/ n = 1  OBVIOUS
        <5>2. QED  BY <3>1, <5>1, Zenon
      <4>2. CASE Len(events[t]) > 1  BY <3>3, <4>2
      <4>3. CASE Len(events[t]) = 1  BY <3>3, <4>3
      <4>4. QED  BY <4>1, <4>2, <4>3
    <3>6. GoodLoop(events, f)
      BY <3>4, <3>5 DEF GoodLoop
    <3>7. QED  BY <2>1, <2>3, <3>2, <3>6, LoopsAppend
  <2>4. QED  BY <2>2, <2>3
<1>4. QED  BY <1>2, <1>3

LEMMA LoopsAllGone ==
    ASSUME EmitterInv, NEW under \in Seq(Frames),
           events' = NoEvents, stack' = AllDetached(under)
    PROVE  Loops(events', stack')
<1>1. stack' \in Seq(Frames)
  BY AllDetachedType DEF EmitterInv
<1>2. ASSUME NEW i \in DOMAIN stack'
      PROVE  GoodLoop(events', stack'[i])
  <2>1. stack'[i] \in Frames  BY <1>1, UnderTypes
  <2>2. stack'[i].op = "remove" => events'[stack'[i].type] = <<>>
    BY <2>1, FrameFields DEF NoEvents
  <2>3. QED  BY <2>1, <2>2, EmptyIsGood
<1>3. QED  BY <1>2 DEF Loops

\* Frames that are popped.
LEMMA LoopsFewer ==
    ASSUME NEW evs, NEW under, NEW stk, Loops(evs, under),
           \A i \in DOMAIN stk : i \in DOMAIN under /\ stk[i] = under[i]
    PROVE  Loops(evs, stk)
BY DEF Loops

LEMMA LoopsThrow ==
    ASSUME NEW under \in Seq(Frames), Throw(under), Loops(events, under),
           events' = events
    PROVE  Loops(events', stack')
BY ThrownFrames, LoopsFewer

LEMMA LoopsApply ==
    ASSUME EmitterInv, NEW f \in AllFunctions, NEW under \in Seq(Frames),
           Apply(f, under), promise.name \in Types, Loops(events, under)
    PROVE  Loops(events', stack')
<1>1. /\ Js \in Frames /\ GoodLoop(events, Js)
      /\ [op |-> "settle"] \in Frames /\ GoodLoop(events, [op |-> "settle"])
  BY FrameOf DEF GoodLoop, Js
<1>2. /\ Append(under, Js) \in Seq(Frames)
      /\ Loops(events, Append(under, Js))
      /\ Append(under, [op |-> "settle"]) \in Seq(Frames)
      /\ Loops(events, Append(under, [op |-> "settle"]))
  BY <1>1, LoopsAppend, AppendFrames
<1>3. CASE stack' = Append(under, Js) /\ UNCHANGED emitterVars
  BY <1>2, <1>3 DEF emitterVars
<1>4. CASE RemoveListener("error", Plain("errorListener"),
                          Append(under, [op |-> "settle"]))
  BY <1>2, <1>4, SpecialTypes, LoopsRemoveOther
<1>5. CASE RemoveListener(promise.name, Plain("resolver"),
                          Append(under, [op |-> "settle"]))
  BY <1>2, <1>5, LoopsRemoveOther
<1>6. QED  BY <1>3, <1>4, <1>5 DEF Apply

LEMMA LoopsBelow ==
    ASSUME EmitterInv, stack # <<>>, LoopsInv
    PROVE  Loops(events, Below) /\ GoodLoop(events, Top)
BY BelowFrames DEF LoopsInv, Loops

\* The loop removes the listener at `next`, and nothing else.
LEMMA LoopsRemoveNext ==
    ASSUME EventsInv, LoopsInv, RemoveNext
    PROVE  LoopsInv'
<1>1. EmitterInv /\ stack # <<>> /\ Top.op = "remove"
  BY DEF EventsInv, RemoveNext, Resume
<1>2. /\ Top \in Frames /\ Below \in Seq(Frames) /\ Loops(events, Below)
      /\ GoodLoop(events, Top) /\ Top.type \in Types /\ Top.next \in Nat
      /\ Top.list \in Seq(Listeners)
  BY <1>1, BelowFrames, LoopsBelow, FrameFields
<1> DEFINE t == Top.type
           array == IF Top.live THEN events[t] ELSE Top.list
           f == [Top EXCEPT !.next = Top.next - 1]
           under == Append(Below, f)
<1>3. events \in [Types -> Seq(Listeners)]  BY <1>1 DEF EmitterInv
<1>4. /\ DOMAIN array = 1..Len(array) /\ Len(array) \in Nat
      /\ Len(events[t]) \in Nat
  <2>1. array \in Seq(Listeners) /\ events[t] \in Seq(Listeners)
    BY <1>2, <1>3
  <2>2. QED  BY <2>1, LenProperties
<1>5. CASE stack' = Below /\ UNCHANGED emitterVars
  BY <1>2, <1>5 DEF LoopsInv, emitterVars
<1>6. CASE Throw(Below) /\ UNCHANGED emitterVars
  BY <1>2, <1>6, LoopsThrow DEF LoopsInv, emitterVars
<1>7. CASE /\ Top.next \in DOMAIN array
           /\ RemoveListener(t, array[Top.next], under)
  <2> DEFINE l == array[Top.next]
  <2>1. Top.next # 0 /\ Top.next - 1 \in Nat
    BY <1>2, <1>4, <1>7
  <2>2. RemoveListener(t, l, under)
    BY <1>7
  <2>3. f \in Frames
    BY <1>1, <1>2, <2>1, FrameUpdate
  <2>4. /\ f.op = "remove" /\ f.type = t /\ f.next = Top.next - 1
        /\ f.live = Top.live /\ f.list = Top.list /\ f.grown = Top.grown
    BY <1>1, <1>2 DEF Frames
  <2> DEFINE found == \E i \in DOMAIN events[t] : Matches(events[t][i], l)
  <2>5. CASE found
    <3>1. GoodBefore(events, f, t)
      <4>1. CASE Top.grown
        BY <2>4, <4>1 DEF GoodBefore
      <4>2. CASE ~Top.grown /\ Top.live
        <5>1. Len(events[t]) <= f.next + 1
          BY <1>1, <1>2, <1>4, <2>4, <4>2 DEF GoodLoop
        <5>2. QED  BY <2>4, <4>2, <5>1 DEF GoodBefore
      <4>3. CASE ~Top.grown /\ ~Top.live
        BY <1>1, <1>2, <2>4, <4>3 DEF GoodLoop, GoodBefore
      <4>4. QED  BY <4>1, <4>2, <4>3
    <3>2. \A i \in DOMAIN Below : GoodBefore(events, Below[i], t)
      BY <1>2, <1>3, UnderTypes, GoodIsGoodBefore DEF Loops
    <3>3. /\ under \in Seq(Frames)
          /\ \A i \in DOMAIN under : GoodBefore(events, under[i], t)
      <4> HIDE DEF f
      <4>1. QED  BY <1>2, <2>3, <3>1, <3>2, AppendFrames
    <3> HIDE DEF t, l, under
    <3>4. QED
      BY <1>1, <1>2, <2>2, <2>5, <3>3, LoopsRemoveListener DEF LoopsInv, t
  <2>6. CASE ~found
    <3>1. stack' = under /\ events' = events
      BY <2>2, <2>6, NoRemoval DEF emitterVars
    <3>2. GoodLoop(events, f)
      <4>1. CASE Top.grown
        BY <2>4, <4>1 DEF GoodLoop
      <4>2. CASE ~Top.grown /\ Top.live
        BY <1>7, <2>6, <4>2 DEF Matches
      <4>3. CASE ~Top.grown /\ ~Top.live
        <5>1. events[t] = <<>>
          BY <1>1, <1>2, <1>7, <2>6, <4>3 DEF GoodLoop, Matches
        <5>2. QED  BY <2>3, <2>4, <5>1, EmptyIsGood
      <4>4. QED  BY <4>1, <4>2, <4>3
    <3> HIDE DEF f
    <3>3. QED  BY <1>2, <2>3, <3>1, <3>2, LoopsAppend DEF LoopsInv
  <2>7. QED  BY <2>5, <2>6
<1>8. QED  BY <1>1, <1>5, <1>6, <1>7, RemoveNextCases

LEMMA LoopsStep == EventsInv /\ LoopsInv /\ [Next]_vars => LoopsInv'
<1> SUFFICES ASSUME EventsInv, LoopsInv, [Next]_vars PROVE LoopsInv'
  OBVIOUS
<1>1. /\ EmitterInv /\ stack \in Seq(Frames) /\ promise.name \in Types
      /\ Loops(events, stack)
  BY DEF EventsInv, EmitterInv, OtherTypes, LoopsInv, Promises
<1>2. ASSUME NEW t \in Types, NEW f \in Functions, NEW prepend \in BOOLEAN,
             On(t, f, prepend) \/ \E w \in Wrappers : Once(t, f, w, prepend)
      PROVE  LoopsInv'
  <2>1. \E l \in Listeners : AddListener(t, l, prepend, stack)
    BY <1>2, ListenerTypes DEF On, Once
  <2>2. QED  BY <1>1, <2>1, LoopsAddListener DEF LoopsInv
<1>3. ASSUME NEW t \in Types, NEW f \in Functions, Off(t, f)
      PROVE  LoopsInv'
  BY <1>1, <1>3, LoopsRemoveOther DEF Off, LoopsInv
<1>4. ASSUME NEW t \in Types, RemoveAllListeners(t)
      PROVE  LoopsInv'
  BY <1>1, <1>4, LoopsRemoveAllOf DEF RemoveAllListeners, LoopsInv
<1>5. ASSUME NEW t \in Types, Emit(t)
      PROVE  LoopsInv'
  <2>1. events' = events /\ (Throw(stack) \/ stack' = EmitOn(events, t, stack))
    BY <1>5 DEF Emit, emitterVars
  <2>2. CASE Throw(stack)
    BY <1>1, <2>1, <2>2, LoopsThrow DEF LoopsInv
  <2>3. CASE stack' = EmitOn(events, t, stack)
    BY <1>1, <2>1, <2>3, LoopsEmitOn DEF LoopsInv, EmitterInv
  <2>4. QED  BY <2>1, <2>2, <2>3
<1>6. ASSUME NEW t \in Types, NEW w \in Wrappers, NEW e \in Wrappers,
             PromiseOnce(t, w, e)
      PROVE  LoopsInv'
  <2> DEFINE first == [op |-> "first", wrapper |-> e]
  <2>1. AddListener(t, Wrapped("resolver", w), FALSE, Append(stack, first))
    BY <1>6 DEF PromiseOnce
  <2>2. first \in Frames /\ GoodLoop(events, first)
    BY FrameOf DEF GoodLoop
  <2> HIDE DEF first
  <2>3. Append(stack, first) \in Seq(Frames)
        /\ Loops(events, Append(stack, first))
    BY <1>1, <2>2, LoopsAppend, AppendFrames
  <2>4. QED
    BY <1>1, <2>1, <2>3, ListenerTypes, LoopsAddListener DEF LoopsInv
<1>7. CASE RemoveEverything
  <2>1. CASE events["removeListener"] = <<>>
    BY <1>1, <1>7, <2>1, LoopsAllGone DEF RemoveEverything, LoopsInv
  <2>2. CASE events["removeListener"] # <<>>
    <3>1. PICK keys : stack' = Append(stack, [op |-> "clear", keys |-> keys])
      BY <1>7, <2>2 DEF RemoveEverything
    <3>2. events' = events
      BY <1>7, <2>2 DEF RemoveEverything, emitterVars
    <3> DEFINE clear == [op |-> "clear", keys |-> keys]
    <3>3. GoodLoop(events, clear)  BY DEF GoodLoop
    <3>4. stack' = Append(stack, clear)  BY <3>1
    <3> HIDE DEF clear
    <3>5. \A i \in DOMAIN stack' :
            (i \in DOMAIN stack /\ stack'[i] = stack[i]) \/ stack'[i] = clear
      BY <1>1, <3>4, LenProperties
    <3>6. QED  BY <1>1, <3>2, <3>3, <3>5 DEF LoopsInv, Loops
  <2>3. QED  BY <2>1, <2>2
<1>8. CASE Return
  <2>1. stack # <<>> /\ stack' = Below /\ events' = events
    BY <1>8 DEF Return, emitterVars
  <2>2. QED  BY <1>1, <2>1, LoopsBelow DEF LoopsInv
<1>9. CASE ThrowOne
  <2>1. stack # <<>> /\ Throw(Below) /\ events' = events
    BY <1>9 DEF ThrowOne, emitterVars
  <2>2. QED
    BY <1>1, <2>1, LoopsBelow, BelowFrames, LoopsThrow DEF LoopsInv
<1>10. CASE MethodStep
  <2>1. CASE CallNext
    <3>1. /\ stack # <<>> /\ Top.op = "emit" /\ Top.rest # <<>>
      BY <2>1 DEF CallNext, Resume
    <3> DEFINE l == Head(Top.rest)
               f == [Top EXCEPT !.rest = Tail(Top.rest)]
               under == Append(Below, f)
    <3>2. /\ Top \in Frames /\ Below \in Seq(Frames) /\ Loops(events, Below)
          /\ Top.type \in Types /\ l \in Listeners
          /\ Tail(Top.rest) \in Seq(Listeners)
      BY <1>1, <3>1, BelowFrames, LoopsBelow, FrameFields, HeadTailProperties
    <3>3. f \in Frames /\ f.op = "emit"
      BY <3>1, <3>2, FrameUpdate DEF Frames
    <3>4. GoodLoop(events, f)
      BY <3>3 DEF GoodLoop
    <3>5. under \in Seq(Frames) /\ Loops(events, under)
      <4> HIDE DEF f
      <4>1. QED  BY <3>2, <3>3, <3>4, LoopsAppend, AppendFrames
    <3>6. \/ Apply(l.fn, under)
          \/ stack' = under /\ UNCHANGED emitterVars
          \/ /\ l.wrapper # NoWrapper
             /\ RemoveListener(Top.type, l,
                  Append(under, [op |-> "once", listener |-> l]))
      BY <2>1 DEF CallNext
    <3> HIDE DEF l, under
    <3>7. CASE Apply(l.fn, under)
      <4>1. l.fn \in AllFunctions  BY <3>2 DEF Listeners
      <4>2. QED  BY <1>1, <3>5, <3>7, <4>1, LoopsApply DEF LoopsInv
    <3>8. CASE stack' = under /\ UNCHANGED emitterVars
      BY <3>5, <3>8 DEF LoopsInv, emitterVars
    <3>9. CASE /\ l.wrapper # NoWrapper
               /\ RemoveListener(Top.type, l,
                    Append(under, [op |-> "once", listener |-> l]))
      <4> DEFINE once == [op |-> "once", listener |-> l]
      <4>1. once \in Frames /\ GoodLoop(events, once)
        BY <3>2, <3>9, FrameOf DEF GoodLoop
      <4> HIDE DEF once
      <4>2. Append(under, once) \in Seq(Frames)
            /\ Loops(events, Append(under, once))
        BY <3>5, <4>1, LoopsAppend, AppendFrames
      <4>3. QED
        BY <1>1, <3>2, <3>9, <4>2, LoopsRemoveOther DEF LoopsInv, once
    <3>10. QED  BY <3>6, <3>7, <3>8, <3>9
  <2>2. CASE Fire
    <3>1. stack # <<>> /\ Top.op = "once" /\ Apply(Top.listener.fn, Below)
      BY <2>2 DEF Fire, Resume
    <3>2. Below \in Seq(Frames) /\ Top.listener.fn \in AllFunctions
      BY <1>1, <3>1, BelowFrames, FrameFields DEF Listeners
    <3>3. QED
      BY <1>1, <3>1, <3>2, LoopsBelow, LoopsApply DEF LoopsInv
  <2>3. CASE EmitDone \/ PromiseMade \/ Settle
    <3>1. stack # <<>> /\ stack' = Below /\ events' = events
      BY <2>3 DEF EmitDone, PromiseMade, Settle, Resume, emitterVars
    <3>2. QED  BY <1>1, <3>1, LoopsBelow DEF LoopsInv
  <2>4. CASE Added
    <3>1. stack # <<>> /\ Top.op = "add"
          /\ Insert(Top.type, Top.listener, Top.prepend, Below)
      BY <2>4 DEF Added, Resume
    <3>2. Below \in Seq(Frames) /\ Top.type \in Types
      BY <1>1, <3>1, BelowFrames, FrameFields
    <3>3. QED
      BY <1>1, <3>1, <3>2, LoopsBelow, LoopsInsert DEF LoopsInv
  <2>5. CASE PromiseSecond
    <3> DEFINE l == Wrapped("errorListener", Top.wrapper)
               second == [op |-> "second"]
    <3>1. stack # <<>> /\ Top.op = "first"
          /\ AddListener("error", l, FALSE, Append(Below, second))
      BY <2>5 DEF PromiseSecond, Resume
    <3>2. Below \in Seq(Frames) /\ l \in Listeners
      BY <1>1, <3>1, BelowFrames, FrameFields, ListenerTypes
    <3>3. second \in Frames /\ GoodLoop(events, second)
      BY FrameOf DEF GoodLoop
    <3> HIDE DEF second, l
    <3>4. Append(Below, second) \in Seq(Frames)
          /\ Loops(events, Append(Below, second))
      BY <1>1, <3>1, <3>2, <3>3, LoopsBelow, LoopsAppend, AppendFrames
    <3>5. QED
      BY <1>1, <3>1, <3>2, <3>4, SpecialTypes, LoopsAddListener DEF LoopsInv
  <2>6. CASE RemoveNext
    BY <2>6, LoopsRemoveNext
  <2>7. CASE ClearNext
    <3>1. stack # <<>> /\ Top.op = "clear"
      BY <2>7 DEF ClearNext, Resume
    <3>2. /\ Top \in Frames /\ Below \in Seq(Frames) /\ Loops(events, Below)
          /\ Top.keys \in Seq(Types)
      BY <1>1, <3>1, BelowFrames, LoopsBelow, FrameFields
    <3>3. CASE Top.keys # <<>>
      <4> DEFINE f == [Top EXCEPT !.keys = Tail(Top.keys)]
      <4>1. RemoveAllOf(Head(Top.keys), Append(Below, f))
        BY <2>7, <3>3 DEF ClearNext
      <4>2. Head(Top.keys) \in Types /\ Tail(Top.keys) \in Seq(Types)
        BY <3>2, <3>3, HeadTailProperties
      <4>3. f \in Frames /\ f.op = "clear"
        BY <3>1, <3>2, <4>2, ClearUpdate
      <4> HIDE DEF f
      <4>4. Append(Below, f) \in Seq(Frames)
            /\ Loops(events, Append(Below, f))
        BY <3>2, <4>3, LoopsAppend, AppendFrames DEF GoodLoop
      <4>5. QED
        BY <1>1, <4>1, <4>2, <4>4, LoopsRemoveAllOf DEF LoopsInv
    <3>4. CASE Top.keys = <<>>
      BY <1>1, <2>7, <3>2, <3>4, LoopsAllGone DEF ClearNext, LoopsInv
    <3>5. QED  BY <3>3, <3>4
  <2>8. QED
    BY <1>10, <2>1, <2>2, <2>3, <2>4, <2>5, <2>6, <2>7 DEF MethodStep
<1>11. CASE UNCHANGED vars
  BY <1>11 DEF LoopsInv, vars
<1>12. QED
  BY <1>2, <1>3, <1>4, <1>5, <1>6, <1>7, <1>8, <1>9, <1>10, <1>11
     DEF Next, ProgramStep, Idle, Types

LEMMA LoopsInvariance == Spec => []LoopsInv
<1>1. Init => LoopsInv
  BY EmptySeq DEF Init, LoopsInv, Loops
<1>2. QED  BY <1>1, LoopsStep, EventsInvariance, PTL DEF Spec

\* removeAllListeners(type) (events/index.js:323), which removes its listeners
\* one by one while listeners of 'removeListener' change the array it
\* iterates, has emptied the list when it returns, unless a listener was added
\* meanwhile.
THEOREM LeavesNone == Spec => []NoneAreLeft
<1>1. EventsInv /\ LoopsInv => NoneAreLeft
  <2> SUFFICES ASSUME EventsInv, LoopsInv, stack # <<>>, Top.op = "remove",
                      Top.next = 0, ~Top.grown
               PROVE  events[Top.type] = <<>>
    BY DEF NoneAreLeft
  <2>1. EmitterInv  BY DEF EventsInv
  <2>2. Top \in Frames /\ GoodLoop(events, Top) /\ Top.type \in Types
    BY <2>1, BelowFrames, LoopsBelow, FrameFields
  <2>3. events[Top.type] \in Seq(Listeners)
    BY <2>1, <2>2 DEF EmitterInv
  <2>4. events[Top.type] # <<>> => Len(events[Top.type]) \in Nat \ {0}
    BY <2>3, EmptySeq
  <2>5. QED  BY <2>2, <2>4 DEF GoodLoop
<1>2. QED  BY <1>1, LoopsInvariance, EventsInvariance, PTL
-----------------------------------------------------------------------------
(* A wrapper is on its way into a list, in one list at one place, held by  *)
(* emissions of that list's type, or being called: it never runs twice.    *)

Adds(f, w) == \/ f.op = "add" /\ f.listener.wrapper = w
              \/ f.op = "first" /\ f.wrapper = w
Holds(f, w) == f.op = "emit" /\ \E m \in DOMAIN f.rest : f.rest[m].wrapper = w
Runs(f, w) == f.op = "once" /\ f.listener.wrapper = w

Listed(evs, w) ==
    \E t \in Types : \E i \in DOMAIN evs[t] : evs[t][i].wrapper = w

ListedOnce(evs, w) ==
    \A t, u \in Types : \A i \in DOMAIN evs[t], j \in DOMAIN evs[u] :
        evs[t][i].wrapper = w /\ evs[u][j].wrapper = w => t = u /\ i = j

AddedAlone(evs, stk, w) ==
    \A k \in DOMAIN stk : Adds(stk[k], w) =>
        /\ ~Listed(evs, w)
        /\ \A j \in DOMAIN stk :
             /\ ~Holds(stk[j], w) /\ ~Runs(stk[j], w)
             /\ Adds(stk[j], w) => j = k

RunInside(evs, stk, w) ==
    \A k \in DOMAIN stk : Runs(stk[k], w) =>
        /\ ~Listed(evs, w)
        /\ \A j \in DOMAIN stk :
             j > k => ~Holds(stk[j], w) /\ ~Runs(stk[j], w)

HeldAsListed(evs, stk, w) ==
    \A k \in DOMAIN stk : stk[k].op = "emit" =>
        \A m \in DOMAIN stk[k].rest : stk[k].rest[m].wrapper = w =>
            \A t \in Types : \A i \in DOMAIN evs[t] :
                evs[t][i].wrapper = w =>
                    t = stk[k].type /\ evs[t][i] = stk[k].rest[m]

Unfired(evs, stk, mk, frd, w) ==
    /\ Listed(evs, w) => w \in mk \ frd
    /\ \A k \in DOMAIN stk :
         /\ Adds(stk[k], w) \/ Runs(stk[k], w) => w \in mk \ frd
         /\ Holds(stk[k], w) => w \in mk

Fate(evs, stk, mk, frd, w) ==
    /\ ListedOnce(evs, w)
    /\ AddedAlone(evs, stk, w) /\ RunInside(evs, stk, w)
    /\ HeldAsListed(evs, stk, w)
    /\ Unfired(evs, stk, mk, frd, w)

OnceInv ==
    /\ fired \subseteq made
    /\ \A w \in Wrappers :
         /\ Fate(events, stack, made, fired, w)
         /\ ran[w] <= 1 /\ (w \notin fired => ran[w] = 0)

\* Nothing has heard of w, which is made.
Fresh(evs, stk, mk, frd, w) ==
    /\ w \in mk \ frd /\ ~Listed(evs, w)
    /\ \A j \in DOMAIN stk :
         ~Holds(stk[j], w) /\ ~Runs(stk[j], w) /\ ~Adds(stk[j], w)

\* Lists that lost listeners.
Embeds(new, old) ==
    \E g \in [DOMAIN new -> DOMAIN old] :
        \A i \in DOMAIN new :
            /\ new[i] = old[g[i]]
            /\ \A j \in DOMAIN new : g[i] = g[j] => i = j

Shrunk(evs2, evs) == \A t \in Types : Embeds(evs2[t], evs[t])

\* A frame that holds no more than another.
NoMore(g, f) ==
    /\ g.op = f.op
    /\ g.op \in {"add", "first", "once"} => g = f
    /\ g.op = "emit" =>
         /\ g.type = f.type
         /\ \A m \in DOMAIN g.rest :
              \E n \in DOMAIN f.rest : g.rest[m] = f.rest[n]

Fewer(stk2, stk) ==
    \A k \in DOMAIN stk2 : k \in DOMAIN stk /\ NoMore(stk2[k], stk[k])

LEMMA NoMoreKinds ==
    ASSUME NEW g, NEW f, NEW w, NoMore(g, f)
    PROVE  /\ Adds(g, w) => Adds(f, w)
           /\ Holds(g, w) => Holds(f, w)
           /\ Runs(g, w) => Runs(f, w)
BY DEF NoMore, Adds, Holds, Runs

LEMMA ShrunkListed ==
    ASSUME NEW evs2, NEW evs, NEW w, Shrunk(evs2, evs)
    PROVE  /\ Listed(evs2, w) => Listed(evs, w)
           /\ ListedOnce(evs, w) => ListedOnce(evs2, w)
<1>1. ASSUME Listed(evs2, w) PROVE Listed(evs, w)
  BY <1>1 DEF Shrunk, Embeds, Listed
<1>2. ASSUME ListedOnce(evs, w),
             NEW t \in Types, NEW u \in Types,
             NEW i \in DOMAIN evs2[t], NEW j \in DOMAIN evs2[u],
             evs2[t][i].wrapper = w, evs2[u][j].wrapper = w
      PROVE  t = u /\ i = j
  <2>1. PICK g \in [DOMAIN evs2[t] -> DOMAIN evs[t]] :
          \A a \in DOMAIN evs2[t] :
            /\ evs2[t][a] = evs[t][g[a]]
            /\ \A b \in DOMAIN evs2[t] : g[a] = g[b] => a = b
    BY DEF Shrunk, Embeds
  <2>2. PICK h \in [DOMAIN evs2[u] -> DOMAIN evs[u]] :
          \A a \in DOMAIN evs2[u] : evs2[u][a] = evs[u][h[a]]
    BY DEF Shrunk, Embeds
  <2>3. t = u /\ g[i] = h[j]
    BY <1>2, <2>1, <2>2 DEF ListedOnce
  <2>4. g[j] \in DOMAIN evs[t] /\ evs[t][g[j]].wrapper = w
    BY <1>2, <2>1, <2>3
  <2>5. g[i] = g[j]
    BY <1>2, <2>1, <2>4 DEF ListedOnce
  <2>6. QED  BY <2>1, <2>3, <2>5
<1>3. QED  BY <1>1, <1>2 DEF ListedOnce

\* Listeners and calls that go away leave the rest of the story as it is.
LEMMA FateFewer ==
    ASSUME NEW evs, NEW evs2, NEW stk, NEW stk2, NEW mk, NEW frd, NEW w,
           Fate(evs, stk, mk, frd, w), Shrunk(evs2, evs), Fewer(stk2, stk)
    PROVE  Fate(evs2, stk2, mk, frd, w)
<1>1. /\ Listed(evs2, w) => Listed(evs, w)
      /\ ListedOnce(evs2, w)
  BY ShrunkListed DEF Fate
<1>2. \A k \in DOMAIN stk2 :
        /\ k \in DOMAIN stk
        /\ Adds(stk2[k], w) => Adds(stk[k], w)
        /\ Holds(stk2[k], w) => Holds(stk[k], w)
        /\ Runs(stk2[k], w) => Runs(stk[k], w)
  BY NoMoreKinds DEF Fewer
<1>3. AddedAlone(evs2, stk2, w)
  BY <1>1, <1>2 DEF Fate, AddedAlone
<1>4. RunInside(evs2, stk2, w)
  BY <1>1, <1>2 DEF Fate, RunInside
<1>5. Unfired(evs2, stk2, mk, frd, w)
  BY <1>1, <1>2 DEF Fate, Unfired
<1>6. HeldAsListed(evs2, stk2, w)
  <2> SUFFICES ASSUME NEW k \in DOMAIN stk2, stk2[k].op = "emit",
                      NEW m \in DOMAIN stk2[k].rest,
                      stk2[k].rest[m].wrapper = w,
                      NEW t \in Types, NEW i \in DOMAIN evs2[t],
                      evs2[t][i].wrapper = w
               PROVE  t = stk2[k].type /\ evs2[t][i] = stk2[k].rest[m]
    BY DEF HeldAsListed
  <2>1. PICK i0 \in DOMAIN evs[t] : evs2[t][i] = evs[t][i0]
    BY DEF Shrunk, Embeds
  <2>2. k \in DOMAIN stk /\ stk[k].op = "emit" /\ stk2[k].type = stk[k].type
    BY DEF Fewer, NoMore
  <2>3. PICK n \in DOMAIN stk[k].rest : stk2[k].rest[m] = stk[k].rest[n]
    BY DEF Fewer, NoMore
  <2>4. QED  BY <2>1, <2>2, <2>3 DEF Fate, HeldAsListed
<1>7. QED  BY <1>1, <1>3, <1>4, <1>5, <1>6 DEF Fate

LEMMA FewerItself ==
    ASSUME NEW stk
    PROVE  Fewer(stk, stk)
BY DEF Fewer, NoMore

LEMMA EmbedsItself ==
    ASSUME NEW list
    PROVE  Embeds(list, list)
<1> DEFINE g == [i \in DOMAIN list |-> i]
<1>1. g \in [DOMAIN list -> DOMAIN list]  OBVIOUS
<1>2. QED  BY <1>1 DEF Embeds

LEMMA EmbedsEmpty ==
    ASSUME NEW list
    PROVE  Embeds(<<>>, list)
<1>1. DOMAIN <<>> = {}  OBVIOUS
<1> DEFINE g == [i \in {} |-> i]
<1>2. g \in [{} -> DOMAIN list]  OBVIOUS
<1>3. QED  BY <1>1, <1>2 DEF Embeds

\* Lists that stay or are emptied.
LEMMA ShrunkEmptied ==
    ASSUME NEW evs2, NEW evs,
           \A t \in Types : evs2[t] = evs[t] \/ evs2[t] = <<>>
    PROVE  Shrunk(evs2, evs)
BY EmbedsItself, EmbedsEmpty DEF Shrunk

\* The frames that removeAllListeners puts aside are of no matter here.
LEMMA FewerMarks ==
    ASSUME NEW under \in Seq(Frames), NEW t, NEW list
    PROVE  /\ Fewer(Detached(under, t, list), under)
           /\ Fewer(AllDetached(under), under)
           /\ Fewer(Grown(under, t), under)
<1>1. ASSUME NEW i \in DOMAIN under, under[i].op = "remove",
             NEW f, f = [under[i] EXCEPT !.grown = TRUE]
                    \/ \E ls : f = [under[i] EXCEPT !.live = FALSE, !.list = ls]
      PROVE  NoMore(f, under[i])
  <2>1. under[i] \in Frames  BY UnderTypes
  <2>2. f.op = "remove"  BY <1>1, <2>1 DEF Frames
  <2>3. QED  BY <1>1, <2>2 DEF NoMore
<1>2. \A i \in DOMAIN under : NoMore(under[i], under[i])
  BY DEF NoMore
<1>3. Fewer(Detached(under, t, list), under)
  BY <1>1, <1>2 DEF Fewer, Detached
<1>4. Fewer(AllDetached(under), under)
  BY <1>1, <1>2 DEF Fewer, AllDetached
<1>5. Fewer(Grown(under, t), under)
  BY <1>1, <1>2 DEF Fewer, Grown
<1>6. QED  BY <1>3, <1>4, <1>5

\* A frame that neither emits nor calls a wrapper is put on the stack.
LEMMA FatePush ==
    ASSUME NEW evs, NEW under \in Seq(Frames), NEW f \in Frames,
           NEW mk, NEW frd, NEW w,
           Fate(evs, under, mk, frd, w), f.op \notin {"once", "emit"},
           Adds(f, w) => Fresh(evs, under, mk, frd, w)
    PROVE  Fate(evs, Append(under, f), mk, frd, w)
<1> DEFINE stk == Append(under, f)
           n == Len(under) + 1
<1>1. /\ DOMAIN under = 1..Len(under) /\ Len(under) \in Nat
      /\ DOMAIN stk = 1..n
      /\ \A i \in DOMAIN under : stk[i] = under[i]
      /\ stk[n] = f
  BY AppendFrames
<1>2. ~Holds(f, w) /\ ~Runs(f, w)
  BY DEF Holds, Runs
<1> HIDE DEF stk
<1>3. \A k \in DOMAIN stk : (k \in DOMAIN under /\ stk[k] = under[k])
                            \/ (k = n /\ stk[k] = f /\ k \notin DOMAIN under)
  BY <1>1
<1> HIDE DEF n
<1>4. AddedAlone(evs, stk, w)
  BY <1>2, <1>3 DEF Fate, AddedAlone, Fresh
<1>5. RunInside(evs, stk, w)
  BY <1>2, <1>3 DEF Fate, RunInside
<1>6. HeldAsListed(evs, stk, w)
  BY <1>3 DEF Fate, HeldAsListed
<1>7. Unfired(evs, stk, mk, frd, w)
  BY <1>2, <1>3 DEF Fate, Unfired, Fresh
<1>8. QED  BY <1>4, <1>5, <1>6, <1>7 DEF Fate, stk

\* onceWrapper is called.
LEMMA FatePushOnce ==
    ASSUME NEW evs, NEW under \in Seq(Frames), NEW f \in Frames,
           NEW mk, NEW frd, NEW w,
           Fate(evs, under, mk, frd, w), f.op = "once",
           Runs(f, w) => /\ w \in mk \ frd /\ ~Listed(evs, w)
                         /\ \A j \in DOMAIN under :
                              ~Adds(under[j], w) /\ ~Runs(under[j], w)
    PROVE  Fate(evs, Append(under, f), mk, frd, w)
<1> DEFINE stk == Append(under, f)
           n == Len(under) + 1
<1>1. /\ DOMAIN under = 1..Len(under) /\ Len(under) \in Nat
      /\ DOMAIN stk = 1..n
      /\ \A i \in DOMAIN under : stk[i] = under[i]
      /\ stk[n] = f
  BY AppendFrames
<1>2. ~Holds(f, w) /\ ~Adds(f, w)
  BY DEF Holds, Adds
<1> HIDE DEF stk
<1>3. \A k \in DOMAIN stk : \/ k \in DOMAIN under /\ stk[k] = under[k]
                            \/ /\ k = n /\ stk[k] = f
                               /\ \A j \in DOMAIN stk : ~(j > k)
  BY <1>1
<1> HIDE DEF n
<1>4. AddedAlone(evs, stk, w)
  BY <1>2, <1>3 DEF Fate, AddedAlone
<1>5. RunInside(evs, stk, w)
  BY <1>2, <1>3 DEF Fate, RunInside
<1>6. HeldAsListed(evs, stk, w)
  BY <1>3 DEF Fate, HeldAsListed
<1>7. Unfired(evs, stk, mk, frd, w)
  BY <1>2, <1>3 DEF Fate, Unfired
<1>8. QED  BY <1>4, <1>5, <1>6, <1>7 DEF Fate, stk

\* emit takes a copy of a list.
LEMMA FateEmitOn ==
    ASSUME NEW evs \in [Types -> Seq(Listeners)], NEW t \in Types,
           NEW under \in Seq(Frames), NEW mk, NEW frd, NEW w,
           Fate(evs, under, mk, frd, w)
    PROVE  Fate(evs, EmitOn(evs, t, under), mk, frd, w)
<1> DEFINE f == [op |-> "emit", type |-> t, rest |-> evs[t]]
           stk == Append(under, f)
           n == Len(under) + 1
<1>1. f \in Frames /\ EmitOn(evs, t, under) \in {under, Append(under, f)}
  BY EmitOnFrames
<1>2. f.op = "emit" /\ f.type = t /\ f.rest = evs[t]
  OBVIOUS
<1> HIDE DEF f
<1>3. /\ DOMAIN under = 1..Len(under) /\ Len(under) \in Nat
      /\ DOMAIN stk = 1..n
      /\ \A i \in DOMAIN under : stk[i] = under[i]
      /\ stk[n] = f
  BY <1>1, AppendFrames
<1>4. ~Adds(f, w) /\ ~Runs(f, w) /\ (Holds(f, w) => Listed(evs, w))
  BY <1>2 DEF Holds, Runs, Adds, Listed
<1> HIDE DEF stk
<1>5. \A k \in DOMAIN stk : (k \in DOMAIN under /\ stk[k] = under[k])
                            \/ stk[k] = f
  BY <1>3
<1> HIDE DEF n
<1>6. AddedAlone(evs, stk, w)
  BY <1>4, <1>5 DEF Fate, AddedAlone
<1>7. RunInside(evs, stk, w)
  BY <1>4, <1>5 DEF Fate, RunInside
<1>8. HeldAsListed(evs, stk, w)
  <2> SUFFICES ASSUME NEW k \in DOMAIN stk, stk[k].op = "emit",
                      NEW m \in DOMAIN stk[k].rest,
                      stk[k].rest[m].wrapper = w,
                      NEW u \in Types, NEW i \in DOMAIN evs[u],
                      evs[u][i].wrapper = w
               PROVE  u = stk[k].type /\ evs[u][i] = stk[k].rest[m]
    BY DEF HeldAsListed
  <2>1. CASE stk[k] = f
    BY <1>2, <2>1 DEF Fate, ListedOnce
  <2>2. CASE k \in DOMAIN under /\ stk[k] = under[k]
    BY <2>2 DEF Fate, HeldAsListed
  <2>3. QED  BY <1>5, <2>1, <2>2
<1>9. Unfired(evs, stk, mk, frd, w)
  BY <1>4, <1>5 DEF Fate, Unfired
<1>10. Fate(evs, stk, mk, frd, w)
  BY <1>6, <1>7, <1>8, <1>9 DEF Fate
<1>11. QED  BY <1>1, <1>10 DEF stk

\* What a list is after a listener was added.
LEMMA Inserted ==
    ASSUME NEW list \in Seq(Listeners), NEW l \in Listeners,
           NEW prepend \in BOOLEAN
    PROVE  LET new == IF prepend THEN <<l>> \o list ELSE Append(list, l)
           IN  /\ new \in Seq(Listeners)
               /\ \E p \in DOMAIN new : \A j \in DOMAIN new :
                    /\ j = p => new[j] = l
                    /\ j # p =>
                         LET i == IF prepend THEN j - 1 ELSE j
                         IN  i \in DOMAIN list /\ new[j] = list[i]
<1>1. DOMAIN list = 1..Len(list) /\ Len(list) \in Nat
  BY LenProperties
<1>2. CASE prepend
  <2>1. <<l>> \in Seq(Listeners) /\ Len(<<l>>) = 1 /\ <<l>>[1] = l
    OBVIOUS
  <2> DEFINE new == <<l>> \o list
  <2>2. /\ new \in Seq(Listeners) /\ Len(new) = 1 + Len(list)
        /\ \A j \in 1..(1 + Len(list)) :
             new[j] = IF j <= 1 THEN <<l>>[j] ELSE list[j - 1]
    BY <2>1, ConcatProperties
  <2>3. DOMAIN new = 1..(1 + Len(list))
    BY <2>2, LenProperties
  <2> HIDE DEF new
  <2>4. /\ 1 \in DOMAIN new
        /\ \A j \in DOMAIN new :
             /\ j = 1 => new[j] = l
             /\ j # 1 => j - 1 \in DOMAIN list /\ new[j] = list[j - 1]
    BY <1>1, <2>1, <2>2, <2>3
  <2>5. QED  BY <1>2, <2>2, <2>4 DEF new
<1>3. CASE ~prepend
  <2> DEFINE new == Append(list, l)
  <2>1. /\ new \in Seq(Listeners) /\ Len(new) = Len(list) + 1
        /\ \A j \in 1..Len(list) : new[j] = list[j]
        /\ new[Len(list) + 1] = l
    BY AppendProperties
  <2>2. DOMAIN new = 1..(Len(list) + 1)
    BY <2>1, LenProperties
  <2> HIDE DEF new
  <2>3. /\ Len(list) + 1 \in DOMAIN new
        /\ \A j \in DOMAIN new :
             /\ j = Len(list) + 1 => new[j] = l
             /\ j # Len(list) + 1 => j \in DOMAIN list /\ new[j] = list[j]
    BY <1>1, <2>1, <2>2
  <2>4. QED  BY <1>3, <2>1, <2>3 DEF new
<1>4. QED  BY <1>2, <1>3

LEMMA FateInsert ==
    ASSUME EmitterInv, NEW t \in Types, NEW l \in Listeners,
           NEW prepend \in BOOLEAN, NEW under \in Seq(Frames),
           Insert(t, l, prepend, under), NEW mk, NEW frd, NEW w,
           Fate(events, under, mk, frd, w),
           l.wrapper = w => Fresh(events, under, mk, frd, w)
    PROVE  Fate(events', stack', mk, frd, w)
<1>1. events \in [Types -> Seq(Listeners)] /\ events[t] \in Seq(Listeners)
  BY DEF EmitterInv
<1> DEFINE new == IF prepend THEN <<l>> \o events[t]
                  ELSE Append(events[t], l)
           from(j) == IF prepend THEN j - 1 ELSE j
<1>2. new \in Seq(Listeners)
  BY <1>1, Inserted
<1>3. PICK p \in DOMAIN new : \A j \in DOMAIN new :
        /\ j = p => new[j] = l
        /\ j # p => from(j) \in DOMAIN events[t] /\ new[j] = events[t][from(j)]
  BY <1>1, Inserted
<1>4. /\ events'[t] = new
      /\ \A u \in Types : u # t => events'[u] = events[u]
  BY <1>1 DEF Insert
<1>5. \A i, j \in DOMAIN new : from(i) = from(j) => i = j
  BY <1>2, LenProperties
<1> HIDE DEF new, from
<1>6. Fate(events, stack', mk, frd, w)
  BY FewerMarks, ShrunkEmptied, FateFewer DEF Insert
<1>7. l.wrapper = w => Fresh(events, stack', mk, frd, w)
  <2>1. Fewer(stack', under)
    BY FewerMarks DEF Insert
  <2>2. QED  BY <2>1, NoMoreKinds DEF Fewer, Fresh
\* Every listener of the new lists is l at p, or an old one.
<1>8. ASSUME NEW u \in Types, NEW i \in DOMAIN events'[u]
      PROVE  \/ u = t /\ i = p /\ events'[u][i] = l
             \/ /\ u = t /\ i # p /\ from(i) \in DOMAIN events[t]
                /\ events'[u][i] = events[t][from(i)]
             \/ /\ u # t /\ i \in DOMAIN events[u]
                /\ events'[u][i] = events[u][i]
  BY <1>3, <1>4
<1>9. CASE l.wrapper = w
  <2>1. ~Listed(events, w)
    BY <1>9 DEF Fresh
  <2>2. \A u \in Types : \A i \in DOMAIN events'[u] :
          events'[u][i].wrapper = w => u = t /\ i = p
    BY <1>8, <2>1 DEF Listed
  <2>3. ListedOnce(events', w)
    BY <2>2 DEF ListedOnce
  <2>4. \A k \in DOMAIN stack' :
          /\ ~Adds(stack'[k], w) /\ ~Runs(stack'[k], w)
          /\ ~Holds(stack'[k], w)
    BY <1>7, <1>9 DEF Fresh
  <2>5. AddedAlone(events', stack', w) /\ RunInside(events', stack', w)
    BY <2>4 DEF AddedAlone, RunInside
  <2>6. HeldAsListed(events', stack', w)
    BY <2>4 DEF HeldAsListed, Holds
  <2>7. Unfired(events', stack', mk, frd, w)
    BY <1>9, <2>4 DEF Unfired, Fresh
  <2>8. QED  BY <2>3, <2>5, <2>6, <2>7 DEF Fate
<1>10. CASE l.wrapper # w
  <2>1. ASSUME NEW u \in Types, NEW i \in DOMAIN events'[u],
               events'[u][i].wrapper = w
        PROVE  \E j \in DOMAIN events[u] : /\ events'[u][i] = events[u][j]
                                           /\ u # t => j = i
                                           /\ u = t => j = from(i)
    BY <1>8, <1>10, <2>1
  <2>2. Listed(events', w) => Listed(events, w)
    BY <2>1 DEF Listed
  <2>3. ListedOnce(events', w)
    <3> SUFFICES ASSUME NEW u \in Types, NEW v \in Types,
                        NEW i \in DOMAIN events'[u],
                        NEW j \in DOMAIN events'[v],
                        events'[u][i].wrapper = w, events'[v][j].wrapper = w
                 PROVE  u = v /\ i = j
      BY DEF ListedOnce
    <3>1. PICK a \in DOMAIN events[u] : /\ events'[u][i] = events[u][a]
                                        /\ u # t => a = i
                                        /\ u = t => a = from(i)
      BY <2>1
    <3>2. PICK b \in DOMAIN events[v] : /\ events'[v][j] = events[v][b]
                                        /\ v # t => b = j
                                        /\ v = t => b = from(j)
      BY <2>1
    <3>3. u = v /\ a = b
      BY <3>1, <3>2 DEF Fate, ListedOnce
    <3>4. QED  BY <1>4, <1>5, <3>1, <3>2, <3>3
  <2>4. AddedAlone(events', stack', w) /\ RunInside(events', stack', w)
    BY <1>6, <2>2 DEF Fate, AddedAlone, RunInside
  <2>5. HeldAsListed(events', stack', w)
    BY <1>6, <2>1 DEF Fate, HeldAsListed
  <2>6. Unfired(events', stack', mk, frd, w)
    BY <1>6, <2>2 DEF Fate, Unfired
  <2>7. QED  BY <2>3, <2>4, <2>5, <2>6 DEF Fate
<1>11. QED  BY <1>9, <1>10

LEMMA FateAddListener ==
    ASSUME EmitterInv, NEW t \in Types, NEW l \in Listeners,
           NEW prepend \in BOOLEAN, NEW under \in Seq(Frames),
           AddListener(t, l, prepend, under), NEW mk, NEW frd, NEW w,
           Fate(events, under, mk, frd, w),
           l.wrapper = w => Fresh(events, under, mk, frd, w)
    PROVE  Fate(events', stack', mk, frd, w)
<1>1. CASE events["newListener"] = <<>>
  BY <1>1, FateInsert DEF AddListener
<1>2. CASE events["newListener"] # <<>>
  <2> DEFINE f == [op |-> "add", type |-> t, listener |-> l,
                   prepend |-> prepend]
  <2>1. events' = events
        /\ stack' = EmitOn(events, "newListener", Append(under, f))
    BY <1>2 DEF AddListener, emitterVars
  <2>2. f \in Frames /\ f.op = "add" /\ f.listener = l
    BY FrameOf
  <2> HIDE DEF f
  <2>3. Adds(f, w) => Fresh(events, under, mk, frd, w)
    BY <2>2 DEF Adds
  <2>4. Fate(events, Append(under, f), mk, frd, w)
        /\ Append(under, f) \in Seq(Frames)
    BY <2>2, <2>3, FatePush, AppendFrames
  <2>5. QED
    BY <2>1, <2>4, FateEmitOn, SpecialTypes DEF EmitterInv
<1>3. QED  BY <1>1, <1>2

\* The lists after a removal, and the stack from a story told with them.
LEMMA FateRemoval ==
    ASSUME EmitterInv, NEW t \in Types, NEW l, NEW under \in Seq(Frames),
           RemoveListener(t, l, under),
           \E i \in DOMAIN events[t] : Matches(events[t][i], l)
    PROVE  /\ Shrunk(events', events)
           /\ \A mk, frd, w : Fate(events', under, mk, frd, w)
                                => Fate(events', stack', mk, frd, w)
<1> DEFINE left == events'[t]
           below == IF Len(left) = 1 THEN Detached(under, t, left) ELSE under
<1>1. /\ events' \in [Types -> Seq(Listeners)]
      /\ \A u \in Types : u # t => events'[u] = events[u]
      /\ DOMAIN events[t] = 1..Len(events[t])
      /\ DOMAIN left = 1..Len(left)
      /\ stack' = EmitOn(events', "removeListener", below)
  BY Removal
<1>2. PICK last \in DOMAIN events[t] :
        \A j \in DOMAIN left :
          LET i == IF j < last THEN j ELSE j + 1
          IN  i \in DOMAIN events[t] /\ left[j] = events[t][i]
  BY Removal
<1>3. Shrunk(events', events)
  <2>1. Embeds(left, events[t])
    <3> DEFINE g == [j \in DOMAIN left |-> IF j < last THEN j ELSE j + 1]
    <3>1. g \in [DOMAIN left -> DOMAIN events[t]]
      BY <1>2
    <3>2. \A i \in DOMAIN left : left[i] = events[t][g[i]]
      BY <1>2
    <3>3. \A i, j \in DOMAIN left : g[i] = g[j] => i = j
      <4>1. \A i, j \in Int :
              (IF i < last THEN i ELSE i + 1) = (IF j < last THEN j ELSE j + 1)
                => i = j
        BY <1>1
      <4>2. QED  BY <1>1, <4>1
    <3> HIDE DEF g
    <3>4. QED  BY <3>1, <3>2, <3>3 DEF Embeds
  <2>2. QED  BY <1>1, <2>1, EmbedsItself DEF Shrunk
<1>4. left \in Seq(Listeners)  BY <1>1
<1>5. below \in Seq(Frames) /\ Fewer(below, under)
  BY <1>4, DetachedType, FewerMarks, FewerItself
<1> HIDE DEF below
<1>6. ASSUME NEW mk, NEW frd, NEW w, Fate(events', under, mk, frd, w)
      PROVE  Fate(events', stack', mk, frd, w)
  <2>1. Fate(events', below, mk, frd, w)
    BY <1>5, <1>6, ShrunkEmptied, FateFewer
  <2>2. QED  BY <1>1, <1>5, <2>1, FateEmitOn, SpecialTypes
<1>7. QED  BY <1>3, <1>6

LEMMA FateRemoveListener ==
    ASSUME EmitterInv, NEW t \in Types, NEW l, NEW under \in Seq(Frames),
           RemoveListener(t, l, under), NEW mk, NEW frd, NEW w,
           Fate(events, under, mk, frd, w)
    PROVE  Fate(events', stack', mk, frd, w)
<1>1. CASE ~\E i \in DOMAIN events[t] : Matches(events[t][i], l)
  BY <1>1, NoRemoval DEF emitterVars
<1>2. CASE \E i \in DOMAIN events[t] : Matches(events[t][i], l)
  <2>1. Shrunk(events', events)
    BY <1>2, FateRemoval
  <2>2. Fate(events', under, mk, frd, w)
    BY <2>1, FewerItself, FateFewer
  <2>3. QED  BY <1>2, <2>2, FateRemoval
<1>3. QED  BY <1>1, <1>2

LEMMA FateRemoveAllOf ==
    ASSUME EmitterInv, NEW t \in Types, NEW under \in Seq(Frames),
           RemoveAllOf(t, under), NEW mk, NEW frd, NEW w,
           Fate(events, under, mk, frd, w)
    PROVE  Fate(events', stack', mk, frd, w)
<1>1. events \in [Types -> Seq(Listeners)] /\ events[t] \in Seq(Listeners)
  BY DEF EmitterInv
<1>2. CASE events["removeListener"] = <<>>
  <2>1. Shrunk(events', events)
    <3>1. \A u \in Types : events'[u] = events[u] \/ events'[u] = <<>>
      BY <1>1, <1>2 DEF RemoveAllOf
    <3>2. QED  BY <3>1, ShrunkEmptied
  <2>2. Fewer(stack', under)
    BY <1>2, FewerMarks DEF RemoveAllOf
  <2>3. QED  BY <2>1, <2>2, FateFewer
<1>3. CASE events["removeListener"] # <<>>
  <2> DEFINE f == [op |-> "remove", type |-> t, next |-> Len(events[t]),
                   live |-> Len(events[t]) > 1,
                   list |-> events[t], grown |-> FALSE]
  <2>1. events' = events
        /\ stack' = IF events[t] = <<>> THEN under ELSE Append(under, f)
    BY <1>3 DEF RemoveAllOf, emitterVars
  <2>2. f \in Frames /\ f.op = "remove"
    <3>1. Len(events[t]) \in Nat /\ (Len(events[t]) > 1) \in BOOLEAN
      BY <1>1, LenProperties
    <3>2. QED  BY <1>1, <3>1, FrameOf
  <2> HIDE DEF f
  <2>3. Fate(events, Append(under, f), mk, frd, w)
    BY <2>2, FatePush DEF Adds
  <2>4. QED  BY <2>1, <2>3
<1>4. QED  BY <1>2, <1>3

LEMMA FateApply ==
    ASSUME EmitterInv, NEW f \in AllFunctions, NEW under \in Seq(Frames),
           Apply(f, under), promise.name \in Types, NEW mk, NEW frd, NEW w,
           Fate(events, under, mk, frd, w)
    PROVE  Fate(events', stack', mk, frd, w)
<1> DEFINE settle == [op |-> "settle"]
<1>1. Js \in Frames /\ Js.op = "js" /\ settle \in Frames
      /\ settle.op = "settle"
  BY FrameOf DEF Js
<1> HIDE DEF settle
<1>2. /\ Fate(events, Append(under, Js), mk, frd, w)
      /\ Fate(events, Append(under, settle), mk, frd, w)
      /\ Append(under, settle) \in Seq(Frames)
  BY <1>1, FatePush, AppendFrames DEF Adds
<1>3. CASE stack' = Append(under, Js) /\ UNCHANGED emitterVars
  BY <1>2, <1>3 DEF emitterVars
<1>4. CASE RemoveListener("error", Plain("errorListener"),
                          Append(under, settle))
  BY <1>2, <1>4, SpecialTypes, FateRemoveListener
<1>5. CASE RemoveListener(promise.name, Plain("resolver"),
                          Append(under, settle))
  BY <1>2, <1>5, FateRemoveListener
<1>6. QED  BY <1>3, <1>4, <1>5 DEF Apply, settle

\* What removeAllListeners() goes through.
LEMMA ClearKeys ==
    ASSUME NEW keys \in SetToSeqs({s \in Types : events[s] # <<>>}
                                    \ {"removeListener"})
    PROVE  Append(keys, "removeListener") \in Seq(Types)
<1> DEFINE S == {s \in Types : events[s] # <<>>} \ {"removeListener"}
           n == Cardinality(S)
<1>1. n \in Nat
  BY TypesFinite, FS_Subset, FS_CardinalityType
<1>2. keys \in [1..n -> S]
  BY DEF SetToSeqs
<1>3. keys \in [1..n -> Types]
  BY <1>2
<1> HIDE DEF n
<1>4. keys \in Seq(Types)
  BY <1>1, <1>3 DEF Seq
<1>5. QED  BY <1>4, SpecialTypes, AppendProperties

LEMMA FateBelow ==
    ASSUME EmitterInv, stack # <<>>, NEW mk, NEW frd, NEW w,
           Fate(events, stack, mk, frd, w)
    PROVE  Fate(events, Below, mk, frd, w)
<1>1. Fewer(Below, stack)
  BY BelowFrames DEF Fewer, NoMore
<1>2. QED  BY <1>1, ShrunkEmptied, FateFewer

LEMMA FateThrow ==
    ASSUME NEW under \in Seq(Frames), Throw(under), events' = events,
           NEW mk, NEW frd, NEW w, Fate(events, under, mk, frd, w)
    PROVE  Fate(events', stack', mk, frd, w)
<1>1. Fewer(stack', under)
  BY ThrownFrames DEF Fewer, NoMore
<1>2. QED  BY <1>1, ShrunkEmptied, FateFewer

\* A wrapper is made.
LEMMA FateMade ==
    ASSUME NEW evs, NEW stk, NEW mk, NEW mk2, NEW frd, NEW w,
           Fate(evs, stk, mk, frd, w), mk \subseteq mk2, frd \subseteq mk
    PROVE  /\ Fate(evs, stk, mk2, frd, w)
           /\ w \in mk2 \ mk => Fresh(evs, stk, mk2, frd, w)
<1>1. Fate(evs, stk, mk2, frd, w)
  BY DEF Fate, Unfired
<1>2. w \in mk2 \ mk => Fresh(evs, stk, mk2, frd, w)
  BY DEF Fate, Unfired, Fresh
<1>3. QED  BY <1>1, <1>2

\* The history of the wrappers stays.
LEMMA OnceKept ==
    ASSUME OnceInv, fired' = fired, ran' = ran, made \subseteq made',
           \A w \in Wrappers : Fate(events', stack', made', fired, w)
    PROVE  OnceInv'
BY DEF OnceInv

LEMMA OnceAdding ==
    ASSUME EventsInv, OnceInv,
           NEW t \in Types, NEW f \in Functions, NEW prepend \in BOOLEAN,
           On(t, f, prepend) \/ \E w \in Wrappers : Once(t, f, w, prepend)
    PROVE  OnceInv'
<1>1. EmitterInv /\ stack \in Seq(Frames) /\ fired \subseteq made
  BY DEF EventsInv, EmitterInv, OnceInv
<1>2. CASE On(t, f, prepend)
  <2>1. /\ AddListener(t, Plain(f), prepend, stack) /\ Plain(f) \in Listeners
        /\ Plain(f).wrapper = NoWrapper
        /\ UNCHANGED <<made, fired, ran>>
    BY <1>2, ListenerTypes DEF On, onceVars, Plain
  <2>2. \A w \in Wrappers : Plain(f).wrapper # w
    BY <2>1, WrappersAssumption
  <2>3. \A w \in Wrappers : Fate(events', stack', made', fired, w)
    BY <1>1, <2>1, <2>2, FateAddListener DEF OnceInv
  <2>4. QED  BY <2>1, <2>3, OnceKept
<1>3. ASSUME NEW v \in Wrappers, Once(t, f, v, prepend)
      PROVE  OnceInv'
  <2>1. /\ AddListener(t, Wrapped(f, v), prepend, stack)
        /\ Wrapped(f, v) \in Listeners /\ Wrapped(f, v).wrapper = v
        /\ v \notin made /\ made' = made \cup {v} /\ UNCHANGED <<fired, ran>>
    BY <1>3, ListenerTypes DEF Once, Wrapped
  <2>2. ASSUME NEW w \in Wrappers
        PROVE  Fate(events', stack', made', fired, w)
    <3>1. /\ Fate(events, stack, made', fired, w)
          /\ w = v => Fresh(events, stack, made', fired, w)
      BY <1>1, <2>1, FateMade DEF OnceInv
    <3>2. QED  BY <1>1, <2>1, <3>1, FateAddListener
  <2>3. QED  BY <2>1, <2>2, OnceKept
<1>4. QED  BY <1>2, <1>3

LEMMA OncePromise ==
    ASSUME EventsInv, OnceInv, NEW t \in Types, NEW v \in Wrappers,
           NEW e \in Wrappers, PromiseOnce(t, v, e)
    PROVE  OnceInv'
<1> DEFINE first == [op |-> "first", wrapper |-> e]
           l == Wrapped("resolver", v)
<1>1. EmitterInv /\ stack \in Seq(Frames) /\ fired \subseteq made
  BY DEF EventsInv, EmitterInv, OnceInv
<1>2. /\ AddListener(t, l, FALSE, Append(stack, first))
      /\ v # e /\ v \notin made /\ e \notin made /\ made' = made \cup {v, e}
      /\ UNCHANGED <<fired, ran>>
  BY DEF PromiseOnce
<1>3. /\ first \in Frames /\ first.op = "first" /\ first.wrapper = e
      /\ l \in Listeners /\ l.wrapper = v
  BY FrameOf, ListenerTypes DEF Wrapped
<1> HIDE DEF first, l
<1>4. ASSUME NEW w \in Wrappers
      PROVE  Fate(events', stack', made', fired, w)
  <2>1. /\ Fate(events, stack, made', fired, w)
        /\ w \in {v, e} => Fresh(events, stack, made', fired, w)
    BY <1>1, <1>2, FateMade DEF OnceInv
  <2>2. /\ Append(stack, first) \in Seq(Frames)
        /\ Fate(events, Append(stack, first), made', fired, w)
    BY <1>1, <1>3, <2>1, FatePush, AppendFrames DEF Adds
  <2>3. w = v => Fresh(events, Append(stack, first), made', fired, w)
    <3> SUFFICES ASSUME w = v
                 PROVE  Fresh(events, Append(stack, first), made', fired, w)
      OBVIOUS
    <3>1. ~Adds(first, w) /\ ~Holds(first, w) /\ ~Runs(first, w)
      BY <1>2, <1>3 DEF Adds, Holds, Runs
    <3>2. \A j \in DOMAIN Append(stack, first) :
            (j \in DOMAIN stack /\ Append(stack, first)[j] = stack[j])
              \/ Append(stack, first)[j] = first
      BY <1>1, <1>3, AppendFrames
    <3>3. QED  BY <2>1, <3>1, <3>2 DEF Fresh
  <2>4. QED  BY <1>1, <1>2, <1>3, <2>2, <2>3, FateAddListener
<1>5. QED  BY <1>2, <1>4, OnceKept

\* The steps that start nothing of a wrapper.
LEMMA OnceQuiet ==
    ASSUME EventsInv, OnceInv,
           \/ \E t \in Types, f \in Functions : Off(t, f)
           \/ \E t \in Types : RemoveAllListeners(t)
           \/ \E t \in Types : Emit(t)
           \/ RemoveEverything \/ Return \/ ThrowOne
           \/ EmitDone \/ PromiseMade \/ Settle
           \/ RemoveNext \/ ClearNext
    PROVE  OnceInv'
<1>1. EmitterInv /\ stack \in Seq(Frames)
      /\ events \in [Types -> Seq(Listeners)]
  BY DEF EventsInv, EmitterInv
<1>2. UNCHANGED <<made, fired, ran>>
  BY DEF Off, RemoveAllListeners, Emit, RemoveEverything, Return, ThrowOne,
         EmitDone, PromiseMade, Settle, RemoveNext, ClearNext, onceVars, wrapperVars
<1> SUFFICES ASSUME NEW w \in Wrappers
             PROVE  Fate(events', stack', made, fired, w)
  BY <1>2, OnceKept
<1>3. Fate(events, stack, made, fired, w)
  BY DEF OnceInv
<1>4. stack # <<>> => /\ Below \in Seq(Frames) /\ Top \in Frames
                      /\ Fate(events, Below, made, fired, w)
  BY <1>1, <1>3, BelowFrames, FateBelow
<1>5. ASSUME NEW t \in Types, NEW f \in Functions, Off(t, f)
      PROVE  Fate(events', stack', made, fired, w)
  BY <1>1, <1>3, <1>5, FateRemoveListener DEF Off
<1>6. ASSUME NEW t \in Types, RemoveAllListeners(t)
      PROVE  Fate(events', stack', made, fired, w)
  BY <1>1, <1>3, <1>6, FateRemoveAllOf DEF RemoveAllListeners
<1>7. ASSUME NEW t \in Types, Emit(t)
      PROVE  Fate(events', stack', made, fired, w)
  <2>1. events' = events /\ (Throw(stack) \/ stack' = EmitOn(events, t, stack))
    BY <1>7 DEF Emit, emitterVars
  <2>2. CASE Throw(stack)
    BY <1>1, <1>3, <2>1, <2>2, FateThrow
  <2>3. CASE stack' = EmitOn(events, t, stack)
    BY <1>1, <1>3, <2>1, <2>3, FateEmitOn
  <2>4. QED  BY <2>1, <2>2, <2>3
<1>8. ASSUME events' = NoEvents, NEW under \in Seq(Frames),
             stack' = AllDetached(under), Fate(events, under, made, fired, w)
      PROVE  Fate(events', stack', made, fired, w)
  <2>1. Shrunk(events', events)
    <3>1. \A u \in Types : events'[u] = <<>>  BY <1>8 DEF NoEvents
    <3>2. QED  BY <3>1, ShrunkEmptied
  <2>2. Fewer(stack', under)  BY <1>8, FewerMarks
  <2>3. QED  BY <1>8, <2>1, <2>2, FateFewer
<1>9. CASE RemoveEverything
  <2>1. CASE events["removeListener"] = <<>>
    BY <1>1, <1>3, <1>8, <1>9, <2>1 DEF RemoveEverything
  <2>2. CASE events["removeListener"] # <<>>
    <3> DEFINE S == {s \in Types : events[s] # <<>>} \ {"removeListener"}
    <3>1. PICK keys \in SetToSeqs(S) :
            stack' = Append(stack, [op |-> "clear",
                              keys |-> Append(keys, "removeListener")])
      BY <1>9, <2>2 DEF RemoveEverything
    <3>2. events' = events
      BY <1>9, <2>2 DEF RemoveEverything, emitterVars
    <3> DEFINE f == [op |-> "clear", keys |-> Append(keys, "removeListener")]
    <3>3. Append(keys, "removeListener") \in Seq(Types)
      BY <1>1, <3>1, ClearKeys
    <3>4. f \in Frames /\ f.op = "clear"
      BY <3>3, FrameOf
    <3>5. stack' = Append(stack, f)  BY <3>1
    <3> HIDE DEF f
    <3>6. QED  BY <1>1, <1>3, <3>2, <3>4, <3>5, FatePush DEF Adds
  <2>3. QED  BY <2>1, <2>2
<1>10. CASE Return \/ EmitDone \/ PromiseMade \/ Settle
  <2>1. stack # <<>> /\ stack' = Below /\ events' = events
    BY <1>10 DEF Return, EmitDone, PromiseMade, Settle, Resume, emitterVars
  <2>2. QED  BY <1>4, <2>1
<1>11. CASE ThrowOne
  <2>1. stack # <<>> /\ Throw(Below) /\ events' = events
    BY <1>11 DEF ThrowOne, emitterVars
  <2>2. QED  BY <1>4, <2>1, FateThrow
<1>12. CASE RemoveNext
  <2> DEFINE array == IF Top.live THEN events[Top.type] ELSE Top.list
             f == [Top EXCEPT !.next = Top.next - 1]
  <2>1. stack # <<>> /\ Top.op = "remove"
    BY <1>12 DEF RemoveNext, Resume
  <2>2. /\ Top.type \in Types /\ Top.next \in Nat
        /\ Top.list \in Seq(Listeners)
    BY <1>4, <2>1, FrameFields
  <2>3. CASE stack' = Below /\ UNCHANGED emitterVars
    BY <1>4, <2>1, <2>3 DEF emitterVars
  <2>4. CASE Throw(Below) /\ UNCHANGED emitterVars
    BY <1>4, <2>1, <2>4, FateThrow DEF emitterVars
  <2>5. CASE /\ Top.next \in DOMAIN array
             /\ RemoveListener(Top.type, array[Top.next], Append(Below, f))
    <3>1. array \in Seq(Listeners)
      BY <1>1, <2>2
    <3>2. Top.next - 1 \in Nat
      BY <2>5, <3>1, LenProperties
    <3>3. f \in Frames /\ f.op = "remove"
      BY <1>4, <2>1, <3>2, NextUpdate
    <3> DEFINE l == array[Top.next]
    <3>4. RemoveListener(Top.type, l, Append(Below, f))
      BY <2>5
    <3> HIDE DEF f, array, l
    <3>5. Append(Below, f) \in Seq(Frames)
          /\ Fate(events, Append(Below, f), made, fired, w)
      BY <1>4, <2>1, <3>3, FatePush, AppendFrames DEF Adds
    <3>6. QED  BY <1>1, <2>2, <3>4, <3>5, FateRemoveListener
  <2>6. QED  BY <1>1, <1>12, <2>3, <2>4, <2>5, RemoveNextCases
<1>13. CASE ClearNext
  <2>1. stack # <<>> /\ Top.op = "clear"
    BY <1>13 DEF ClearNext, Resume
  <2>2. Top.keys \in Seq(Types)
    BY <1>4, <2>1, FrameFields
  <2>3. CASE Top.keys # <<>>
    <3> DEFINE f == [Top EXCEPT !.keys = Tail(Top.keys)]
    <3>1. RemoveAllOf(Head(Top.keys), Append(Below, f))
      BY <1>13, <2>3 DEF ClearNext
    <3>2. Head(Top.keys) \in Types /\ Tail(Top.keys) \in Seq(Types)
      BY <2>2, <2>3, HeadTailProperties
    <3>3. f \in Frames /\ f.op = "clear"
      BY <1>4, <2>1, <3>2, ClearUpdate
    <3> HIDE DEF f
    <3>4. Append(Below, f) \in Seq(Frames)
          /\ Fate(events, Append(Below, f), made, fired, w)
      BY <1>4, <2>1, <3>3, FatePush, AppendFrames DEF Adds
    <3>5. QED  BY <1>1, <3>1, <3>2, <3>4, FateRemoveAllOf
  <2>4. CASE Top.keys = <<>>
    BY <1>4, <1>8, <1>13, <2>1, <2>4 DEF ClearNext
  <2>5. QED  BY <2>3, <2>4
<1>14. QED
  BY <1>5, <1>6, <1>7, <1>9, <1>10, <1>11, <1>12, <1>13

\* emit goes on: the frame it leaves, and what it calls.
LEMMA EmitGoesOn ==
    ASSUME EmitterInv, stack # <<>>, Top.op = "emit", Top.rest # <<>>
    PROVE  LET f == [Top EXCEPT !.rest = Tail(Top.rest)]
           IN  /\ Top \in Frames /\ Top.type \in Types
               /\ Top.rest \in Seq(Listeners)
               /\ 1 \in DOMAIN Top.rest /\ Head(Top.rest) = Top.rest[1]
               /\ Head(Top.rest) \in Listeners
               /\ f \in Frames /\ f.op = "emit" /\ f.type = Top.type
               /\ f.rest = Tail(Top.rest) /\ NoMore(f, Top)
               /\ Append(Below, f) \in Seq(Frames)
               /\ Fewer(Append(Below, f), stack)
               /\ DOMAIN Append(Below, f) = DOMAIN stack
<1> DEFINE f == [Top EXCEPT !.rest = Tail(Top.rest)]
<1>1. /\ Top \in Frames /\ Below \in Seq(Frames)
      /\ Top.type \in Types /\ Top.rest \in Seq(Listeners)
      /\ Len(stack) \in Nat \ {0} /\ DOMAIN stack = 1..Len(stack)
      /\ Top = stack[Len(stack)] /\ Len(Below) = Len(stack) - 1
      /\ \A i \in DOMAIN Below :
           i \in DOMAIN stack /\ i # Len(stack) /\ Below[i] = stack[i]
  BY BelowFrames, FrameFields
<1>2. /\ Len(Top.rest) \in Nat \ {0} /\ DOMAIN Top.rest = 1..Len(Top.rest)
      /\ Head(Top.rest) = Top.rest[1] /\ Head(Top.rest) \in Listeners
      /\ Tail(Top.rest) \in Seq(Listeners)
      /\ Len(Tail(Top.rest)) = Len(Top.rest) - 1
      /\ \A i \in 1..Len(Tail(Top.rest)) : Tail(Top.rest)[i] = Top.rest[i + 1]
  BY <1>1, EmptySeq, LenProperties, HeadTailProperties
<1>3. DOMAIN Tail(Top.rest) = 1..(Len(Top.rest) - 1)
  BY <1>2, LenProperties
<1>4. f \in Frames
  BY <1>1, <1>2, FrameUpdate
<1>5. f.op = "emit" /\ f.type = Top.type /\ f.rest = Tail(Top.rest)
  BY <1>1 DEF Frames
<1> HIDE DEF f
<1>6. NoMore(f, Top)
  <2>1. \A m \in DOMAIN Tail(Top.rest) : m + 1 \in DOMAIN Top.rest
          /\ Tail(Top.rest)[m] = Top.rest[m + 1]
    BY <1>2, <1>3
  <2>2. QED  BY <1>5, <2>1 DEF NoMore
<1>7. \E n \in Nat \ {0} :
        /\ DOMAIN stack = 1..n /\ DOMAIN Below = 1..(n - 1)
        /\ Top = stack[n]
        /\ Append(Below, f) \in Seq(Frames) /\ DOMAIN Append(Below, f) = 1..n
        /\ \A i \in DOMAIN Below : Append(Below, f)[i] = Below[i]
        /\ Append(Below, f)[n] = f
  <2>1. /\ Append(Below, f) \in Seq(Frames)
        /\ DOMAIN Below = 1..Len(Below) /\ Len(Below) \in Nat
        /\ DOMAIN Append(Below, f) = 1..(Len(Below) + 1)
        /\ \A i \in DOMAIN Below : Append(Below, f)[i] = Below[i]
        /\ Append(Below, f)[Len(Below) + 1] = f
    BY <1>1, <1>4, AppendFrames
  <2>2. Len(Below) + 1 = Len(stack)  BY <1>1
  <2>3. QED  BY <1>1, <2>1, <2>2
<1>8. Fewer(Append(Below, f), stack) /\ DOMAIN Append(Below, f) = DOMAIN stack
  <2>1. PICK n \in Nat \ {0} :
          /\ DOMAIN stack = 1..n /\ DOMAIN Below = 1..(n - 1)
          /\ Top = stack[n] /\ DOMAIN Append(Below, f) = 1..n
          /\ \A i \in DOMAIN Below : Append(Below, f)[i] = Below[i]
          /\ Append(Below, f)[n] = f
    BY <1>7
  <2>2. \A i \in 1..n : i \in 1..(n - 1) \/ i = n
    OBVIOUS
  <2>3. \A i \in 1..n : NoMore(Append(Below, f)[i], stack[i])
    <3>1. \A i \in 1..(n - 1) : Append(Below, f)[i] = stack[i]
      BY <1>1, <2>1
    <3>2. NoMore(Append(Below, f)[n], stack[n])
      BY <1>6, <2>1
    <3>3. \A i \in 1..(n - 1) : NoMore(Append(Below, f)[i], stack[i])
      BY <3>1 DEF NoMore
    <3>4. QED  BY <2>2, <3>2, <3>3
  <2>4. QED  BY <2>1, <2>3 DEF Fewer
<1>9. 1 \in DOMAIN Top.rest  BY <1>2
<1>10. QED
  BY <1>1, <1>2, <1>4, <1>5, <1>6, <1>7, <1>8, <1>9 DEF f

\* The wrapper that emit comes to is in no list once it has removed itself.
LEMMA RemovesItself ==
    ASSUME EmitterInv, OnceInv, NEW t \in Types, NEW l \in Listeners,
           NEW under \in Seq(Frames), RemoveListener(t, l, under),
           l.wrapper \in Wrappers,
           NEW k \in DOMAIN stack, stack[k].op = "emit", stack[k].type = t,
           NEW m \in DOMAIN stack[k].rest, stack[k].rest[m] = l
    PROVE  ~Listed(events', l.wrapper) /\ Shrunk(events', events)
<1> DEFINE w == l.wrapper
<1>1. HeldAsListed(events, stack, w) /\ ListedOnce(events, w)
  BY DEF OnceInv, Fate
<1>2. ASSUME NEW u \in Types, NEW i \in DOMAIN events[u],
             events[u][i].wrapper = w
      PROVE  u = t /\ events[u][i] = l
  BY <1>1, <1>2 DEF HeldAsListed
<1>3. CASE ~\E i \in DOMAIN events[t] : Matches(events[t][i], l)
  <2>1. events' = events
    BY <1>3, NoRemoval DEF emitterVars
  <2>2. ~Listed(events, w)
    BY <1>2, <1>3 DEF Listed, Matches
  <2>3. QED  BY <2>1, <2>2, ShrunkEmptied
<1>4. CASE \E i \in DOMAIN events[t] : Matches(events[t][i], l)
  <2>1. Shrunk(events', events)
    BY <1>4, FateRemoval
  <2>2. PICK last \in DOMAIN events[t] :
          /\ IsLastMatch(last, events[t], l)
          /\ \A j \in DOMAIN events'[t] :
               LET i == IF j < last THEN j ELSE j + 1
               IN  i \in DOMAIN events[t] /\ i # last
                   /\ events'[t][j] = events[t][i]
    BY <1>4, Removal
  <2>3. events[t][last] = l
    <3>1. Plain(events[t][last].fn) # l
      BY WrappersAssumption DEF Plain
    <3>2. QED  BY <2>2, <3>1 DEF IsLastMatch, Matches
  <2>4. \A j \in DOMAIN events'[t] : events'[t][j].wrapper # w
    BY <1>1, <2>2, <2>3 DEF ListedOnce
  <2>5. \A u \in Types : u # t => events'[u] = events[u]
    BY <1>4, Removal
  <2>6. ~Listed(events', w)
    BY <1>2, <2>4, <2>5 DEF Listed
  <2>7. QED  BY <2>1, <2>6
<1>5. QED  BY <1>3, <1>4

LEMMA OnceCallNext ==
    ASSUME EventsInv, OnceInv, CallNext
    PROVE  OnceInv'
<1> DEFINE f == [Top EXCEPT !.rest = Tail(Top.rest)]
           l == Head(Top.rest)
           under == Append(Below, f)
<1>1. EmitterInv /\ stack \in Seq(Frames) /\ promise.name \in Types
  BY DEF EventsInv, EmitterInv, OtherTypes, Promises
<1>2. /\ stack # <<>> /\ Top.op = "emit" /\ Top.rest # <<>>
      /\ UNCHANGED <<made, fired, ran>>
  BY DEF CallNext, Resume, onceVars
<1>3. \/ Apply(l.fn, under)
      \/ stack' = under /\ events' = events
      \/ /\ l.wrapper # NoWrapper /\ l.wrapper \notin fired
         /\ RemoveListener(Top.type, l,
              Append(under, [op |-> "once", listener |-> l]))
  BY DEF CallNext, emitterVars
<1>4. /\ Top.type \in Types /\ l \in Listeners /\ l = Top.rest[1]
      /\ 1 \in DOMAIN Top.rest
      /\ under \in Seq(Frames) /\ Fewer(under, stack)
      /\ DOMAIN under = DOMAIN stack
  BY <1>1, <1>2, EmitGoesOn
<1> HIDE DEF l, under, f
<1> SUFFICES ASSUME NEW w \in Wrappers
             PROVE  Fate(events', stack', made, fired, w)
  BY <1>2, OnceKept
<1>5. Fate(events, stack, made, fired, w)
  BY DEF OnceInv
<1>6. Fate(events, under, made, fired, w)
  BY <1>4, <1>5, ShrunkEmptied, FateFewer
<1>7. CASE Apply(l.fn, under)
  <2>1. l.fn \in AllFunctions  BY <1>4 DEF Listeners
  <2>2. QED  BY <1>1, <1>4, <1>6, <1>7, <2>1, FateApply
<1>8. CASE stack' = under /\ events' = events
  BY <1>6, <1>8
<1>9. CASE /\ l.wrapper # NoWrapper /\ l.wrapper \notin fired
           /\ RemoveListener(Top.type, l,
                Append(under, [op |-> "once", listener |-> l]))
  <2> DEFINE once == [op |-> "once", listener |-> l]
             n == Len(stack)
  <2>1. /\ once \in Frames /\ once.op = "once" /\ once.listener = l
    BY <1>4, <1>9, FrameOf
  <2>2. /\ n \in DOMAIN stack /\ stack[n] = Top
        /\ \A j \in DOMAIN stack : j # n => j \in Nat /\ n > j
    BY <1>1, <1>2, BelowFrames
  <2>3. l.wrapper \in Wrappers
    BY <1>4, <1>9 DEF Listeners
  <2> HIDE DEF once
  <2>4. Append(under, once) \in Seq(Frames)
        /\ RemoveListener(Top.type, l, Append(under, once))
    BY <1>4, <1>9, <2>1, AppendFrames DEF once
  <2>5. ~Listed(events', l.wrapper) /\ Shrunk(events', events)
    <3>1. stack[n].op = "emit" /\ stack[n].type = Top.type
          /\ 1 \in DOMAIN stack[n].rest /\ stack[n].rest[1] = l
      BY <1>2, <1>4, <2>2
    <3> HIDE DEF n
    <3>2. QED
      BY <1>1, <1>4, <2>2, <2>3, <2>4, <3>1, RemovesItself
  <2>6. Fate(events', under, made, fired, w)
    BY <1>4, <1>5, <2>5, FateFewer
  <2>7. Runs(once, w) =>
          /\ w \in made \ fired /\ ~Listed(events', w)
          /\ \A j \in DOMAIN under : ~Adds(under[j], w) /\ ~Runs(under[j], w)
    <3> SUFFICES ASSUME Runs(once, w)
                 PROVE  /\ w \in made \ fired /\ ~Listed(events', w)
                        /\ \A j \in DOMAIN under :
                             ~Adds(under[j], w) /\ ~Runs(under[j], w)
      OBVIOUS
    <3>1. l.wrapper = w  BY <2>1 DEF Runs
    <3>2. Holds(stack[n], w)
      BY <1>2, <1>4, <2>2, <3>1 DEF Holds
    <3>3. w \in made
      BY <1>5, <2>2, <3>2 DEF Fate, Unfired
    <3>4. \A j \in DOMAIN stack : ~Adds(stack[j], w)
      BY <1>5, <2>2, <3>2 DEF Fate, AddedAlone
    <3>5. \A j \in DOMAIN stack : ~Runs(stack[j], w)
      <4>1. ~Runs(stack[n], w)  BY <1>2, <2>2 DEF Runs
      <4>2. \A j \in DOMAIN stack : j # n => ~Runs(stack[j], w)
        BY <1>5, <2>2, <3>2 DEF Fate, RunInside
      <4>3. QED  BY <4>1, <4>2
    <3>6. \A j \in DOMAIN under : ~Adds(under[j], w) /\ ~Runs(under[j], w)
      BY <1>4, <3>4, <3>5, NoMoreKinds DEF Fewer
    <3>7. QED  BY <1>9, <2>5, <3>1, <3>3, <3>6
  <2>8. Fate(events', Append(under, once), made, fired, w)
    BY <1>4, <2>1, <2>6, <2>7, FatePushOnce
  <2>9. CASE \E i \in DOMAIN events[Top.type] :
               Matches(events[Top.type][i], l)
    BY <1>1, <1>4, <2>4, <2>8, <2>9, FateRemoval
  <2>10. CASE ~\E i \in DOMAIN events[Top.type] :
                Matches(events[Top.type][i], l)
    BY <2>4, <2>8, <2>10, NoRemoval
  <2>11. QED  BY <2>9, <2>10
<1>10. QED  BY <1>3, <1>7, <1>8, <1>9

\* onceWrapper fires: it was in no list, and no other call of it is left.
LEMMA OnceFire ==
    ASSUME EventsInv, OnceInv, Fire
    PROVE  OnceInv'
<1> DEFINE l == Top.listener
           v == l.wrapper
           n == Len(stack)
<1>1. EmitterInv /\ stack \in Seq(Frames) /\ promise.name \in Types
      /\ ran \in [Wrappers -> Nat]
  BY DEF EventsInv, EmitterInv, OtherTypes, Promises
<1>2. /\ stack # <<>> /\ Top.op = "once" /\ Apply(l.fn, Below)
      /\ fired' = fired \cup {v} /\ made' = made
      /\ ran' = [ran EXCEPT ![v] = ran[v] + 1]
  BY DEF Fire, Resume
<1>3. /\ Below \in Seq(Frames) /\ l \in Listeners /\ l.wrapper # NoWrapper
      /\ n \in Nat \ {0} /\ DOMAIN stack = 1..n
      /\ n \in DOMAIN stack /\ stack[n] = Top
      /\ \A j \in DOMAIN Below :
           j \in DOMAIN stack /\ j # n /\ Below[j] = stack[j]
  BY <1>1, <1>2, BelowFrames, FrameFields
<1>4. v \in Wrappers /\ l.fn \in AllFunctions
  BY <1>3 DEF Listeners
<1>5. \A j \in DOMAIN Below : j \in DOMAIN stack /\ n > j
  BY <1>3
<1>6. Runs(stack[n], v)
  BY <1>2, <1>3 DEF Runs
<1> HIDE DEF l, v, n
<1>7. v \in made \ fired /\ ~Listed(events, v)
      /\ \A j \in DOMAIN Below : ~Adds(Below[j], v) /\ ~Runs(Below[j], v)
  <2>1. Fate(events, stack, made, fired, v)
    BY <1>4 DEF OnceInv
  <2>2. v \in made \ fired /\ ~Listed(events, v)
    BY <1>3, <1>6, <2>1 DEF Fate, Unfired, RunInside
  <2>3. \A j \in DOMAIN Below : ~Adds(stack[j], v)
    BY <1>3, <1>5, <1>6, <2>1 DEF Fate, AddedAlone
  <2>4. \A j \in DOMAIN Below : ~Runs(stack[j], v)
    BY <1>3, <1>5, <1>6, <2>1 DEF Fate, RunInside
  <2>5. QED  BY <1>3, <2>2, <2>3, <2>4
<1>8. ASSUME NEW w \in Wrappers
      PROVE  Fate(events', stack', made', fired', w)
  <2>1. Fate(events, Below, made, fired, w)
    BY <1>1, <1>2, FateBelow DEF OnceInv
  <2>2. Fate(events, Below, made', fired', w)
    BY <1>2, <1>7, <2>1 DEF Fate, Unfired
  <2>3. QED  BY <1>1, <1>2, <1>3, <1>4, <2>2, FateApply
<1>9. ASSUME NEW w \in Wrappers
      PROVE  ran'[w] <= 1 /\ (w \notin fired' => ran'[w] = 0)
  BY <1>1, <1>2, <1>4, <1>7 DEF OnceInv
<1>10. fired' \subseteq made'
  BY <1>2, <1>7 DEF OnceInv
<1>11. QED  BY <1>8, <1>9, <1>10 DEF OnceInv

\* The listener of a frame that is popped is fresh again.
LEMMA FreshBelow ==
    ASSUME EmitterInv, stack # <<>>, NEW mk, NEW frd, NEW w,
           Fate(events, stack, mk, frd, w), Adds(Top, w)
    PROVE  Fresh(events, Below, mk, frd, w)
<1>1. /\ Len(stack) \in DOMAIN stack /\ Top = stack[Len(stack)]
      /\ \A i \in DOMAIN Below :
           i \in DOMAIN stack /\ i # Len(stack) /\ Below[i] = stack[i]
  BY BelowFrames
<1>2. QED  BY <1>1 DEF Fate, AddedAlone, Unfired, Fresh

LEMMA OnceAdded ==
    ASSUME EventsInv, OnceInv, Added \/ PromiseSecond
    PROVE  OnceInv'
<1>1. EmitterInv /\ stack \in Seq(Frames)
  BY DEF EventsInv, EmitterInv
<1>2. stack # <<>> /\ UNCHANGED <<made, fired, ran>>
  BY DEF Added, PromiseSecond, Resume, onceVars
<1>3. Top \in Frames /\ Below \in Seq(Frames)
  BY <1>1, <1>2, BelowFrames
<1> SUFFICES ASSUME NEW w \in Wrappers
             PROVE  Fate(events', stack', made, fired, w)
  BY <1>2, OnceKept
<1>4. /\ Fate(events, Below, made, fired, w)
      /\ Adds(Top, w) => Fresh(events, Below, made, fired, w)
  BY <1>1, <1>2, FateBelow, FreshBelow DEF OnceInv
<1>5. CASE Added
  <2>1. Top.op = "add" /\ Insert(Top.type, Top.listener, Top.prepend, Below)
    BY <1>5 DEF Added, Resume
  <2>2. /\ Top.type \in Types /\ Top.listener \in Listeners
        /\ Top.prepend \in BOOLEAN
    BY <1>3, <2>1, FrameFields
  <2>3. Top.listener.wrapper = w => Adds(Top, w)
    BY <2>1 DEF Adds
  <2>4. QED  BY <1>1, <1>3, <1>4, <2>1, <2>2, <2>3, FateInsert
<1>6. CASE PromiseSecond
  <2> DEFINE l == Wrapped("errorListener", Top.wrapper)
             second == [op |-> "second"]
  <2>1. Top.op = "first"
        /\ AddListener("error", l, FALSE, Append(Below, second))
    BY <1>6 DEF PromiseSecond, Resume
  <2>2. l \in Listeners /\ l.wrapper = Top.wrapper
    BY <1>3, <2>1, FrameFields, ListenerTypes DEF Wrapped
  <2>3. second \in Frames /\ second.op = "second"
    BY FrameOf
  <2> HIDE DEF l, second
  <2>4. Append(Below, second) \in Seq(Frames)
        /\ Fate(events, Append(Below, second), made, fired, w)
    BY <1>3, <1>4, <2>3, FatePush, AppendFrames DEF Adds
  <2>5. l.wrapper = w => Fresh(events, Append(Below, second), made, fired, w)
    <3>1. l.wrapper = w => Fresh(events, Below, made, fired, w)
      BY <1>4, <2>1, <2>2 DEF Adds
    <3>2. ~Adds(second, w) /\ ~Holds(second, w) /\ ~Runs(second, w)
      BY <2>3 DEF Adds, Holds, Runs
    <3>3. \A j \in DOMAIN Append(Below, second) :
            (j \in DOMAIN Below /\ Append(Below, second)[j] = Below[j])
              \/ Append(Below, second)[j] = second
      BY <1>3, <2>3, AppendFrames
    <3>4. QED  BY <3>1, <3>2, <3>3 DEF Fresh
  <2>6. QED
    BY <1>1, <2>1, <2>2, <2>4, <2>5, SpecialTypes, FateAddListener
<1>7. QED  BY <1>5, <1>6

LEMMA OnceStep == EventsInv /\ OnceInv /\ [Next]_vars => OnceInv'
<1> SUFFICES ASSUME EventsInv, OnceInv, [Next]_vars PROVE OnceInv'
  OBVIOUS
<1>1. Names \cup {"error"} \subseteq Types  BY DEF Types
<1>2. CASE \E t \in Types, f \in Functions, prepend \in BOOLEAN :
             On(t, f, prepend) \/ \E w \in Wrappers : Once(t, f, w, prepend)
  BY <1>2, OnceAdding
<1>3. CASE \E t \in Names \cup {"error"} :
             \E w, e \in Wrappers : PromiseOnce(t, w, e)
  BY <1>1, <1>3, OncePromise
<1>4. CASE \/ \E t \in Types, f \in Functions : Off(t, f)
           \/ \E t \in Types : RemoveAllListeners(t)
           \/ \E t \in Names \cup {"error"} : Emit(t)
           \/ RemoveEverything \/ Return \/ ThrowOne
  BY <1>1, <1>4, OnceQuiet
<1>5. CASE MethodStep
  BY <1>5, OnceQuiet, OnceCallNext, OnceFire, OnceAdded DEF MethodStep
<1>6. CASE UNCHANGED vars
  BY <1>6 DEF OnceInv, vars
<1>7. QED
  BY <1>2, <1>3, <1>4, <1>5, <1>6 DEF Next, ProgramStep, Idle

LEMMA InitOnce == Init => OnceInv
<1> SUFFICES ASSUME Init PROVE OnceInv  OBVIOUS
<1>1. /\ stack = <<>> /\ made = {} /\ fired = {}
      /\ \A t \in Types : events[t] = <<>>
      /\ \A w \in Wrappers : ran[w] = 0
  BY DEF Init, NoEvents
<1>2. DOMAIN <<>> = {}  OBVIOUS
<1>3. ASSUME NEW w
      PROVE  Fate(events, stack, made, fired, w)
  BY <1>1, <1>2
     DEF Fate, ListedOnce, AddedAlone, RunInside, HeldAsListed, Unfired, Listed
<1>4. QED  BY <1>1, <1>3 DEF OnceInv

LEMMA OnceInvariance == Spec => []OnceInv
<1>1. QED  BY InitOnce, OnceStep, EventsInvariance, PTL DEF Spec

\* The listener of a once (events/index.js:237) runs once, whichever copies of
\* the lists hold its wrapper and however emissions nest.
THEOREM OnceIsOnce == Spec => []OnceRunsOnce
<1>1. EventsInv /\ OnceInv => OnceRunsOnce
  <2> SUFFICES ASSUME EventsInv, OnceInv PROVE OnceRunsOnce  OBVIOUS
  <2>1. fired \subseteq Wrappers
    BY DEF EventsInv, OtherTypes
  <2>2. \A w \in Wrappers : Listed(events, w) => w \notin fired
    BY DEF OnceInv, Fate, Unfired
  <2>3. \A t \in Types : \A i \in DOMAIN events[t] :
          events[t][i].wrapper \notin fired
    BY <2>1, <2>2 DEF Listed
  <2>4. QED  BY <2>3 DEF OnceInv, OnceRunsOnce
<1>2. QED  BY <1>1, OnceInvariance, EventsInvariance, PTL
-----------------------------------------------------------------------------
(* The listeners of a promise: each has its wrapper, they are added while  *)
(* once(emitter, name) runs, and settling removes both.                    *)

Own(l) == l.fn \notin Functions

Carries(f, l) == \/ f.op \in {"add", "once"} /\ f.listener = l
                 \/ f.op = "emit" /\ \E m \in DOMAIN f.rest : f.rest[m] = l

\* The type a listener of the promise is registered for, and its wrapper.
Home(p, f) == IF f = "resolver" THEN p.name ELSE "error"
Marked(l, w0, e0) == /\ l.wrapper \in Wrappers
                     /\ l.wrapper = IF l.fn = "resolver" THEN w0 ELSE e0

GoodLists(p, evs, w0, e0) ==
    \A t \in Types : \A i \in DOMAIN evs[t] : Own(evs[t][i]) =>
        /\ Marked(evs[t][i], w0, e0) /\ p.state # "none"
        /\ t = Home(p, evs[t][i].fn)

GoodFrame(p, f, w0, e0) ==
    /\ f.op = "first" => f.wrapper = e0
    /\ Making(f) => p.state \in {"making", "early"}
    /\ f.op = "settle" => p.state # "none"
    /\ \A l \in Listeners : Carries(f, l) /\ Own(l) =>
         Marked(l, w0, e0) /\ p.state # "none"
    /\ f.op = "add" /\ Own(f.listener) => f.type = Home(p, f.listener.fn)

GoodFrames(p, stk, w0, e0) == \A k \in DOMAIN stk : GoodFrame(p, stk[k], w0, e0)

InOrder(stk) ==
    /\ \A j, k \in DOMAIN stk : Making(stk[j]) /\ Making(stk[k]) => j = k
    /\ \A j, k \in DOMAIN stk :
         Making(stk[j]) /\ stk[k].op = "settle" => j < k
    /\ \A k \in DOMAIN stk : stk[k].op = "add" /\ Own(stk[k].listener) =>
         \E j \in DOMAIN stk :
           /\ j < k /\ Making(stk[j])
           /\ stk[k].listener.fn = "resolver" => stk[j].op = "first"

OwnGone(evs) == \A t \in Types : \A i \in DOMAIN evs[t] : ~Own(evs[t][i])

Settling(stk) == \E k \in DOMAIN stk : stk[k].op = "settle"

AddsResolver(f) == f.op = "add" /\ f.listener.fn = "resolver"

\* The resolver is in no list, and on the way to none.
ResolverGone(evs, stk) ==
    /\ \A t \in Types : \A i \in DOMAIN evs[t] : evs[t][i].fn # "resolver"
    /\ \A k \in DOMAIN stk : ~AddsResolver(stk[k])

SettledAs(p, stk, before, after) ==
    p.state = after \/ (p.state = before /\ Settling(stk))

NothingLeft(p, evs, stk) ==
    /\ SettledAs(p, stk, "pending", "settled") => OwnGone(evs)
    /\ SettledAs(p, stk, "making", "early") => ResolverGone(evs, stk)

Told(p, evs, stk, w0, e0) ==
    /\ GoodLists(p, evs, w0, e0) /\ GoodFrames(p, stk, w0, e0)
    /\ InOrder(stk) /\ NothingLeft(p, evs, stk)

PromiseInv ==
    \E w0, e0 \in Wrappers \cup {NoWrapper} :
        Told(promise, events, stack, w0, e0)

LEMMA GoodFrameNoMore ==
    ASSUME NEW p, NEW f, NEW g, NEW w0, NEW e0, NoMore(g, f),
           GoodFrame(p, f, w0, e0)
    PROVE  GoodFrame(p, g, w0, e0)
<1>1. g.op = f.op /\ (g.op \in {"add", "first", "once"} => g = f)
  BY DEF NoMore
<1>2. \A l : Carries(g, l) => Carries(f, l)
  BY DEF NoMore, Carries
<1>3. QED  BY <1>1, <1>2 DEF GoodFrame, Making

LEMMA ShrunkOwn ==
    ASSUME NEW evs2, NEW evs, Shrunk(evs2, evs)
    PROVE  /\ OwnGone(evs) => OwnGone(evs2)
           /\ \A stk : ResolverGone(evs, stk) => ResolverGone(evs2, stk)
           /\ \A p, w0, e0 : GoodLists(p, evs, w0, e0)
                               => GoodLists(p, evs2, w0, e0)
<1>1. ASSUME NEW t \in Types, NEW i \in DOMAIN evs2[t]
      PROVE  \E j \in DOMAIN evs[t] : evs2[t][i] = evs[t][j]
  BY DEF Shrunk, Embeds
<1>2. OwnGone(evs) => OwnGone(evs2)
  BY <1>1 DEF OwnGone
<1>3. ASSUME NEW p, NEW w0, NEW e0, GoodLists(p, evs, w0, e0)
      PROVE  GoodLists(p, evs2, w0, e0)
  BY <1>1, <1>3 DEF GoodLists
<1>4. \A stk : ResolverGone(evs, stk) => ResolverGone(evs2, stk)
  BY <1>1 DEF ResolverGone
<1>5. QED  BY <1>2, <1>3, <1>4

LEMMA ToldFewer ==
    ASSUME NEW p, NEW evs, NEW evs2, NEW stk \in Seq(Frames),
           NEW stk2 \in Seq(Frames), NEW w0, NEW e0,
           Told(p, evs, stk, w0, e0), Shrunk(evs2, evs), Fewer(stk2, stk)
    PROVE  Told(p, evs2, stk2, w0, e0)
<1>1. GoodLists(p, evs2, w0, e0) /\ (OwnGone(evs) => OwnGone(evs2))
  BY ShrunkOwn DEF Told
<1>2. GoodFrames(p, stk2, w0, e0)
  BY GoodFrameNoMore DEF Told, GoodFrames, Fewer
<1>3. \A k \in DOMAIN stk2 : /\ k \in DOMAIN stk /\ stk2[k].op = stk[k].op
                             /\ stk2[k].op = "add" => stk2[k] = stk[k]
  BY DEF Fewer, NoMore
<1>4. \A k \in DOMAIN stk2 : \A j \in DOMAIN stk : j < k => j \in DOMAIN stk2
  BY <1>3, LenProperties
<1>5. InOrder(stk2)
  BY <1>3, <1>4 DEF Told, InOrder, Making
<1>6. Settling(stk2) => Settling(stk)
  BY <1>3 DEF Settling
<1>7. ResolverGone(evs, stk) => ResolverGone(evs2, stk2)
  BY <1>3, ShrunkOwn DEF ResolverGone, AddsResolver
<1>8. NothingLeft(p, evs2, stk2)
  BY <1>1, <1>6, <1>7 DEF Told, NothingLeft, SettledAs
<1>9. QED  BY <1>1, <1>2, <1>5, <1>8 DEF Told

\* A frame is put on the stack.
LEMMA ToldPush ==
    ASSUME NEW p, NEW evs, NEW under \in Seq(Frames), NEW f \in Frames,
           NEW w0, NEW e0,
           Told(p, evs, under, w0, e0), GoodFrame(p, f, w0, e0),
           Making(f) => \A j \in DOMAIN under :
                          ~Making(under[j]) /\ under[j].op # "settle",
           f.op = "settle" =>
             /\ p.state = "pending" => OwnGone(evs)
             /\ p.state = "making" => ResolverGone(evs, under),
           f.op = "add" /\ Own(f.listener) =>
             \E j \in DOMAIN under :
               /\ Making(under[j])
               /\ f.listener.fn = "resolver" => under[j].op = "first",
           AddsResolver(f) => ~SettledAs(p, under, "making", "early")
    PROVE  Told(p, evs, Append(under, f), w0, e0)
<1> DEFINE stk == Append(under, f)
           n == Len(under) + 1
<1>1. /\ DOMAIN under = 1..Len(under) /\ Len(under) \in Nat
      /\ DOMAIN stk = 1..n
      /\ \A i \in DOMAIN under : stk[i] = under[i]
      /\ stk[n] = f
  BY AppendFrames
<1> HIDE DEF stk
<1>2. /\ \A k \in DOMAIN stk : \/ k \in DOMAIN under /\ stk[k] = under[k]
                               \/ k = n /\ stk[k] = f
      /\ \A j \in DOMAIN under : /\ j \in DOMAIN stk /\ stk[j] = under[j]
                                 /\ j < n
  BY <1>1
<1> HIDE DEF n
<1>3. GoodFrames(p, stk, w0, e0)
  BY <1>2 DEF Told, GoodFrames
<1>4. InOrder(stk)
  <2>1. \A j, k \in DOMAIN stk : Making(stk[j]) /\ Making(stk[k]) => j = k
    BY <1>2 DEF Told, InOrder
  <2>2. \A j, k \in DOMAIN stk :
          Making(stk[j]) /\ stk[k].op = "settle" => j < k
    BY <1>2 DEF Told, InOrder, Making
  <2>3. \A k \in DOMAIN stk : stk[k].op = "add" /\ Own(stk[k].listener) =>
          \E j \in DOMAIN stk :
            /\ j < k /\ Making(stk[j])
            /\ stk[k].listener.fn = "resolver" => stk[j].op = "first"
    BY <1>2 DEF Told, InOrder
  <2>4. QED  BY <2>1, <2>2, <2>3 DEF InOrder
<1>5. NothingLeft(p, evs, stk)
  <2>1. Settling(stk) => Settling(under) \/ f.op = "settle"
    BY <1>2 DEF Settling
  <2>2. ~AddsResolver(f) /\ ResolverGone(evs, under) => ResolverGone(evs, stk)
    BY <1>2 DEF ResolverGone
  <2>3. f.op = "settle" => ~AddsResolver(f)
    BY DEF AddsResolver
  <2>4. SettledAs(p, stk, "making", "early") =>
          SettledAs(p, under, "making", "early")
          \/ (f.op = "settle" /\ p.state = "making")
    BY <2>1 DEF SettledAs
  <2>5. ASSUME SettledAs(p, stk, "making", "early")
        PROVE  ResolverGone(evs, stk)
    <3>1. CASE f.op = "settle" /\ p.state = "making"
      BY <2>2, <2>3, <3>1
    <3>2. CASE SettledAs(p, under, "making", "early")
      BY <2>2, <3>2 DEF Told, NothingLeft
    <3>3. QED  BY <2>4, <2>5, <3>1, <3>2
  <2>6. SettledAs(p, stk, "pending", "settled") => OwnGone(evs)
    BY <2>1 DEF Told, NothingLeft, SettledAs
  <2>7. QED  BY <2>5, <2>6 DEF NothingLeft
<1>6. QED  BY <1>3, <1>4, <1>5 DEF Told, stk

\* A frame that has nothing to do with a promise.
LEMMA ToldPushQuiet ==
    ASSUME NEW p, NEW evs, NEW under \in Seq(Frames), NEW f \in Frames,
           NEW w0, NEW e0, Told(p, evs, under, w0, e0),
           f.op \in {"js", "remove", "clear"}
    PROVE  Told(p, evs, Append(under, f), w0, e0)
<1>1. GoodFrame(p, f, w0, e0)
  BY DEF GoodFrame, Making, Carries
<1>2. QED  BY <1>1, ToldPush DEF Making, AddsResolver

LEMMA ToldEmitOn ==
    ASSUME NEW p, NEW evs \in [Types -> Seq(Listeners)], NEW t \in Types,
           NEW under \in Seq(Frames), NEW w0, NEW e0,
           Told(p, evs, under, w0, e0)
    PROVE  Told(p, evs, EmitOn(evs, t, under), w0, e0)
<1> DEFINE f == [op |-> "emit", type |-> t, rest |-> evs[t]]
<1>1. f \in Frames /\ EmitOn(evs, t, under) \in {under, Append(under, f)}
  BY EmitOnFrames
<1>2. f.op = "emit" /\ f.rest = evs[t]
  OBVIOUS
<1> HIDE DEF f
<1>3. GoodFrame(p, f, w0, e0)
  BY <1>2 DEF Told, GoodLists, GoodFrame, Making, Carries
<1>4. Told(p, evs, Append(under, f), w0, e0)
  BY <1>1, <1>2, <1>3, ToldPush DEF Making, AddsResolver
<1>5. QED  BY <1>1, <1>4

\* A listener is registered; one of the promise while it is made.
LEMMA ToldInsert ==
    ASSUME EmitterInv, NEW t \in Types, NEW l \in Listeners,
           NEW prepend \in BOOLEAN, NEW under \in Seq(Frames),
           Insert(t, l, prepend, under), NEW p, NEW w0, NEW e0,
           Told(p, events, under, w0, e0),
           Own(l) => /\ Marked(l, w0, e0) /\ t = Home(p, l.fn)
                     /\ p.state \in {"making", "early"},
           l.fn = "resolver" => ~SettledAs(p, under, "making", "early")
    PROVE  Told(p, events', stack', w0, e0)
<1>1. events \in [Types -> Seq(Listeners)] /\ events[t] \in Seq(Listeners)
  BY DEF EmitterInv
<1>2. ASSUME NEW u \in Types, NEW i \in DOMAIN events'[u]
      PROVE  \/ u = t /\ events'[u][i] = l
             \/ \E j \in DOMAIN events[u] : events'[u][i] = events[u][j]
  <2>1. /\ events'[t] = IF prepend THEN <<l>> \o events[t]
                        ELSE Append(events[t], l)
        /\ u # t => events'[u] = events[u]
    BY <1>1 DEF Insert
  <2>2. CASE u # t
    BY <2>1, <2>2
  <2>3. CASE u = t
    <3> DEFINE new == IF prepend THEN <<l>> \o events[t]
                      ELSE Append(events[t], l)
               from(j) == IF prepend THEN j - 1 ELSE j
    <3>1. PICK at \in DOMAIN new : \A j \in DOMAIN new :
            /\ j = at => new[j] = l
            /\ j # at => from(j) \in DOMAIN events[t]
                         /\ new[j] = events[t][from(j)]
      BY <1>1, Inserted
    <3>2. events'[u] = new  BY <2>1, <2>3
    <3> HIDE DEF new, from
    <3>3. QED  BY <2>3, <3>1, <3>2
  <2>4. QED  BY <2>2, <2>3
<1>3. Told(p, events, stack', w0, e0)
  BY FewerMarks, GrownType, ShrunkEmptied, ToldFewer DEF Insert
<1>4. GoodLists(p, events', w0, e0)
  BY <1>2 DEF Told, GoodLists
<1>5. NothingLeft(p, events', stack')
  <2>1. SettledAs(p, stack', "pending", "settled") => OwnGone(events')
    <3>1. Own(l) => ~SettledAs(p, stack', "pending", "settled")
      BY DEF SettledAs
    <3>2. ~Own(l) /\ OwnGone(events) => OwnGone(events')
      BY <1>2 DEF OwnGone
    <3>3. QED  BY <1>3, <3>1, <3>2 DEF Told, NothingLeft
  <2>2. SettledAs(p, stack', "making", "early")
          => SettledAs(p, under, "making", "early")
    <3>1. Fewer(stack', under)
      BY FewerMarks DEF Insert
    <3>2. Settling(stack') => Settling(under)
      BY <3>1 DEF Settling, Fewer, NoMore
    <3>3. QED  BY <3>2 DEF SettledAs
  <2>3. ResolverGone(events, stack') /\ l.fn # "resolver"
          => ResolverGone(events', stack')
    BY <1>2 DEF ResolverGone
  <2>4. QED  BY <1>3, <2>1, <2>2, <2>3 DEF Told, NothingLeft
<1>6. QED  BY <1>3, <1>4, <1>5 DEF Told

LEMMA ToldAddListener ==
    ASSUME EmitterInv, NEW t \in Types, NEW l \in Listeners,
           NEW prepend \in BOOLEAN, NEW under \in Seq(Frames),
           AddListener(t, l, prepend, under), NEW p, NEW w0, NEW e0,
           Told(p, events, under, w0, e0),
           Own(l) => /\ Marked(l, w0, e0) /\ t = Home(p, l.fn)
                     /\ p.state \in {"making", "early"}
                     /\ \E j \in DOMAIN under :
                          /\ Making(under[j])
                          /\ l.fn = "resolver" => under[j].op = "first",
           l.fn = "resolver" => ~SettledAs(p, under, "making", "early")
    PROVE  Told(p, events', stack', w0, e0)
<1>1. CASE events["newListener"] = <<>>
  BY <1>1, ToldInsert DEF AddListener
<1>2. CASE events["newListener"] # <<>>
  <2> DEFINE f == [op |-> "add", type |-> t, listener |-> l,
                   prepend |-> prepend]
  <2>1. events' = events
        /\ stack' = EmitOn(events, "newListener", Append(under, f))
    BY <1>2 DEF AddListener, emitterVars
  <2>2. f \in Frames /\ f.op = "add" /\ f.listener = l /\ f.type = t
    BY FrameOf
  <2> HIDE DEF f
  <2>3. GoodFrame(p, f, w0, e0)
    BY <2>2 DEF GoodFrame, Making, Carries
  <2>4. Told(p, events, Append(under, f), w0, e0)
        /\ Append(under, f) \in Seq(Frames)
    BY <2>2, <2>3, ToldPush, AppendFrames DEF Making, AddsResolver
  <2>5. QED
    BY <2>1, <2>4, ToldEmitOn, SpecialTypes DEF EmitterInv
<1>3. QED  BY <1>1, <1>2

LEMMA ToldRemoval ==
    ASSUME EmitterInv, NEW t \in Types, NEW l, NEW under \in Seq(Frames),
           RemoveListener(t, l, under), NEW p, NEW w0, NEW e0,
           Told(p, events', under, w0, e0)
    PROVE  Told(p, events', stack', w0, e0)
<1>1. CASE ~\E i \in DOMAIN events[t] : Matches(events[t][i], l)
  BY <1>1, NoRemoval
<1>2. CASE \E i \in DOMAIN events[t] : Matches(events[t][i], l)
  <2> DEFINE left == events'[t]
             below == IF Len(left) = 1 THEN Detached(under, t, left)
                      ELSE under
  <2>1. /\ events' \in [Types -> Seq(Listeners)]
        /\ stack' = EmitOn(events', "removeListener", below)
    BY <1>2, Removal
  <2>2. left \in Seq(Listeners)  BY <2>1
  <2>3. below \in Seq(Frames) /\ Fewer(below, under)
    BY <2>2, DetachedType, FewerMarks, FewerItself
  <2> HIDE DEF below
  <2>4. Told(p, events', below, w0, e0)
    BY <2>3, ShrunkEmptied, ToldFewer
  <2>5. QED  BY <2>1, <2>3, <2>4, ToldEmitOn, SpecialTypes
<1>3. QED  BY <1>1, <1>2

LEMMA RemovalShrinks ==
    ASSUME EmitterInv, NEW t \in Types, NEW l, NEW under \in Seq(Frames),
           RemoveListener(t, l, under)
    PROVE  Shrunk(events', events)
<1>1. CASE ~\E i \in DOMAIN events[t] : Matches(events[t][i], l)
  BY <1>1, NoRemoval, ShrunkEmptied DEF emitterVars
<1>2. CASE \E i \in DOMAIN events[t] : Matches(events[t][i], l)
  BY <1>2, FateRemoval
<1>3. QED  BY <1>1, <1>2

LEMMA ToldRemoveListener ==
    ASSUME EmitterInv, NEW t \in Types, NEW l, NEW under \in Seq(Frames),
           RemoveListener(t, l, under), NEW p, NEW w0, NEW e0,
           Told(p, events, under, w0, e0)
    PROVE  Told(p, events', stack', w0, e0)
<1>1. Told(p, events', under, w0, e0)
  BY RemovalShrinks, FewerItself, ToldFewer
<1>2. QED  BY <1>1, ToldRemoval

LEMMA ToldRemoveAllOf ==
    ASSUME EmitterInv, NEW t \in Types, NEW under \in Seq(Frames),
           RemoveAllOf(t, under), NEW p, NEW w0, NEW e0,
           Told(p, events, under, w0, e0)
    PROVE  Told(p, events', stack', w0, e0)
<1>1. events \in [Types -> Seq(Listeners)] /\ events[t] \in Seq(Listeners)
  BY DEF EmitterInv
<1>2. CASE events["removeListener"] = <<>>
  <2>1. Shrunk(events', events)
    <3>1. \A u \in Types : events'[u] = events[u] \/ events'[u] = <<>>
      BY <1>1, <1>2 DEF RemoveAllOf
    <3>2. QED  BY <3>1, ShrunkEmptied
  <2>2. Fewer(stack', under) /\ stack' \in Seq(Frames)
    BY <1>1, <1>2, FewerMarks, DetachedType DEF RemoveAllOf
  <2>3. QED  BY <2>1, <2>2, ToldFewer
<1>3. CASE events["removeListener"] # <<>>
  <2> DEFINE f == [op |-> "remove", type |-> t, next |-> Len(events[t]),
                   live |-> Len(events[t]) > 1,
                   list |-> events[t], grown |-> FALSE]
  <2>1. events' = events
        /\ stack' = IF events[t] = <<>> THEN under ELSE Append(under, f)
    BY <1>3 DEF RemoveAllOf, emitterVars
  <2>2. f \in Frames /\ f.op = "remove"
    <3>1. Len(events[t]) \in Nat /\ (Len(events[t]) > 1) \in BOOLEAN
      BY <1>1, LenProperties
    <3>2. QED  BY <1>1, <3>1, FrameOf
  <2> HIDE DEF f
  <2>3. Told(p, events, Append(under, f), w0, e0)
    BY <2>2, ToldPushQuiet
  <2>4. QED  BY <2>1, <2>3
<1>4. QED  BY <1>2, <1>3

LEMMA ToldBelow ==
    ASSUME EmitterInv, stack # <<>>, NEW p, NEW w0, NEW e0,
           Told(p, events, stack, w0, e0)
    PROVE  Told(p, events, Below, w0, e0) /\ GoodFrame(p, Top, w0, e0)
<1>1. stack \in Seq(Frames)  BY DEF EmitterInv
<1>2. Fewer(Below, stack)
  BY BelowFrames DEF Fewer, NoMore
<1>3. Told(p, events, Below, w0, e0)
  BY <1>1, <1>2, BelowFrames, ShrunkEmptied, ToldFewer
<1>4. GoodFrame(p, Top, w0, e0)
  BY BelowFrames DEF Told, GoodFrames
<1>5. QED  BY <1>3, <1>4

LEMMA ToldThrow ==
    ASSUME NEW under \in Seq(Frames), Throw(under), events' = events,
           promise \in Promises, NEW w0, NEW e0,
           Told(promise, events, under, w0, e0)
    PROVE  Told(promise', events', stack', w0, e0)
<1>1. Fewer(stack', under)
  BY ThrownFrames DEF Fewer, NoMore
<1>2. Told(promise, events', stack', w0, e0)
  BY <1>1, ThrownFrames, ShrunkEmptied, ToldFewer
<1>3. CASE promise' = promise
  BY <1>2, <1>3
<1>4. CASE promise' # promise
  <2>1. PICK j \in {0} \cup {i \in DOMAIN under : under[i].op = "js"} :
          /\ stack' = SubSeq(under, 1, j)
          /\ \E i \in DOMAIN under : i > j /\ Making(under[i])
          /\ promise.state = "making"
          /\ promise' = [promise EXCEPT !.state = "thrown"]
    BY <1>4 DEF Throw
  <2>2. /\ promise'.state = "thrown" /\ promise'.name = promise.name
    BY <2>1
  <2>3. ASSUME NEW k \in DOMAIN stack', Making(stack'[k])
        PROVE  FALSE
    <3>1. PICK i \in DOMAIN under : i > j /\ Making(under[i])
      BY <2>1
    <3>2. k \in DOMAIN under /\ stack'[k] = under[k]
      BY ThrownFrames
    <3>3. k <= j
      <4>1. Len(under) \in Nat /\ DOMAIN under = 1..Len(under)
            /\ j \in 0..Len(under)
        BY LenProperties
      <4>2. \A i2 \in 1..j : under[i2] \in Frames
        BY <4>1, UnderTypes
      <4>3. Len(stack') = j /\ DOMAIN stack' = 1..Len(stack')
        BY <2>1, <4>1, <4>2, SubSeqProperties, ThrownFrames
      <4>4. QED  BY <4>1, <4>3
    <3>4. k = i
      BY <2>3, <3>1, <3>2 DEF Told, InOrder
    <3>5. k \in Nat /\ i \in Nat /\ j \in Nat
      BY <3>2, LenProperties
    <3>6. QED  BY <3>1, <3>3, <3>4, <3>5
  <2>4. GoodLists(promise', events', w0, e0)
    BY <1>2, <2>2 DEF Told, GoodLists, Home
  <2>5. GoodFrames(promise', stack', w0, e0)
    BY <1>2, <2>2, <2>3 DEF Told, GoodFrames, GoodFrame, Home
  <2>6. NothingLeft(promise', events', stack')
    BY <2>2 DEF NothingLeft, SettledAs
  <2>7. QED  BY <1>2, <2>4, <2>5, <2>6 DEF Told
<1>5. QED  BY <1>3, <1>4

LEMMA ToldAllGone ==
    ASSUME EmitterInv, NEW under \in Seq(Frames),
           events' = NoEvents, stack' = AllDetached(under),
           NEW p, NEW w0, NEW e0, Told(p, events, under, w0, e0)
    PROVE  Told(p, events', stack', w0, e0)
<1>1. Shrunk(events', events)
  <2>1. \A u \in Types : events'[u] = <<>>  BY DEF NoEvents
  <2>2. QED  BY <2>1, ShrunkEmptied
<1>2. Fewer(stack', under)
  BY FewerMarks
<1>3. stack' \in Seq(Frames)
  BY AllDetachedType DEF EmitterInv
<1>4. QED  BY <1>1, <1>2, <1>3, ToldFewer

\* removeListener of a listener of the promise: it is in no list after it.
LEMMA RemovesOther ==
    ASSUME EmitterInv, OnceInv, NEW p, NEW w0, NEW e0,
           GoodLists(p, events, w0, e0), NEW g \in AllFunctions \ Functions,
           NEW t \in Types, t = Home(p, g), NEW under \in Seq(Frames),
           RemoveListener(t, Plain(g), under)
    PROVE  \A u \in Types : \A i \in DOMAIN events'[u] : events'[u][i].fn # g
<1>1. Shrunk(events', events)  BY RemovalShrinks
<1>2. ASSUME NEW u \in Types, NEW i \in DOMAIN events[u], events[u][i].fn = g
      PROVE  u = t /\ Marked(events[u][i], w0, e0)
  BY <1>2 DEF GoodLists, Own
<1>3. CASE ~\E i \in DOMAIN events[t] : Matches(events[t][i], Plain(g))
  <2>1. events' = events
    BY <1>3, NoRemoval DEF emitterVars
  <2>2. \A i \in DOMAIN events[t] : events[t][i].fn # g
    BY <1>3 DEF Matches
  <2>3. QED  BY <1>2, <2>1, <2>2
<1>4. CASE \E i \in DOMAIN events[t] : Matches(events[t][i], Plain(g))
  <2>1. PICK last \in DOMAIN events[t] :
          /\ IsLastMatch(last, events[t], Plain(g))
          /\ \A j \in DOMAIN events'[t] :
               LET i == IF j < last THEN j ELSE j + 1
               IN  i \in DOMAIN events[t] /\ i # last
                   /\ events'[t][j] = events[t][i]
    BY <1>4, Removal
  <2>2. events[t][last].fn = g
    BY <2>1 DEF IsLastMatch, Matches, Plain
  <2>3. ASSUME NEW i \in DOMAIN events[t], i # last, events[t][i].fn = g
        PROVE  FALSE
    <3>1. events[t][i].wrapper = events[t][last].wrapper
          /\ events[t][last].wrapper \in Wrappers
      BY <1>2, <2>2, <2>3 DEF Marked
    <3>2. ListedOnce(events, events[t][last].wrapper)
      BY <3>1 DEF OnceInv, Fate
    <3>3. QED  BY <2>3, <3>1, <3>2 DEF ListedOnce
  <2>4. \A j \in DOMAIN events'[t] : events'[t][j].fn # g
    BY <2>1, <2>3
  <2>5. \A u \in Types : u # t => events'[u] = events[u]
    BY <1>4, Removal
  <2>6. QED  BY <1>2, <2>4, <2>5
<1>5. QED  BY <1>3, <1>4

\* A listener of the promise is called: it was in no list, and removes the
\* other one.
LEMMA ToldOwnApply ==
    ASSUME EmitterInv, OnceInv, NEW w0, NEW e0, NEW under \in Seq(Frames),
           Told(promise, events, under, w0, e0), promise.name \in Types,
           promise.state # "none",
           NEW l \in Listeners, Own(l), Marked(l, w0, e0),
           ~Listed(events, l.wrapper), Apply(l.fn, under),
           \A k \in DOMAIN under : ~AddsResolver(under[k])
    PROVE  Told(promise, events', stack', w0, e0)
<1> DEFINE settle == [op |-> "settle"]
           g == IF l.fn = "resolver" THEN "errorListener" ELSE "resolver"
           t == Home(promise, g)
<1>1. /\ l.fn \in {"resolver", "errorListener"} /\ l.fn \notin Functions
      /\ g \in AllFunctions \ Functions /\ t \in Types
  BY FunctionsAssumption, SpecialTypes
     DEF Own, Listeners, AllFunctions, Home
<1>2. settle \in Frames /\ settle.op = "settle"
  BY FrameOf
<1>3. RemoveListener(t, Plain(g), Append(under, settle))
  BY <1>1 DEF Apply, Home
<1>4. Append(under, settle) \in Seq(Frames)
  BY <1>2, AppendFrames
<1>5. GoodLists(promise, events, w0, e0)
  BY DEF Told
<1> HIDE DEF settle
<1>6. Shrunk(events', events)
      /\ \A u \in Types : \A i \in DOMAIN events'[u] : events'[u][i].fn # g
  <2> HIDE DEF g
  <2>1. QED  BY <1>1, <1>3, <1>4, <1>5, RemovalShrinks, RemovesOther
<1>7. OwnGone(events')
  <2> SUFFICES ASSUME NEW u \in Types, NEW i \in DOMAIN events'[u],
                      Own(events'[u][i])
               PROVE  FALSE
    BY DEF OwnGone
  <2>1. PICK j \in DOMAIN events[u] : events'[u][i] = events[u][j]
    BY <1>6 DEF Shrunk, Embeds
  <2>2. events[u][j] \in Listeners
    <3>1. events[u] \in Seq(Listeners)  BY DEF EmitterInv
    <3>2. QED  BY <3>1, LenProperties, ElementOfSeq
  <2>3. events[u][j].fn \in {"resolver", "errorListener"}
    BY <2>1, <2>2 DEF Own, Listeners, AllFunctions
  <2>4. events[u][j].fn = l.fn
    BY <1>1, <1>6, <2>1, <2>3
  <2>5. events[u][j].wrapper = l.wrapper
    BY <1>5, <2>1, <2>4 DEF GoodLists, Marked
  <2>6. QED  BY <2>5 DEF Listed
<1>8. Told(promise, events', under, w0, e0)
  BY <1>6, FewerItself, ToldFewer
<1>9. GoodFrame(promise, settle, w0, e0)
  BY <1>2 DEF GoodFrame, Making, Carries
<1>10. Told(promise, events', Append(under, settle), w0, e0)
  <2>1. ResolverGone(events', under)
    BY <1>7, FunctionsAssumption DEF ResolverGone, OwnGone, Own
  <2>2. QED
    BY <1>2, <1>7, <1>8, <1>9, <2>1, ToldPush DEF Making, AddsResolver
<1> HIDE DEF g, t
<1>11. QED  BY <1>1, <1>3, <1>4, <1>10, ToldRemoval

LEMMA ToldPlainApply ==
    ASSUME NEW w0, NEW e0, NEW under \in Seq(Frames),
           Told(promise, events, under, w0, e0),
           NEW f \in Functions, Apply(f, under)
    PROVE  Told(promise, events', stack', w0, e0)
<1>1. stack' = Append(under, Js) /\ events' = events
  BY FunctionsAssumption DEF Apply, emitterVars
<1>2. Js \in Frames /\ Js.op = "js"
  BY FrameOf DEF Js
<1>3. QED  BY <1>1, <1>2, ToldPushQuiet

\* The steps of the program that do not concern the promise.
LEMMA PromiseProgram ==
    ASSUME EventsInv, PromiseInv,
           \/ \E t \in Types, f \in Functions, prepend \in BOOLEAN :
                On(t, f, prepend) \/ \E w \in Wrappers : Once(t, f, w, prepend)
           \/ \E t \in Types, f \in Functions : Off(t, f)
           \/ \E t \in Types : RemoveAllListeners(t)
           \/ \E t \in Types : Emit(t)
           \/ RemoveEverything \/ Return \/ ThrowOne
    PROVE  PromiseInv'
<1>1. /\ EmitterInv /\ stack \in Seq(Frames)
      /\ events \in [Types -> Seq(Listeners)]
  BY DEF EventsInv, EmitterInv
<1>2. promise \in Promises
  BY DEF EventsInv, OtherTypes
<1>3. PICK w0, e0 \in Wrappers \cup {NoWrapper} :
        Told(promise, events, stack, w0, e0)
  BY DEF PromiseInv
<1> SUFFICES Told(promise', events', stack', w0, e0)
  BY DEF PromiseInv
<1>4. stack # <<>> => /\ Below \in Seq(Frames)
                      /\ Told(promise, events, Below, w0, e0)
  BY <1>1, <1>3, BelowFrames, ToldBelow
<1>5. ASSUME NEW t \in Types, NEW f \in Functions, NEW prepend \in BOOLEAN,
             On(t, f, prepend) \/ \E w \in Wrappers : Once(t, f, w, prepend)
      PROVE  Told(promise', events', stack', w0, e0)
  <2>1. PICK l \in Listeners : ~Own(l) /\ AddListener(t, l, prepend, stack)
    BY <1>5, ListenerTypes DEF On, Once, Own, Plain, Wrapped
  <2>2. l.fn # "resolver"
    BY <2>1, FunctionsAssumption DEF Own, Listeners, AllFunctions
  <2>3. promise' = promise
    BY <1>5 DEF On, Once, onceVars
  <2>4. QED  BY <1>1, <1>3, <2>1, <2>2, <2>3, ToldAddListener
<1>6. ASSUME NEW t \in Types, NEW f \in Functions, Off(t, f)
      PROVE  Told(promise', events', stack', w0, e0)
  BY <1>1, <1>3, <1>6, ToldRemoveListener DEF Off, onceVars
<1>7. ASSUME NEW t \in Types, RemoveAllListeners(t)
      PROVE  Told(promise', events', stack', w0, e0)
  BY <1>1, <1>3, <1>7, ToldRemoveAllOf
     DEF RemoveAllListeners, onceVars
<1>8. ASSUME NEW t \in Types, Emit(t)
      PROVE  Told(promise', events', stack', w0, e0)
  <2>1. /\ events' = events
        /\ \/ Throw(stack)
           \/ stack' = EmitOn(events, t, stack) /\ promise' = promise
    BY <1>8 DEF Emit, emitterVars
  <2>2. CASE Throw(stack)
    BY <1>1, <1>2, <1>3, <2>1, <2>2, ToldThrow
  <2>3. CASE stack' = EmitOn(events, t, stack) /\ promise' = promise
    BY <1>1, <1>3, <2>1, <2>3, ToldEmitOn
  <2>4. QED  BY <2>1, <2>2, <2>3
<1>9. CASE RemoveEverything
  <2>1. CASE events["removeListener"] = <<>>
    BY <1>1, <1>3, <1>9, <2>1, ToldAllGone
       DEF RemoveEverything, onceVars
  <2>2. CASE events["removeListener"] # <<>>
    <3> DEFINE S == {s \in Types : events[s] # <<>>} \ {"removeListener"}
    <3>1. PICK keys \in SetToSeqs(S) :
            stack' = Append(stack, [op |-> "clear",
                              keys |-> Append(keys, "removeListener")])
      BY <1>9, <2>2 DEF RemoveEverything
    <3>2. events' = events /\ promise' = promise
      BY <1>9, <2>2 DEF RemoveEverything, emitterVars, onceVars
    <3> DEFINE f == [op |-> "clear", keys |-> Append(keys, "removeListener")]
    <3>3. Append(keys, "removeListener") \in Seq(Types)
      BY <1>1, <3>1, ClearKeys
    <3>4. f \in Frames /\ f.op = "clear"
      BY <3>3, FrameOf
    <3>5. stack' = Append(stack, f)  BY <3>1
    <3> HIDE DEF f
    <3>6. QED  BY <1>1, <1>3, <3>2, <3>4, <3>5, ToldPushQuiet
  <2>3. QED  BY <2>1, <2>2
<1>10. CASE Return
  BY <1>4, <1>10 DEF Return, emitterVars, onceVars
<1>11. CASE ThrowOne
  <2>1. stack # <<>> /\ Throw(Below) /\ events' = events
    BY <1>11 DEF ThrowOne, emitterVars
  <2>2. QED  BY <1>2, <1>4, <2>1, ToldThrow
<1>12. QED
  BY <1>5, <1>6, <1>7, <1>8, <1>9, <1>10, <1>11

\* once(emitter, name) begins: nothing has to do with a promise before.
LEMMA PromiseBegins ==
    ASSUME EventsInv, PromiseInv, NEW t \in Types, NEW w \in Wrappers,
           NEW e \in Wrappers, PromiseOnce(t, w, e)
    PROVE  PromiseInv'
<1> DEFINE first == [op |-> "first", wrapper |-> e]
           l == Wrapped("resolver", w)
           p == [state |-> "making", name |-> t]
<1>1. EmitterInv /\ stack \in Seq(Frames)
  BY DEF EventsInv, EmitterInv
<1>2. /\ promise.state = "none" /\ promise' = p
      /\ AddListener(t, l, FALSE, Append(stack, first))
  BY DEF PromiseOnce, NoPromise
<1>3. PICK w0, e0 \in Wrappers \cup {NoWrapper} :
        Told(promise, events, stack, w0, e0)
  BY DEF PromiseInv
<1>4. /\ first \in Frames /\ first.op = "first" /\ first.wrapper = e
      /\ l \in Listeners /\ l.wrapper = w /\ l.fn = "resolver"
      /\ p.state = "making" /\ p.name = t
  BY FrameOf, ListenerTypes DEF Wrapped
<1> HIDE DEF first, l, p
<1>5. ASSUME NEW k \in DOMAIN stack
      PROVE  /\ stack[k].op \notin {"first", "second", "settle"}
             /\ \A m \in Listeners : Carries(stack[k], m) => ~Own(m)
  <2>1. GoodFrame(promise, stack[k], w0, e0)
    BY <1>3 DEF Told, GoodFrames
  <2>2. QED  BY <1>2, <2>1 DEF GoodFrame, Making
<1>6. \A k \in DOMAIN stack : stack[k].op = "add" => ~Own(stack[k].listener)
  BY <1>1, <1>5, UnderTypes, FrameFields DEF Carries
<1>7. OwnGone(events)
  BY <1>2, <1>3 DEF Told, GoodLists, OwnGone
<1>8. Told(p, events, stack, w, e)
  <2>1. GoodLists(p, events, w, e)
    BY <1>7 DEF OwnGone, GoodLists
  <2>2. GoodFrames(p, stack, w, e)
    BY <1>5, <1>6 DEF GoodFrames, GoodFrame, Making
  <2>3. InOrder(stack) /\ NothingLeft(p, events, stack)
    BY <1>3, <1>4, <1>5 DEF Told, NothingLeft, SettledAs, Settling
  <2>4. QED  BY <2>1, <2>2, <2>3 DEF Told
<1>9. GoodFrame(p, first, w, e)
  BY <1>4 DEF GoodFrame, Making, Carries
<1>10. /\ Told(p, events, Append(stack, first), w, e)
       /\ Append(stack, first) \in Seq(Frames)
  <2>1. \A j \in DOMAIN stack : ~Making(stack[j]) /\ stack[j].op # "settle"
    BY <1>5 DEF Making
  <2>2. first.op # "settle" /\ first.op # "add"
    BY <1>4
  <2>3. Append(stack, first) \in Seq(Frames)
    BY <1>1, <1>4, AppendFrames
  <2>4. Told(p, events, Append(stack, first), w, e)
    BY <1>1, <1>4, <1>8, <1>9, <2>1, <2>2, ToldPush DEF AddsResolver
  <2>5. QED  BY <2>3, <2>4
<1>11. /\ \E j \in DOMAIN Append(stack, first) :
            /\ Making(Append(stack, first)[j])
            /\ Append(stack, first)[j].op = "first"
       /\ ~SettledAs(p, Append(stack, first), "making", "early")
  <2>1. \A k \in DOMAIN Append(stack, first) :
          Append(stack, first)[k].op # "settle"
    BY <1>1, <1>4, <1>5, AppendFrames
  <2>2. \E j \in DOMAIN Append(stack, first) :
          Append(stack, first)[j].op = "first"
    BY <1>1, <1>4, AppendFrames
  <2>3. QED  BY <1>4, <2>1, <2>2 DEF Making, SettledAs, Settling
<1>12. Marked(l, w, e) /\ t = Home(p, l.fn)
  BY <1>4 DEF Marked, Home
<1>13. Told(p, events', stack', w, e)
  BY <1>1, <1>2, <1>4, <1>10, <1>11, <1>12, ToldAddListener
<1>14. QED  BY <1>2, <1>13 DEF PromiseInv

\* What a frame of once(emitter, name) on top says of the stack below.
LEMMA MakingBelow ==
    ASSUME EmitterInv, stack # <<>>, Making(Top), NEW p, NEW w0, NEW e0,
           Told(p, events, stack, w0, e0)
    PROVE  \A j \in DOMAIN Below :
              ~Making(Below[j]) /\ Below[j].op # "settle"
<1>1. /\ Len(stack) \in Nat \ {0} /\ DOMAIN stack = 1..Len(stack)
      /\ Len(stack) \in DOMAIN stack /\ Top = stack[Len(stack)]
      /\ \A i \in DOMAIN Below :
           i \in DOMAIN stack /\ i # Len(stack) /\ Below[i] = stack[i]
  BY BelowFrames
<1>2. \A j \in DOMAIN stack : ~(Len(stack) < j)
  BY <1>1
<1>3. QED  BY <1>1, <1>2 DEF Told, InOrder

LEMMA PromiseMaking ==
    ASSUME EventsInv, PromiseInv, PromiseSecond \/ PromiseMade
    PROVE  PromiseInv'
<1>1. EmitterInv /\ stack \in Seq(Frames)
  BY DEF EventsInv, EmitterInv
<1>2. stack # <<>> /\ Making(Top)
  BY DEF PromiseSecond, PromiseMade, Resume, Making
<1>3. PICK w0, e0 \in Wrappers \cup {NoWrapper} :
        Told(promise, events, stack, w0, e0)
  BY DEF PromiseInv
<1>4. /\ Told(promise, events, Below, w0, e0)
      /\ GoodFrame(promise, Top, w0, e0)
      /\ \A j \in DOMAIN Below : ~Making(Below[j]) /\ Below[j].op # "settle"
      /\ Below \in Seq(Frames) /\ Top \in Frames
  BY <1>1, <1>2, <1>3, ToldBelow, MakingBelow, BelowFrames
<1>5. promise.state \in {"making", "early"}
  BY <1>2, <1>4 DEF GoodFrame
<1>6. CASE PromiseSecond
  <2> DEFINE second == [op |-> "second"]
             l == Wrapped("errorListener", Top.wrapper)
  <2>1. /\ Top.op = "first" /\ promise' = promise
        /\ AddListener("error", l, FALSE, Append(Below, second))
    BY <1>6 DEF PromiseSecond, Resume, onceVars
  <2>2. /\ Top.wrapper \in Wrappers /\ Top.wrapper = e0
        /\ l \in Listeners /\ l.wrapper = e0 /\ l.fn = "errorListener"
        /\ second \in Frames /\ second.op = "second"
    BY <1>4, <2>1, FrameFields, FrameOf, ListenerTypes
       DEF GoodFrame, Wrapped
  <2> HIDE DEF second, l
  <2>3. GoodFrame(promise, second, w0, e0)
    BY <1>5, <2>2 DEF GoodFrame, Making, Carries
  <2>4. /\ Told(promise, events, Append(Below, second), w0, e0)
        /\ Append(Below, second) \in Seq(Frames)
    BY <1>4, <2>2, <2>3, ToldPush, AppendFrames DEF AddsResolver
  <2>5. \E j \in DOMAIN Append(Below, second) :
          Making(Append(Below, second)[j])
    BY <1>4, <2>2, AppendFrames DEF Making
  <2>6. Marked(l, w0, e0) /\ "error" = Home(promise, l.fn)
    BY <2>2 DEF Marked, Home
  <2>7. Told(promise, events', stack', w0, e0)
    BY <1>1, <1>5, <2>1, <2>2, <2>4, <2>5, <2>6, SpecialTypes,
       ToldAddListener
  <2>8. QED  BY <2>1, <2>7 DEF PromiseInv
<1>7. CASE PromiseMade
  <2>1. /\ stack' = Below /\ events' = events
        /\ promise'.state # "none" /\ promise'.name = promise.name
        /\ promise'.state \in {"pending", "early"}
        /\ promise'.state = "early" => promise.state = "early"
    BY <1>1, <1>5, <1>7 DEF PromiseMade, emitterVars, EventsInv, OtherTypes
  <2>2. GoodLists(promise', events, w0, e0)
    BY <1>4, <2>1 DEF Told, GoodLists, Home
  <2>3. GoodFrames(promise', Below, w0, e0)
    BY <1>4, <2>1 DEF Told, GoodFrames, GoodFrame, Home
  <2>4. NothingLeft(promise', events, Below)
    BY <1>4, <2>1 DEF Told, NothingLeft, SettledAs, Settling
  <2>5. Told(promise', events', stack', w0, e0)
    BY <1>4, <2>1, <2>2, <2>3, <2>4 DEF Told
  <2>6. QED  BY <2>5 DEF PromiseInv
<1>8. QED  BY <1>6, <1>7

\* emit and onceWrapper.
LEMMA PromiseCalls ==
    ASSUME EventsInv, OnceInv, PromiseInv, CallNext \/ Fire \/ Added
    PROVE  PromiseInv'
<1>1. EmitterInv /\ stack \in Seq(Frames) /\ promise.name \in Types
  BY DEF EventsInv, EmitterInv, OtherTypes, Promises
<1>2. stack # <<>> /\ promise' = promise
  BY DEF CallNext, Fire, Added, Resume, onceVars
<1>3. PICK w0, e0 \in Wrappers \cup {NoWrapper} :
        Told(promise, events, stack, w0, e0)
  BY DEF PromiseInv
<1> SUFFICES Told(promise, events', stack', w0, e0)
  BY <1>2 DEF PromiseInv
<1>4. /\ Told(promise, events, Below, w0, e0)
      /\ GoodFrame(promise, Top, w0, e0)
      /\ Below \in Seq(Frames) /\ Top \in Frames
  BY <1>1, <1>2, <1>3, ToldBelow, BelowFrames
<1>5. CASE CallNext
  <2> DEFINE f == [Top EXCEPT !.rest = Tail(Top.rest)]
             l == Head(Top.rest)
             under == Append(Below, f)
             once == [op |-> "once", listener |-> l]
  <2>1. Top.op = "emit" /\ Top.rest # <<>>
    BY <1>5 DEF CallNext, Resume
  <2>2. \/ l.wrapper = NoWrapper /\ Apply(l.fn, under)
        \/ stack' = under /\ events' = events
        \/ /\ l.wrapper # NoWrapper
           /\ RemoveListener(Top.type, l, Append(under, once))
    BY <1>5 DEF CallNext, emitterVars
  <2>3. /\ Top.type \in Types /\ l \in Listeners /\ l = Top.rest[1]
        /\ 1 \in DOMAIN Top.rest
        /\ under \in Seq(Frames) /\ Fewer(under, stack)
    BY <1>1, <1>2, <2>1, EmitGoesOn
  <2>4. l.wrapper # NoWrapper =>
          once \in Frames /\ once.op = "once" /\ once.listener = l
    BY <2>3, FrameOf
  <2> HIDE DEF l, under, f, once
  <2>5. Told(promise, events, under, w0, e0)
    BY <1>1, <1>3, <2>3, ShrunkEmptied, ToldFewer
  <2>6. Own(l) => Marked(l, w0, e0) /\ promise.state # "none"
    BY <1>4, <2>1, <2>3 DEF GoodFrame, Carries
  <2>7. CASE l.wrapper = NoWrapper /\ Apply(l.fn, under)
    <3>1. l.fn \in Functions
      BY <2>6, <2>7, WrappersAssumption DEF Marked, Own
    <3>2. QED  BY <2>3, <2>5, <2>7, <3>1, ToldPlainApply
  <2>8. CASE stack' = under /\ events' = events
    BY <2>5, <2>8
  <2>9. CASE /\ l.wrapper # NoWrapper
             /\ RemoveListener(Top.type, l, Append(under, once))
    <3>1. GoodFrame(promise, once, w0, e0)
      BY <2>4, <2>6, <2>9 DEF GoodFrame, Making, Carries
    <3>2. /\ Told(promise, events, Append(under, once), w0, e0)
          /\ Append(under, once) \in Seq(Frames)
      BY <2>3, <2>4, <2>5, <2>9, <3>1, ToldPush, AppendFrames
         DEF Making, AddsResolver
    <3>3. QED  BY <1>1, <2>3, <2>9, <3>2, ToldRemoveListener
  <2>10. QED  BY <2>2, <2>7, <2>8, <2>9
<1>6. CASE Fire
  <2> DEFINE l == Top.listener
  <2>1. Top.op = "once" /\ Apply(l.fn, Below)
    BY <1>6 DEF Fire, Resume
  <2>2. l \in Listeners /\ l.wrapper \in Wrappers
    BY <1>4, <2>1, FrameFields DEF Listeners
  <2>3. ~Listed(events, l.wrapper)
    <3>1. Len(stack) \in DOMAIN stack /\ Runs(stack[Len(stack)], l.wrapper)
      BY <1>1, <1>2, <2>1, BelowFrames DEF Runs
    <3> HIDE DEF l
    <3>2. QED  BY <2>2, <3>1 DEF OnceInv, Fate, RunInside
  <2>4. Own(l) => Marked(l, w0, e0) /\ promise.state # "none"
    BY <1>4, <2>1, <2>2 DEF GoodFrame, Carries
  <2>4a. ASSUME Own(l), NEW k \in DOMAIN Below, AddsResolver(Below[k])
         PROVE  FALSE
    <3>1. /\ Len(stack) \in DOMAIN stack
          /\ Runs(stack[Len(stack)], l.wrapper)
      BY <1>1, <1>2, <2>1, BelowFrames DEF Runs
    <3>2. k \in DOMAIN stack /\ stack[k] = Below[k]
      BY <1>2, BelowFrames DEF EventsInv, EmitterInv
    <3>3. \A j \in DOMAIN stack : ~Adds(stack[j], l.wrapper)
      <4> HIDE DEF l
      <4>1. AddedAlone(events, stack, l.wrapper)
        BY <2>2 DEF OnceInv, Fate
      <4>2. QED  BY <3>1, <4>1 DEF AddedAlone
    <3>4. Own(stack[k].listener) /\ stack[k].op = "add"
          /\ stack[k].listener.fn = "resolver"
      BY <2>4a, <3>2, FunctionsAssumption DEF AddsResolver, Own
    <3>5. stack[k].listener \in Listeners
      BY <1>1, <3>2, <3>4, UnderTypes, FrameFields
    <3>6. stack[k].listener.wrapper = w0 /\ GoodFrame(promise, stack[k], w0, e0)
      BY <1>3, <3>2, <3>4, <3>5 DEF Told, GoodFrames, GoodFrame, Carries, Marked
    <3>7. PICK j \in DOMAIN stack : stack[j].op = "first"
      BY <1>3, <3>2, <3>4 DEF Told, InOrder
    <3>8. stack[j].wrapper = e0
      BY <1>3, <3>7 DEF Told, GoodFrames, GoodFrame
    <3>9. l.wrapper \in {w0, e0}
      BY <2>4, <2>4a DEF Marked
    <3>10. QED  BY <3>2, <3>3, <3>4, <3>6, <3>7, <3>8, <3>9 DEF Adds
  <2> HIDE DEF l
  <2>5. CASE Own(l)
    BY <1>1, <1>4, <2>1, <2>2, <2>3, <2>4, <2>4a, <2>5, ToldOwnApply
  <2>6. CASE ~Own(l)
    BY <1>4, <2>1, <2>6, ToldPlainApply DEF Own
  <2>7. QED  BY <2>5, <2>6
<1>7. CASE Added
  <2> DEFINE l == Top.listener
  <2>1. Top.op = "add" /\ Insert(Top.type, l, Top.prepend, Below)
    BY <1>7 DEF Added, Resume
  <2>2. Top.type \in Types /\ l \in Listeners /\ Top.prepend \in BOOLEAN
    BY <1>4, <2>1, FrameFields
  <2>3. Own(l) => Marked(l, w0, e0) /\ Top.type = Home(promise, l.fn)
    BY <1>4, <2>1, <2>2 DEF GoodFrame, Carries
  <2>4. Own(l) => promise.state \in {"making", "early"}
    <3> SUFFICES ASSUME Own(l) PROVE promise.state \in {"making", "early"}
      OBVIOUS
    <3>1. Len(stack) \in DOMAIN stack /\ Top = stack[Len(stack)]
      BY <1>1, <1>2, BelowFrames
    <3>2. PICK j \in DOMAIN stack : Making(stack[j])
      BY <1>3, <2>1, <3>1 DEF Told, InOrder
    <3>3. QED  BY <1>3, <3>2 DEF Told, GoodFrames, GoodFrame
  <2>5. l.fn = "resolver" => ~SettledAs(promise, Below, "making", "early")
    <3> SUFFICES ASSUME l.fn = "resolver",
                        SettledAs(promise, Below, "making", "early")
                 PROVE  FALSE
      OBVIOUS
    <3>1. /\ Len(stack) \in DOMAIN stack /\ AddsResolver(stack[Len(stack)])
          /\ \A i \in DOMAIN Below : i \in DOMAIN stack /\ Below[i] = stack[i]
      BY <1>1, <1>2, <2>1, BelowFrames DEF AddsResolver
    <3>2. SettledAs(promise, stack, "making", "early")
      BY <3>1 DEF SettledAs, Settling
    <3>3. QED  BY <1>3, <3>1, <3>2 DEF Told, NothingLeft, ResolverGone
  <2> HIDE DEF l
  <2>6. QED  BY <1>1, <1>4, <2>1, <2>2, <2>3, <2>4, <2>5, ToldInsert
<1>8. QED  BY <1>5, <1>6, <1>7

\* The methods that go on or end.
LEMMA PromiseMethods ==
    ASSUME EventsInv, PromiseInv,
           EmitDone \/ Settle \/ RemoveNext \/ ClearNext
    PROVE  PromiseInv'
<1>1. EmitterInv /\ stack \in Seq(Frames)
      /\ events \in [Types -> Seq(Listeners)]
  BY DEF EventsInv, EmitterInv
<1>2. stack # <<>>
  BY DEF EmitDone, Settle, RemoveNext, ClearNext, Resume
<1>3. PICK w0, e0 \in Wrappers \cup {NoWrapper} :
        Told(promise, events, stack, w0, e0)
  BY DEF PromiseInv
<1>4. /\ Told(promise, events, Below, w0, e0)
      /\ GoodFrame(promise, Top, w0, e0)
      /\ Below \in Seq(Frames) /\ Top \in Frames
  BY <1>1, <1>2, <1>3, ToldBelow, BelowFrames
<1>5. CASE EmitDone
  BY <1>4, <1>5 DEF EmitDone, emitterVars, onceVars, PromiseInv
<1>6. CASE Settle
  <2>1. /\ Top.op = "settle" /\ stack' = Below /\ events' = events
        /\ promise.state # "none"
    BY <1>4, <1>6 DEF Settle, Resume, emitterVars, GoodFrame
  <2>2. /\ promise'.name = promise.name /\ promise'.state # "none"
        /\ promise.state = "making" => promise'.state = "early"
        /\ promise.state = "early" => promise'.state = "early"
        /\ promise'.state \in {"settled", "pending"} =>
             promise.state \in {"settled", "pending"}
        /\ promise'.state \in {"making", "early"} =>
             promise.state \in {"making", "early"}
    BY <1>6, <2>1 DEF Settle, EventsInv, OtherTypes
  <2>3. Settling(stack)
    BY <1>1, <1>2, <2>1, BelowFrames DEF Settling
  <2>4. GoodLists(promise', events, w0, e0)
    BY <1>4, <2>2 DEF Told, GoodLists, Home
  <2>5. GoodFrames(promise', Below, w0, e0)
    BY <1>4, <2>2 DEF Told, GoodFrames, GoodFrame, Home
  <2>6. NothingLeft(promise', events, Below)
    <3>1. ResolverGone(events, stack) => ResolverGone(events, Below)
      BY <1>1, <1>2, BelowFrames DEF ResolverGone
    <3>2. SettledAs(promise', Below, "pending", "settled")
            => SettledAs(promise, stack, "pending", "settled")
      BY <2>2, <2>3 DEF SettledAs
    <3>3. SettledAs(promise', Below, "making", "early")
            => SettledAs(promise, stack, "making", "early")
      BY <2>2, <2>3 DEF SettledAs
    <3>4. QED  BY <1>3, <3>1, <3>2, <3>3 DEF Told, NothingLeft
  <2>7. Told(promise', events', stack', w0, e0)
    BY <1>4, <2>1, <2>4, <2>5, <2>6 DEF Told
  <2>8. QED  BY <2>7 DEF PromiseInv
<1>7. CASE RemoveNext
  <2> DEFINE array == IF Top.live THEN events[Top.type] ELSE Top.list
             f == [Top EXCEPT !.next = Top.next - 1]
  <2>1. Top.op = "remove"
    BY <1>7 DEF RemoveNext, Resume
  <2>2. /\ Top.type \in Types /\ Top.next \in Nat
        /\ Top.list \in Seq(Listeners)
    BY <1>4, <2>1, FrameFields
  <2>3. CASE stack' = Below /\ UNCHANGED <<emitterVars, promise>>
    BY <1>4, <2>3 DEF emitterVars, PromiseInv
  <2>4. CASE Throw(Below) /\ UNCHANGED emitterVars
    <3>1. promise \in Promises
      BY DEF EventsInv, OtherTypes
    <3>2. Told(promise', events', stack', w0, e0)
      BY <1>4, <2>4, <3>1, ToldThrow DEF emitterVars
    <3>3. QED  BY <3>2 DEF PromiseInv
  <2>5. CASE /\ Top.next \in DOMAIN array
             /\ RemoveListener(Top.type, array[Top.next], Append(Below, f))
             /\ promise' = promise
    <3>1. array \in Seq(Listeners)
      BY <1>1, <2>2
    <3>2. Top.next - 1 \in Nat
      BY <2>5, <3>1, LenProperties
    <3>3. f \in Frames /\ f.op = "remove"
      BY <1>4, <2>1, <3>2, NextUpdate
    <3> DEFINE l == array[Top.next]
    <3>4. RemoveListener(Top.type, l, Append(Below, f))
      BY <2>5
    <3> HIDE DEF f, array, l
    <3>5. Append(Below, f) \in Seq(Frames)
          /\ Told(promise, events, Append(Below, f), w0, e0)
      BY <1>4, <3>3, ToldPushQuiet, AppendFrames
    <3>6. Told(promise, events', stack', w0, e0)
      BY <1>1, <2>2, <3>4, <3>5, ToldRemoveListener
    <3>7. QED  BY <2>5, <3>6 DEF PromiseInv
  <2>6. QED  BY <1>1, <1>7, <2>3, <2>4, <2>5, RemoveNextCases
<1>8. CASE ClearNext
  <2>1. Top.op = "clear" /\ promise' = promise
    BY <1>8 DEF ClearNext, Resume, onceVars
  <2>2. Top.keys \in Seq(Types)
    BY <1>4, <2>1, FrameFields
  <2>3. CASE Top.keys # <<>>
    <3> DEFINE f == [Top EXCEPT !.keys = Tail(Top.keys)]
    <3>1. RemoveAllOf(Head(Top.keys), Append(Below, f))
      BY <1>8, <2>3 DEF ClearNext
    <3>2. Head(Top.keys) \in Types /\ Tail(Top.keys) \in Seq(Types)
      BY <2>2, <2>3, HeadTailProperties
    <3>3. f \in Frames /\ f.op = "clear"
      BY <1>4, <2>1, <3>2, ClearUpdate
    <3> HIDE DEF f
    <3>4. Append(Below, f) \in Seq(Frames)
          /\ Told(promise, events, Append(Below, f), w0, e0)
      BY <1>4, <3>3, ToldPushQuiet, AppendFrames
    <3>5. Told(promise, events', stack', w0, e0)
      BY <1>1, <3>1, <3>2, <3>4, ToldRemoveAllOf
    <3>6. QED  BY <2>1, <3>5 DEF PromiseInv
  <2>4. CASE Top.keys = <<>>
    BY <1>1, <1>4, <1>8, <2>1, <2>4, ToldAllGone DEF ClearNext, PromiseInv
  <2>5. QED  BY <2>3, <2>4
<1>9. QED  BY <1>5, <1>6, <1>7, <1>8

LEMMA PromiseInvStep ==
    EventsInv /\ OnceInv /\ PromiseInv /\ [Next]_vars => PromiseInv'
<1> SUFFICES ASSUME EventsInv, OnceInv, PromiseInv, [Next]_vars
             PROVE  PromiseInv'
  OBVIOUS
<1>1. Names \cup {"error"} \subseteq Types  BY DEF Types
<1>2. CASE \E t \in Names \cup {"error"} :
             \E w, e \in Wrappers : PromiseOnce(t, w, e)
  BY <1>1, <1>2, PromiseBegins
<1>3. CASE \/ \E t \in Types, f \in Functions, prepend \in BOOLEAN :
                On(t, f, prepend) \/ \E w \in Wrappers : Once(t, f, w, prepend)
           \/ \E t \in Types, f \in Functions : Off(t, f)
           \/ \E t \in Types : RemoveAllListeners(t)
           \/ \E t \in Names \cup {"error"} : Emit(t)
           \/ RemoveEverything \/ Return \/ ThrowOne
  BY <1>1, <1>3, PromiseProgram
<1>4. CASE MethodStep
  BY <1>4, PromiseMaking, PromiseCalls, PromiseMethods DEF MethodStep
<1>5. CASE UNCHANGED vars
  BY <1>5 DEF PromiseInv, vars
<1>6. QED
  BY <1>2, <1>3, <1>4, <1>5 DEF Next, ProgramStep, Idle

LEMMA InitPromise == Init => PromiseInv
<1> SUFFICES ASSUME Init PROVE PromiseInv  OBVIOUS
<1>1. /\ stack = <<>> /\ DOMAIN <<>> = {} /\ promise.state = "none"
      /\ \A t \in Types : events[t] = <<>>
  BY DEF Init, NoEvents, NoPromise
<1>2. Told(promise, events, stack, NoWrapper, NoWrapper)
  BY <1>1 DEF Told, GoodLists, GoodFrames, InOrder, NothingLeft, SettledAs, Settling
<1>3. QED  BY <1>2 DEF PromiseInv

\* The promise of once(emitter, name) (events/index.js:449), in a program that
\* does not itself register the listeners of a promise, which 'newListener',
\* 'removeListener' and listeners(type) hand to it: when it is settled by
\* one of them after once has returned, neither is left, although any listener
\* may run between the removal of one and of the other; when it is settled
\* while once runs, nothing is left but the listener on 'error'.
THEOREM NothingStays == Spec => []SettledLeavesNothing
<1>1. EventsInv /\ PromiseInv => SettledLeavesNothing
  <2> SUFFICES ASSUME EventsInv, PromiseInv,
                      promise.state \in {"settled", "early"},
                      NEW t \in Types, NEW i \in DOMAIN events[t],
                      Own(events[t][i])
               PROVE  /\ promise.state = "early" /\ t = "error"
                      /\ events[t][i].fn = "errorListener"
    BY DEF SettledLeavesNothing, Own
  <2>1. PICK w0, e0 \in Wrappers \cup {NoWrapper} :
          Told(promise, events, stack, w0, e0)
    BY DEF PromiseInv
  <2>2. promise.state = "early" /\ events[t][i].fn # "resolver"
    BY <2>1 DEF Told, NothingLeft, SettledAs, OwnGone, ResolverGone
  <2>3. events[t][i] \in Listeners
    <3>1. events[t] \in Seq(Listeners)  BY DEF EventsInv, EmitterInv
    <3>2. QED  BY <3>1, LenProperties, ElementOfSeq
  <2>4. events[t][i].fn = "errorListener"
    BY <2>2, <2>3 DEF Own, Listeners, AllFunctions
  <2>5. t = "error"
    BY <2>1, <2>4 DEF Told, GoodLists, Home
  <2>6. QED  BY <2>2, <2>4, <2>5
<1>2. Spec => []PromiseInv
  BY InitPromise, PromiseInvStep, EventsInvariance, OnceInvariance, PTL
     DEF Spec
<1>3. QED  BY <1>1, <1>2, EventsInvariance, PTL
-----------------------------------------------------------------------------
(* The emitter implements EmitterContract: what every part of the methods  *)
(* does to the emissions on the stack.                                     *)

\* es2 is es, or has one emission more, with a list of evs.
Opens(es, evs, es2) ==
    \/ es2 = es
    \/ \E d \in DOMAIN es2, t \in Types :
         /\ \A c \in DOMAIN es : c < d
         /\ DOMAIN es2 = DOMAIN es \cup {d}
         /\ Contract!Only(es2, DOMAIN es) = es
         /\ evs[t] # <<>> /\ es2[d] = evs[t]

IsEmit(stk, d) == d \in DOMAIN stk /\ stk[d].op = "emit"

LEMMA EmissionsAre ==
    ASSUME NEW stk
    PROVE  /\ DOMAIN EmissionsOf(stk) \subseteq DOMAIN stk
           /\ \A d : d \in DOMAIN EmissionsOf(stk) <=> IsEmit(stk, d)
           /\ \A d : IsEmit(stk, d) => EmissionsOf(stk)[d] = stk[d].rest
BY DEF EmissionsOf, IsEmit

LEMMA SameEmissions ==
    ASSUME NEW a, NEW b, \A d : IsEmit(a, d) <=> IsEmit(b, d),
           \A d : IsEmit(a, d) => a[d].rest = b[d].rest
    PROVE  EmissionsOf(a) = EmissionsOf(b)
<1> DEFINE S == {d \in DOMAIN a : a[d].op = "emit"}
           T == {d \in DOMAIN b : b[d].op = "emit"}
<1>1. S = T
  BY DEF IsEmit
<1>2. \A d \in S : a[d].rest = b[d].rest
  BY DEF IsEmit
<1>3. EmissionsOf(a) = [d \in S |-> a[d].rest]
      /\ EmissionsOf(b) = [d \in T |-> b[d].rest]
  BY DEF EmissionsOf
<1> HIDE DEF S, T
<1>4. QED  BY <1>1, <1>2, <1>3

LEMMA EmissionsAppend ==
    ASSUME NEW under \in Seq(Frames), NEW f \in Frames, f.op # "emit"
    PROVE  EmissionsOf(Append(under, f)) = EmissionsOf(under)
<1>1. /\ DOMAIN under = 1..Len(under) /\ Len(under) \in Nat
      /\ DOMAIN Append(under, f) = 1..(Len(under) + 1)
      /\ \A i \in DOMAIN under : Append(under, f)[i] = under[i]
      /\ Append(under, f)[Len(under) + 1] = f
  BY AppendFrames
<1>2. \A d : d \in DOMAIN Append(under, f)
               <=> d \in DOMAIN under \/ d = Len(under) + 1
  BY <1>1
<1>3. QED  BY <1>1, <1>2, SameEmissions DEF IsEmit

LEMMA OpensEmitOn ==
    ASSUME NEW evs \in [Types -> Seq(Listeners)], NEW t \in Types,
           NEW under \in Seq(Frames)
    PROVE  Opens(EmissionsOf(under), evs, EmissionsOf(EmitOn(evs, t, under)))
<1> DEFINE f == [op |-> "emit", type |-> t, rest |-> evs[t]]
           stk == Append(under, f)
           d == Len(under) + 1
<1>1. CASE evs[t] = <<>>
  BY <1>1 DEF EmitOn, Opens
<1>2. CASE evs[t] # <<>>
  <2>1. EmitOn(evs, t, under) = stk /\ f \in Frames
        /\ f.op = "emit" /\ f.rest = evs[t]
    BY <1>2, EmitOnFrames DEF EmitOn
  <2> HIDE DEF f
  <2>2. /\ DOMAIN under = 1..Len(under) /\ Len(under) \in Nat
        /\ DOMAIN stk = 1..d
        /\ \A i \in DOMAIN under : stk[i] = under[i]
        /\ stk[d] = f
    BY <2>1, AppendFrames
  <2> HIDE DEF stk
  <2>3. \A c : c \in DOMAIN stk <=> c \in DOMAIN under \/ c = d
    BY <2>2
  <2>4. \A c : IsEmit(stk, c) <=> IsEmit(under, c) \/ c = d
    BY <2>1, <2>2, <2>3 DEF IsEmit
  <2>5. DOMAIN EmissionsOf(stk) = DOMAIN EmissionsOf(under) \cup {d}
    BY <2>4, EmissionsAre
  <2>6. \A c \in DOMAIN EmissionsOf(under) : c < d
    BY <2>2, EmissionsAre
  <2>7. EmissionsOf(stk)[d] = evs[t]
    BY <2>1, <2>2, <2>4, EmissionsAre
  <2>8. Contract!Only(EmissionsOf(stk), DOMAIN EmissionsOf(under))
          = EmissionsOf(under)
    <3>1. \A c \in DOMAIN EmissionsOf(under) :
            EmissionsOf(stk)[c] = EmissionsOf(under)[c]
      <4>1. \A c \in DOMAIN EmissionsOf(under) :
              /\ IsEmit(under, c) /\ c \in DOMAIN under
              /\ IsEmit(stk, c) /\ stk[c] = under[c]
        BY <2>2, <2>4, EmissionsAre DEF IsEmit
      <4>2. QED  BY <4>1, EmissionsAre
    <3>2. EmissionsOf(under) = [c \in DOMAIN EmissionsOf(under) |->
                                  EmissionsOf(under)[c]]
      BY DEF EmissionsOf
    <3>3. QED  BY <3>1, <3>2 DEF Contract!Only
  <2>9. QED  BY <1>2, <2>1, <2>5, <2>6, <2>7, <2>8 DEF Opens
<1>3. QED  BY <1>1, <1>2

\* Only frames of other methods change.
LEMMA EmissionsMapped ==
    ASSUME NEW under \in Seq(Frames), NEW t, NEW list
    PROVE  /\ EmissionsOf(Grown(under, t)) = EmissionsOf(under)
           /\ EmissionsOf(Detached(under, t, list)) = EmissionsOf(under)
           /\ EmissionsOf(AllDetached(under)) = EmissionsOf(under)
<1> DEFINE Keeps(stk) ==
             /\ DOMAIN stk = DOMAIN under
             /\ \A i \in DOMAIN under :
                  \/ stk[i] = under[i]
                  \/ under[i].op = "remove" /\ stk[i].op = "remove"
<1>1. ASSUME NEW stk, Keeps(stk)
      PROVE  EmissionsOf(stk) = EmissionsOf(under)
  BY <1>1, SameEmissions DEF IsEmit
<1>2. \A i \in DOMAIN under : under[i].op = "remove" =>
        /\ [under[i] EXCEPT !.grown = TRUE].op = "remove"
        /\ \A ls : [under[i] EXCEPT !.live = FALSE, !.list = ls].op = "remove"
  BY UnderTypes DEF Frames
<1>3. Keeps(Grown(under, t))
  BY <1>2 DEF Grown
<1>4. Keeps(Detached(under, t, list))
  BY <1>2 DEF Detached
<1>5. Keeps(AllDetached(under))
  BY <1>2 DEF AllDetached
<1> HIDE DEF Keeps
<1>6. QED  BY <1>1, <1>3, <1>4, <1>5

\* The top frame goes.
LEMMA EmissionsBelow ==
    ASSUME EmitterInv, stack # <<>>
    PROVE  /\ Top.op # "emit" => EmissionsOf(Below) = EmissionsOf(stack)
           /\ EmissionsOf(Below) =
                Contract!Only(EmissionsOf(stack),
                              DOMAIN EmissionsOf(stack) \ {Len(stack)})
<1>1. /\ Len(stack) \in Nat \ {0} /\ DOMAIN stack = 1..Len(stack)
      /\ Len(stack) \in DOMAIN stack /\ Top = stack[Len(stack)]
      /\ Len(Below) = Len(stack) - 1 /\ DOMAIN Below = 1..Len(Below)
      /\ \A i \in DOMAIN Below :
           i \in DOMAIN stack /\ i # Len(stack) /\ Below[i] = stack[i]
  BY BelowFrames
<1>2. \A d : d \in DOMAIN Below <=> d \in DOMAIN stack /\ d # Len(stack)
  BY <1>1
<1>3. \A d : IsEmit(Below, d) <=> IsEmit(stack, d) /\ d # Len(stack)
  BY <1>1, <1>2 DEF IsEmit
<1>4. \A d : IsEmit(Below, d) => Below[d].rest = stack[d].rest
  BY <1>1 DEF IsEmit
<1>5. Top.op # "emit" => EmissionsOf(Below) = EmissionsOf(stack)
  BY <1>1, <1>3, <1>4, SameEmissions DEF IsEmit
<1>6. DOMAIN EmissionsOf(Below) = DOMAIN EmissionsOf(stack) \ {Len(stack)}
  BY <1>3, EmissionsAre
<1>7. \A d \in DOMAIN EmissionsOf(Below) :
        EmissionsOf(Below)[d] = EmissionsOf(stack)[d]
  BY <1>3, <1>4, EmissionsAre
<1>8. EmissionsOf(Below) = [d \in DOMAIN EmissionsOf(Below) |->
                              EmissionsOf(Below)[d]]
  BY DEF EmissionsOf
<1>9. QED  BY <1>5, <1>6, <1>7, <1>8 DEF Contract!Only

\* emit calls the next listener: what is left of its copy.
LEMMA EmissionsCalled ==
    ASSUME EmitterInv, stack # <<>>, Top.op = "emit", Top.rest # <<>>
    PROVE  EmissionsOf(Append(Below, [Top EXCEPT !.rest = Tail(Top.rest)]))
             = [EmissionsOf(stack) EXCEPT ![Len(stack)] = Tail(@)]
<1> DEFINE f == [Top EXCEPT !.rest = Tail(Top.rest)]
           stk == Append(Below, f)
<1>1. /\ f \in Frames /\ f.op = "emit" /\ f.rest = Tail(Top.rest)
  BY EmitGoesOn
<1> HIDE DEF f
<1>2. /\ Len(stack) \in Nat \ {0} /\ DOMAIN stack = 1..Len(stack)
      /\ Top = stack[Len(stack)] /\ Below \in Seq(Frames)
      /\ Len(Below) = Len(stack) - 1
      /\ \A i \in DOMAIN Below : Below[i] = stack[i]
  BY BelowFrames
<1>3. /\ DOMAIN Below = 1..Len(Below) /\ DOMAIN stk = 1..(Len(Below) + 1)
      /\ \A i \in DOMAIN Below : stk[i] = Below[i]
      /\ stk[Len(Below) + 1] = f
  BY <1>1, <1>2, AppendFrames
<1> HIDE DEF stk
<1>4. /\ DOMAIN stk = DOMAIN stack /\ stk[Len(stack)] = f
      /\ \A i \in DOMAIN stack : i # Len(stack) => stk[i] = stack[i]
  <2>1. Len(Below) + 1 = Len(stack)  BY <1>2
  <2>2. \A i \in DOMAIN stack : i # Len(stack) => i \in DOMAIN Below
    BY <1>2, <1>3
  <2>3. QED  BY <1>2, <1>3, <2>1, <2>2
<1>5. \A d : IsEmit(stk, d) <=> IsEmit(stack, d)
  BY <1>1, <1>2, <1>4 DEF IsEmit
<1>6. DOMAIN EmissionsOf(stk) = DOMAIN EmissionsOf(stack)
  BY <1>5, EmissionsAre
<1>7. Len(stack) \in DOMAIN EmissionsOf(stack)
      /\ EmissionsOf(stk)[Len(stack)] = Tail(EmissionsOf(stack)[Len(stack)])
  BY <1>1, <1>2, <1>4, <1>5, EmissionsAre DEF IsEmit
<1>8. \A d \in DOMAIN EmissionsOf(stack) : d # Len(stack) =>
        EmissionsOf(stk)[d] = EmissionsOf(stack)[d]
  BY <1>4, <1>5, EmissionsAre DEF IsEmit
<1>9. EmissionsOf(stk) = [d \in DOMAIN EmissionsOf(stk) |->
                            EmissionsOf(stk)[d]]
      /\ EmissionsOf(stack) = [d \in DOMAIN EmissionsOf(stack) |->
                                 EmissionsOf(stack)[d]]
  BY DEF EmissionsOf
<1>10. QED
  <2>1. EmissionsOf(stk) = [EmissionsOf(stack) EXCEPT ![Len(stack)] = Tail(@)]
    BY <1>6, <1>7, <1>8, <1>9
  <2>2. QED  BY <2>1 DEF stk, f

LEMMA TurnIs ==
    ASSUME NEW stk \in Seq(Frames)
    PROVE  \/ TurnOf(stk) = 0
           \/ /\ TurnOf(stk) = Len(stk) /\ TurnOf(stk) \in DOMAIN EmissionsOf(stk)
              /\ \A c \in DOMAIN EmissionsOf(stk) : c <= TurnOf(stk)
<1>1. DOMAIN stk = 1..Len(stk) /\ Len(stk) \in Nat
  BY LenProperties
<1>2. stk # <<>> => Len(stk) \in DOMAIN stk
  BY <1>1, EmptySeq
<1>3. \A c \in DOMAIN EmissionsOf(stk) : c <= Len(stk)
  BY <1>1, EmissionsAre
<1>4. QED  BY <1>2, <1>3, EmissionsAre DEF TurnOf, IsEmit

\* The emissions before and after a method that was called on `under`.
Goes(under) ==
    /\ Contract!Change
    /\ Opens(EmissionsOf(under), events', EmissionsOf(stack'))

LEMMA GoesInsert ==
    ASSUME NEW t \in Types, NEW l \in Listeners, l.wrapper \notin fired,
           NEW prepend \in BOOLEAN, NEW under \in Seq(Frames),
           Insert(t, l, prepend, under)
    PROVE  Goes(under)
<1>1. events' \in {[events EXCEPT ![t] = Append(@, l)],
                   [events EXCEPT ![t] = <<l>> \o @]}
  BY DEF Insert
<1>2. Contract!Change
  BY <1>1 DEF Contract!Change, Contract!Register, Contract!IsSpent
<1>3. EmissionsOf(stack') = EmissionsOf(under)
  BY EmissionsMapped DEF Insert
<1>4. QED  BY <1>2, <1>3 DEF Goes, Opens

LEMMA GoesAddListener ==
    ASSUME EmitterInv, NEW t \in Types, NEW l \in Listeners,
           l.wrapper \notin fired, NEW prepend \in BOOLEAN,
           NEW under \in Seq(Frames), AddListener(t, l, prepend, under)
    PROVE  Goes(under)
<1>1. CASE events["newListener"] = <<>>
  BY <1>1, GoesInsert DEF AddListener
<1>2. CASE events["newListener"] # <<>>
  <2> DEFINE f == [op |-> "add", type |-> t, listener |-> l,
                   prepend |-> prepend]
  <2>1. events' = events
        /\ stack' = EmitOn(events, "newListener", Append(under, f))
    BY <1>2 DEF AddListener, emitterVars
  <2>2. f \in Frames /\ f.op # "emit"
    BY FrameOf
  <2> HIDE DEF f
  <2>3. Append(under, f) \in Seq(Frames)
        /\ EmissionsOf(Append(under, f)) = EmissionsOf(under)
    BY <2>2, AppendFrames, EmissionsAppend
  <2>4. Opens(EmissionsOf(under), events', EmissionsOf(stack'))
    BY <2>1, <2>3, OpensEmitOn, SpecialTypes DEF EmitterInv
  <2>5. QED  BY <2>1, <2>4 DEF Goes, Contract!Change
<1>3. QED  BY <1>1, <1>2

LEMMA GoesRemoveListener ==
    ASSUME EmitterInv, NEW t \in Types, NEW l, NEW under \in Seq(Frames),
           RemoveListener(t, l, under)
    PROVE  Goes(under)
<1>1. CASE ~\E i \in DOMAIN events[t] : Matches(events[t][i], l)
  BY <1>1, NoRemoval DEF Goes, Opens, Contract!Change, emitterVars
<1>2. CASE \E i \in DOMAIN events[t] : Matches(events[t][i], l)
  <2> DEFINE left == events'[t]
             below == IF Len(left) = 1 THEN Detached(under, t, left)
                      ELSE under
  <2>1. /\ events' \in [Types -> Seq(Listeners)]
        /\ stack' = EmitOn(events', "removeListener", below)
    BY <1>2, Removal
  <2>2. below \in Seq(Frames) /\ EmissionsOf(below) = EmissionsOf(under)
    BY <2>1, DetachedType, EmissionsMapped
  <2> HIDE DEF below
  <2>3. Opens(EmissionsOf(under), events', EmissionsOf(stack'))
    BY <2>1, <2>2, OpensEmitOn, SpecialTypes
  <2>4. PICK last \in DOMAIN events[t] :
          events' = [events EXCEPT ![t] = RemoveAt(events[t], last)]
    BY <1>2 DEF RemoveListener
  <2>5. Contract!Unregister
    BY <2>4 DEF Contract!Unregister, Contract!RemoveAt, RemoveAt
  <2>6. QED  BY <2>3, <2>5 DEF Goes, Contract!Change
<1>3. QED  BY <1>1, <1>2

LEMMA GoesRemoveAllOf ==
    ASSUME EmitterInv, NEW t \in Types, NEW under \in Seq(Frames),
           RemoveAllOf(t, under)
    PROVE  Goes(under)
<1>1. CASE events["removeListener"] = <<>>
  <2>1. /\ events' = [events EXCEPT ![t] = <<>>]
        /\ stack' = Detached(under, t, events[t])
    BY <1>1 DEF RemoveAllOf
  <2>2. EmissionsOf(stack') = EmissionsOf(under)
    BY <2>1, EmissionsMapped
  <2>3. QED
    BY <2>1, <2>2 DEF Goes, Opens, Contract!Change, Contract!Empty
<1>2. CASE events["removeListener"] # <<>>
  <2> DEFINE f == [op |-> "remove", type |-> t, next |-> Len(events[t]),
                   live |-> Len(events[t]) > 1, list |-> events[t],
                   grown |-> FALSE]
  <2>1. events' = events /\ stack' \in {under, Append(under, f)}
    BY <1>2 DEF RemoveAllOf, emitterVars
  <2>2. f \in Frames /\ f.op # "emit"
    <3>1. events[t] \in Seq(Listeners) /\ Len(events[t]) \in Nat
          /\ (Len(events[t]) > 1) \in BOOLEAN
      BY LenProperties DEF EmitterInv
    <3>2. f \in Frames  BY <3>1, FrameOf
    <3>3. QED  BY <3>2
  <2> HIDE DEF f
  <2>3. EmissionsOf(stack') = EmissionsOf(under)
    BY <2>1, <2>2, EmissionsAppend
  <2>4. QED  BY <2>1, <2>3 DEF Goes, Opens, Contract!Change
<1>3. QED  BY <1>1, <1>2

LEMMA GoesAllGone ==
    ASSUME NEW under \in Seq(Frames), events' = NoEvents,
           stack' = AllDetached(under)
    PROVE  Goes(under)
<1>1. EmissionsOf(stack') = EmissionsOf(under)
  BY EmissionsMapped
<1>2. QED
  BY <1>1 DEF Goes, Opens, Contract!Change, Contract!Empty, NoEvents

\* The lists stay, and a frame of another method is put on the stack.
LEMMA GoesOther ==
    ASSUME NEW under \in Seq(Frames), NEW f \in Frames, f.op # "emit",
           events' = events, stack' \in {under, Append(under, f)}
    PROVE  Goes(under)
BY EmissionsAppend DEF Goes, Opens, Contract!Change

LEMMA GoesApply ==
    ASSUME EventsInv, NEW f \in AllFunctions, NEW under \in Seq(Frames),
           Apply(f, under)
    PROVE  Goes(under)
<1> DEFINE settle == [op |-> "settle"]
<1>1. /\ settle \in Frames /\ settle.op # "emit"
      /\ Js \in Frames /\ Js.op # "emit"
  BY FrameOf DEF Js
<1>2. EmitterInv /\ promise.name \in Types
  BY DEF EventsInv, OtherTypes, Promises
<1> HIDE DEF settle
<1>3. Append(under, settle) \in Seq(Frames)
      /\ EmissionsOf(Append(under, settle)) = EmissionsOf(under)
  BY <1>1, AppendFrames, EmissionsAppend
<1>4. CASE stack' = Append(under, Js) /\ UNCHANGED emitterVars
  BY <1>1, <1>4, GoesOther DEF emitterVars
<1>5. ASSUME NEW t \in Types, NEW l,
             RemoveListener(t, l, Append(under, settle))
      PROVE  Goes(under)
  <2>1. Goes(Append(under, settle))
    BY <1>2, <1>3, <1>5, GoesRemoveListener
  <2>2. QED  BY <1>3, <2>1 DEF Goes
<1>6. QED
  BY <1>2, <1>4, <1>5, SpecialTypes DEF Apply, settle

\* An exception abandons the emissions above the code that catches it.
LEMMA ThrownEmissions ==
    ASSUME NEW under \in Seq(Frames), Throw(under)
    PROVE  /\ TurnOf(stack') = 0
           /\ \E kept \in SUBSET DOMAIN EmissionsOf(under) :
                /\ \A c \in kept, d \in DOMAIN EmissionsOf(under) :
                     d < c => d \in kept
                /\ EmissionsOf(stack') = Contract!Only(EmissionsOf(under), kept)
<1>1. /\ stack' \in Seq(Frames)
      /\ Len(under) \in Nat /\ DOMAIN under = 1..Len(under)
      /\ Len(stack') \in Nat /\ DOMAIN stack' = 1..Len(stack')
      /\ Len(stack') <= Len(under)
      /\ \A i \in DOMAIN stack' : i \in DOMAIN under /\ stack'[i] = under[i]
  BY ThrownFrames
<1> DEFINE kept == DOMAIN EmissionsOf(stack')
<1>2. \A c : IsEmit(stack', c) <=> IsEmit(under, c) /\ c <= Len(stack')
  BY <1>1 DEF IsEmit
<1>3. kept \subseteq DOMAIN EmissionsOf(under)
  BY <1>2, EmissionsAre
<1>4. ASSUME NEW c \in kept, NEW d \in DOMAIN EmissionsOf(under), d < c
      PROVE  d \in kept
  <2>1. IsEmit(stack', c) /\ IsEmit(under, d)
    BY <1>4, EmissionsAre
  <2>2. c \in Nat /\ d \in Nat /\ c <= Len(stack')
    BY <1>1, <2>1 DEF IsEmit
  <2>3. d <= Len(stack')  BY <1>1, <1>4, <2>2
  <2>4. QED  BY <1>2, <2>1, <2>3, EmissionsAre
<1>5. EmissionsOf(stack') = Contract!Only(EmissionsOf(under), kept)
  <2>1. \A c \in kept : EmissionsOf(stack')[c] = EmissionsOf(under)[c]
    <3>1. \A c \in kept :
            /\ IsEmit(stack', c) /\ IsEmit(under, c)
            /\ stack'[c] = under[c]
      BY <1>1, <1>2, EmissionsAre DEF IsEmit
    <3>2. QED  BY <3>1, EmissionsAre
  <2>2. EmissionsOf(stack') = [c \in kept |-> EmissionsOf(stack')[c]]
    BY DEF EmissionsOf
  <2>3. QED  BY <2>1, <2>2 DEF Contract!Only
<1>6. TurnOf(stack') = 0
  <2>1. PICK j \in {0} \cup {i \in DOMAIN under : under[i].op = "js"} :
          stack' = SubSeq(under, 1, j)
    BY DEF Throw
  <2>2. j \in 0..Len(under)  BY <1>1, <2>1
  <2>3. \A i \in 1..j : under[i] \in Frames
    BY <1>1, <2>2, UnderTypes
  <2>4. Len(stack') = j
    BY <2>1, <2>2, <2>3, SubSeqProperties
  <2>5. CASE j = 0
    BY <1>1, <2>4, <2>5, EmptySeq DEF TurnOf
  <2>6. CASE j # 0
    <3>1. j \in DOMAIN stack' /\ under[j].op = "js"
      BY <1>1, <2>1, <2>2, <2>4, <2>6
    <3>2. QED  BY <1>1, <2>4, <3>1 DEF TurnOf
  <2>7. QED  BY <2>5, <2>6
<1>7. QED  BY <1>3, <1>4, <1>5, <1>6

CStep == [Contract!ContractNext]_(Contract!contractVars)

\* No listener that is spent is in a list, and the one called now is in none.
LEMMA SpendsUnlisted ==
    ASSUME EventsInv, OnceInv, fired' = fired \/ Fire
    PROVE  Contract!Spend
<1>1. ASSUME NEW t \in Types, NEW i \in DOMAIN events[t]
      PROVE  events[t][i].wrapper \notin fired
  <2>1. fired \subseteq Wrappers
    BY DEF EventsInv, OtherTypes
  <2>2. \A w \in Wrappers : Listed(events, w) => w \notin fired
    BY DEF OnceInv, Fate, Unfired
  <2>3. QED  BY <2>1, <2>2 DEF Listed
<1>2. CASE fired' = fired
  BY <1>1, <1>2 DEF Contract!Spend
<1>3. CASE Fire
  <2>1. /\ stack # <<>> /\ Top.op = "once"
        /\ fired' = fired \cup {Top.listener.wrapper}
    BY <1>3 DEF Fire, Resume
  <2>2. /\ Len(stack) \in DOMAIN stack /\ Top = stack[Len(stack)]
        /\ Top \in Frames
    BY <2>1, BelowFrames DEF EventsInv
  <2>3. Top.listener.wrapper \in Wrappers
    BY <2>1, <2>2, FrameFields DEF Listeners
  <2>4. ~Listed(events, Top.listener.wrapper)
    BY <2>1, <2>2, <2>3 DEF OnceInv, Fate, RunInside, Runs
  <2>5. QED  BY <1>1, <2>1, <2>4 DEF Contract!Spend, Listed
<1>4. QED  BY <1>2, <1>3

\* A step of which the emissions agree with the contract is one of its steps.
LEMMA ContractStep ==
    ASSUME EventsInv',
           \/ Contract!Change /\ Contract!Spend
              /\ (Contract!Deliver \/ Contract!Run)
           \/ events' = events /\ fired' = fired
              /\ (Contract!Finish \/ Contract!Abandon)
    PROVE  CStep
<1>1. stack' \in Seq(Frames)
  BY DEF EventsInv, EmitterInv
<1>2. TurnOf(stack') = 0
      \/ Contract!Innermost(TurnOf(stack'), EmissionsOf(stack'))
  BY <1>1, TurnIs DEF Contract!Innermost
<1>3. QED  BY <1>2 DEF CStep, Contract!ContractNext

\* Other code than an emission runs.
LEMMA OtherRuns ==
    ASSUME EventsInv, EventsInv', OnceInv, stack # <<>> => Top.op # "emit",
           fired' = fired \/ Fire, NEW under,
           EmissionsOf(under) = EmissionsOf(stack), Goes(under)
    PROVE  CStep
<1>1. TurnOf(stack) = 0
  BY DEF TurnOf, Top
<1>2. Contract!Run
  BY <1>1 DEF Goes, Opens, Contract!Run, Contract!Begun
<1>3. QED  BY <1>2, SpendsUnlisted, ContractStep DEF Goes

LEMMA ExceptionThrown ==
    ASSUME EventsInv, EventsInv', stack # <<>> => Top.op # "emit",
           events' = events, fired' = fired,
           NEW under \in Seq(Frames), EmissionsOf(under) = EmissionsOf(stack),
           Throw(under)
    PROVE  CStep
<1>1. TurnOf(stack) = 0
  BY DEF TurnOf, Top
<1>2. Contract!Abandon
  BY <1>1, ThrownEmissions DEF Contract!Abandon
<1>3. QED  BY <1>2, ContractStep

\* The program calls a method.
LEMMA ContractProgram ==
    ASSUME EventsInv, EventsInv', OnceInv, ProgramStep
    PROVE  CStep
<1>1. EmitterInv /\ stack \in Seq(Frames) /\ fired \subseteq Wrappers
      /\ fired \subseteq made /\ NoWrapper \notin fired
  BY WrappersAssumption DEF EventsInv, EmitterInv, OtherTypes, OnceInv
<1>2. ASSUME NEW t \in Types, NEW f \in Functions, NEW prepend \in BOOLEAN,
             On(t, f, prepend) \/ \E w \in Wrappers : Once(t, f, w, prepend)
      PROVE  CStep
  <2>1. Running /\ fired' = fired
    BY <1>2 DEF On, Once, CallAdd, onceVars
  <2>2. \E l \in Listeners : l.wrapper \notin fired
                             /\ AddListener(t, l, prepend, stack)
    BY <1>1, <1>2, ListenerTypes DEF On, Once, Plain, Wrapped
  <2>3. Goes(stack)
    BY <1>1, <2>2, GoesAddListener
  <2>4. QED  BY <2>1, <2>3, OtherRuns DEF Running
<1>3. ASSUME NEW t \in Types, NEW f \in Functions, Off(t, f)
      PROVE  CStep
  <2>1. Running /\ fired' = fired /\ RemoveListener(t, Plain(f), stack)
    BY <1>3 DEF Off, Call, onceVars
  <2>2. Goes(stack)
    BY <1>1, <2>1, GoesRemoveListener
  <2>3. QED  BY <2>1, <2>2, OtherRuns DEF Running
<1>4. ASSUME NEW t \in Types, RemoveAllListeners(t)
      PROVE  CStep
  <2>1. Running /\ fired' = fired /\ RemoveAllOf(t, stack)
    BY <1>4 DEF RemoveAllListeners, Call, onceVars
  <2>2. Goes(stack)
    BY <1>1, <2>1, GoesRemoveAllOf
  <2>3. QED  BY <2>1, <2>2, OtherRuns DEF Running
<1>5. ASSUME NEW t \in Types, Emit(t)
      PROVE  CStep
  <2>1. /\ Running /\ fired' = fired /\ events' = events
        /\ Throw(stack) \/ stack' = EmitOn(events, t, stack)
    BY <1>5 DEF Emit, Call, onceVars, emitterVars, wrapperVars
  <2>2. CASE Throw(stack)
    BY <1>1, <2>1, <2>2, ExceptionThrown DEF Running
  <2>3. CASE stack' = EmitOn(events, t, stack)
    <3>1. Goes(stack)
      BY <1>1, <2>1, <2>3, OpensEmitOn DEF EmitterInv, Goes, Contract!Change
    <3>2. QED  BY <2>1, <3>1, OtherRuns DEF Running
  <2>4. QED  BY <2>1, <2>2, <2>3
<1>6. ASSUME NEW t \in Types, NEW w \in Wrappers, NEW e \in Wrappers,
             PromiseOnce(t, w, e)
      PROVE  CStep
  <2> DEFINE first == [op |-> "first", wrapper |-> e]
             l == Wrapped("resolver", w)
  <2>1. /\ Running /\ fired' = fired /\ w \notin fired
        /\ AddListener(t, l, FALSE, Append(stack, first))
    BY <1>1, <1>6 DEF PromiseOnce, CallAdd
  <2>2. /\ first \in Frames /\ first.op # "emit"
        /\ l \in Listeners /\ l.wrapper = w
    BY FrameOf, ListenerTypes DEF Wrapped
  <2> HIDE DEF first, l
  <2>3. Append(stack, first) \in Seq(Frames)
        /\ EmissionsOf(Append(stack, first)) = EmissionsOf(stack)
    BY <1>1, <2>2, AppendFrames, EmissionsAppend
  <2>4. Goes(Append(stack, first))
    BY <1>1, <2>1, <2>2, <2>3, GoesAddListener
  <2>5. QED  BY <2>1, <2>3, <2>4, OtherRuns DEF Running
<1>7. CASE RemoveEverything
  <2>1. Running /\ fired' = fired
    BY <1>7 DEF RemoveEverything, Call, onceVars
  <2>2. CASE events["removeListener"] = <<>>
    <3>1. Goes(stack)
      BY <1>1, <1>7, <2>2, GoesAllGone DEF RemoveEverything
    <3>2. QED  BY <2>1, <3>1, OtherRuns DEF Running
  <2>3. CASE events["removeListener"] # <<>>
    <3>1. PICK keys \in SetToSeqs({s \in Types : events[s] # <<>>}
                                    \ {"removeListener"}) :
            stack' = Append(stack, [op |-> "clear",
                            keys |-> Append(keys, "removeListener")])
      BY <1>7, <2>3 DEF RemoveEverything
    <3>2. events' = events
      BY <1>7, <2>3 DEF RemoveEverything, emitterVars
    <3> DEFINE clear == [op |-> "clear",
                         keys |-> Append(keys, "removeListener")]
    <3>3. clear \in Frames /\ clear.op # "emit" /\ stack' = Append(stack, clear)
      BY <3>1, ClearKeys, FrameOf
    <3> HIDE DEF clear
    <3>4. Goes(stack)
      BY <1>1, <3>2, <3>3, GoesOther
    <3>5. QED  BY <2>1, <3>4, OtherRuns DEF Running
  <2>4. QED  BY <2>2, <2>3
<1>8. CASE Return \/ ThrowOne
  <2>1. /\ stack # <<>> /\ Top.op = "js" /\ fired' = fired /\ events' = events
        /\ stack' = Below \/ Throw(Below)
    BY <1>8 DEF Return, ThrowOne, onceVars, emitterVars, wrapperVars
  <2>2. Below \in Seq(Frames) /\ EmissionsOf(Below) = EmissionsOf(stack)
    BY <1>1, <2>1, BelowFrames, EmissionsBelow
  <2>3. CASE stack' = Below
    <3>1. Goes(stack)
      BY <2>1, <2>2, <2>3 DEF Goes, Opens, Contract!Change
    <3>2. QED  BY <2>1, <3>1, OtherRuns
  <2>4. CASE Throw(Below)
    BY <2>1, <2>2, <2>4, ExceptionThrown
  <2>5. QED  BY <2>1, <2>3, <2>4
<1>9. QED
  BY <1>2, <1>3, <1>4, <1>5, <1>6, <1>7, <1>8 DEF ProgramStep, Types

\* An emission is on top: it is the innermost, and has Top.rest to call.
LEMMA EmissionOnTop ==
    ASSUME EmitterInv, stack # <<>>, Top.op = "emit"
    PROVE  /\ TurnOf(stack) = Len(stack)
           /\ Contract!Innermost(TurnOf(stack), EmissionsOf(stack))
           /\ EmissionsOf(stack)[TurnOf(stack)] = Top.rest
<1>1. /\ Len(stack) \in Nat \ {0} /\ DOMAIN stack = 1..Len(stack)
      /\ Len(stack) \in DOMAIN stack /\ Top = stack[Len(stack)]
  BY BelowFrames
<1>2. TurnOf(stack) = Len(stack)
  BY <1>1 DEF TurnOf
<1>3. IsEmit(stack, Len(stack))
  BY <1>1 DEF IsEmit
<1>4. \A c \in DOMAIN EmissionsOf(stack) : c <= Len(stack)
  BY <1>1, EmissionsAre
<1>5. QED
  BY <1>1, <1>2, <1>3, <1>4, EmissionsAre DEF Contract!Innermost

LEMMA ContractCallNext ==
    ASSUME EventsInv, EventsInv', OnceInv, CallNext
    PROVE  CStep
<1> DEFINE l == Head(Top.rest)
           f == [Top EXCEPT !.rest = Tail(Top.rest)]
           under == Append(Below, f)
<1>1. /\ EmitterInv /\ stack # <<>> /\ Top.op = "emit" /\ Top.rest # <<>>
      /\ fired' = fired
  BY DEF CallNext, Resume, EventsInv, onceVars
<1>2. /\ Top.type \in Types /\ l \in Listeners
      /\ f \in Frames /\ under \in Seq(Frames)
  BY <1>1, EmitGoesOn
<1>3. EmissionsOf(under) = Contract!Called
  <2>1. TurnOf(stack) = Len(stack)
    BY <1>1, EmissionOnTop
  <2>2. QED  BY <1>1, <2>1, EmissionsCalled DEF Contract!Called
<1>4. \/ Apply(l.fn, under)
      \/ stack' = under /\ UNCHANGED emitterVars
      \/ /\ l.wrapper # NoWrapper
         /\ RemoveListener(Top.type, l,
              Append(under, [op |-> "once", listener |-> l]))
  BY DEF CallNext
<1> HIDE DEF l, under
<1>5. ASSUME Apply(l.fn, under) PROVE Goes(under)
  <2>1. l.fn \in AllFunctions  BY <1>2 DEF Listeners
  <2>2. QED  BY <1>2, <1>5, <2>1, GoesApply
<1>6. ASSUME stack' = under, UNCHANGED emitterVars PROVE Goes(under)
  BY <1>6 DEF Goes, Opens, Contract!Change, emitterVars
<1>7. ASSUME l.wrapper # NoWrapper,
             RemoveListener(Top.type, l,
               Append(under, [op |-> "once", listener |-> l]))
      PROVE  Goes(under)
  <2> DEFINE once == [op |-> "once", listener |-> l]
  <2>1. once \in Frames /\ once.op # "emit"
    BY <1>2, <1>7, FrameOf
  <2>2. RemoveListener(Top.type, l, Append(under, once))
    BY <1>7
  <2> HIDE DEF once
  <2>3. Append(under, once) \in Seq(Frames)
        /\ EmissionsOf(Append(under, once)) = EmissionsOf(under)
    BY <1>2, <2>1, AppendFrames, EmissionsAppend
  <2>4. Goes(Append(under, once))
    BY <1>1, <1>2, <2>2, <2>3, GoesRemoveListener
  <2>5. QED  BY <2>3, <2>4 DEF Goes
<1>8. Goes(under)
  BY <1>4, <1>5, <1>6, <1>7
<1>9. Contract!Deliver
  <2>1. /\ Contract!Innermost(TurnOf(stack), EmissionsOf(stack))
        /\ EmissionsOf(stack)[TurnOf(stack)] # <<>>
    BY <1>1, EmissionOnTop
  <2>2. \/ EmissionsOf(stack') = Contract!Called
        \/ Contract!Begun(Contract!Called)
    BY <1>3, <1>8 DEF Goes, Opens, Contract!Begun
  <2>3. QED  BY <2>1, <2>2 DEF Contract!Deliver
<1>10. QED
  BY <1>1, <1>8, <1>9, SpendsUnlisted, ContractStep DEF Goes

\* The listener that _addListener or once(emitter, name) was to add when
\* 'newListener' was emitted has not been called.
LEMMA StillUnfired ==
    ASSUME EventsInv, OnceInv, stack # <<>>
    PROVE  /\ Top.op = "add" => Top.listener.wrapper \notin fired
           /\ Top.op = "first" => Top.wrapper \notin fired
<1>1. /\ Len(stack) \in DOMAIN stack /\ Top = stack[Len(stack)]
      /\ Top \in Frames
  BY BelowFrames DEF EventsInv
<1>2. \A w \in Wrappers : Adds(Top, w) => w \notin fired
  BY <1>1 DEF OnceInv, Fate, Unfired
<1>3. fired \subseteq Wrappers
  BY DEF EventsInv, OtherTypes
<1>4. QED  BY <1>2, <1>3 DEF Adds

LEMMA ContractMethod ==
    ASSUME EventsInv, EventsInv', OnceInv, MethodStep
    PROVE  CStep
<1>1. EmitterInv /\ stack \in Seq(Frames)
  BY DEF EventsInv, EmitterInv
<1>2. ASSUME stack # <<>>, Top.op # "emit"
      PROVE  /\ Top \in Frames /\ Below \in Seq(Frames)
             /\ EmissionsOf(Below) = EmissionsOf(stack)
  BY <1>1, <1>2, BelowFrames, EmissionsBelow
<1>3. CASE CallNext
  BY <1>3, ContractCallNext
<1>4. CASE EmitDone
  <2>1. /\ stack # <<>> /\ Top.op = "emit" /\ Top.rest = <<>>
        /\ stack' = Below /\ events' = events /\ fired' = fired
    BY <1>4 DEF EmitDone, Resume, onceVars, emitterVars
  <2>2. Contract!Finish
    BY <1>1, <2>1, EmissionOnTop, EmissionsBelow DEF Contract!Finish
  <2>3. QED  BY <2>1, <2>2, ContractStep
<1>5. CASE Fire
  <2>1. stack # <<>> /\ Top.op = "once" /\ Apply(Top.listener.fn, Below)
    BY <1>5 DEF Fire, Resume
  <2>2. Top.listener.fn \in AllFunctions
    BY <1>2, <2>1, FrameFields DEF Listeners
  <2>3. Goes(Below)
    BY <1>2, <2>1, <2>2, GoesApply
  <2>4. QED  BY <1>2, <1>5, <2>1, <2>3, OtherRuns
<1>6. CASE Added
  <2>1. /\ stack # <<>> /\ Top.op = "add" /\ fired' = fired
        /\ Insert(Top.type, Top.listener, Top.prepend, Below)
    BY <1>6 DEF Added, Resume, onceVars
  <2>2. Top.type \in Types /\ Top.listener \in Listeners
        /\ Top.prepend \in BOOLEAN
    BY <1>2, <2>1, FrameFields
  <2>3. Goes(Below)
    BY <1>2, <2>1, <2>2, StillUnfired, GoesInsert
  <2>4. QED  BY <1>2, <2>1, <2>3, OtherRuns
<1>7. CASE PromiseSecond
  <2> DEFINE l == Wrapped("errorListener", Top.wrapper)
             second == [op |-> "second"]
  <2>1. /\ stack # <<>> /\ Top.op = "first" /\ fired' = fired
        /\ AddListener("error", l, FALSE, Append(Below, second))
    BY <1>7 DEF PromiseSecond, Resume, onceVars
  <2>2. l \in Listeners /\ l.wrapper \notin fired
    BY <1>2, <2>1, FrameFields, ListenerTypes, StillUnfired DEF Wrapped
  <2>3. second \in Frames /\ second.op # "emit"
    BY FrameOf
  <2> HIDE DEF second, l
  <2>4. Append(Below, second) \in Seq(Frames)
        /\ EmissionsOf(Append(Below, second)) = EmissionsOf(stack)
    BY <1>2, <2>1, <2>3, AppendFrames, EmissionsAppend
  <2>5. Goes(Append(Below, second))
    BY <1>1, <2>1, <2>2, <2>4, SpecialTypes, GoesAddListener
  <2>6. QED  BY <2>1, <2>4, <2>5, OtherRuns
<1>8. CASE PromiseMade \/ Settle
  <2>1. /\ stack # <<>> /\ Top.op # "emit" /\ fired' = fired
        /\ stack' = Below /\ events' = events
    BY <1>8 DEF PromiseMade, Settle, Resume, emitterVars
  <2>2. Goes(Below)
    BY <1>2, <2>1 DEF Goes, Opens, Contract!Change
  <2>3. QED  BY <1>2, <2>1, <2>2, OtherRuns
<1>9. CASE RemoveNext
  <2>1. stack # <<>> /\ Top.op = "remove" /\ fired' = fired
    BY <1>9 DEF RemoveNext, Resume, onceVars, wrapperVars
  <2> DEFINE f == [Top EXCEPT !.next = @ - 1]
  <2>2. \/ stack' = Below /\ events' = events
        \/ \E l : RemoveListener(Top.type, l, Append(Below, f))
                  /\ Top.next # 0
        \/ Throw(Below) /\ events' = events
    <3>1. 0 \notin DOMAIN events[Top.type] /\ 0 \notin DOMAIN Top.list
      <4>1. Top.type \in Types /\ Top.list \in Seq(Listeners)
        BY <1>2, <2>1, FrameFields
      <4>2. QED  BY <1>1, <4>1, LenProperties DEF EmitterInv
    <3>2. QED  BY <1>1, <1>9, <3>1, RemoveNextCases DEF emitterVars
  <2>3. CASE stack' = Below /\ events' = events
    <3>1. Goes(Below)
      BY <1>2, <2>1, <2>3 DEF Goes, Opens, Contract!Change
    <3>2. QED  BY <1>2, <2>1, <3>1, OtherRuns
  <2>4. ASSUME NEW l, RemoveListener(Top.type, l, Append(Below, f)),
               Top.next # 0
        PROVE  CStep
    <3>1. Top.type \in Types /\ Top.next \in Nat
      BY <1>2, <2>1, FrameFields
    <3>2. f \in Frames /\ f.op = "remove"
      BY <1>2, <2>1, <2>4, <3>1 DEF Frames
    <3> HIDE DEF f
    <3>3. Append(Below, f) \in Seq(Frames)
          /\ EmissionsOf(Append(Below, f)) = EmissionsOf(stack)
      BY <1>2, <2>1, <3>2, AppendFrames, EmissionsAppend
    <3>4. Goes(Append(Below, f))
      BY <1>1, <2>4, <3>1, <3>3, GoesRemoveListener
    <3>5. QED  BY <2>1, <3>3, <3>4, OtherRuns
  <2>5. CASE Throw(Below) /\ events' = events
    BY <1>2, <2>1, <2>5, ExceptionThrown
  <2>6. QED  BY <2>2, <2>3, <2>4, <2>5
<1>10. CASE ClearNext
  <2>1. stack # <<>> /\ Top.op = "clear" /\ fired' = fired
    BY <1>10 DEF ClearNext, Resume, onceVars
  <2>2. CASE Top.keys # <<>>
    <3> DEFINE f == [Top EXCEPT !.keys = Tail(Top.keys)]
    <3>1. RemoveAllOf(Head(Top.keys), Append(Below, f))
      BY <1>10, <2>2 DEF ClearNext
    <3>2. Head(Top.keys) \in Types /\ Tail(Top.keys) \in Seq(Types)
      BY <1>2, <2>1, <2>2, FrameFields, HeadTailProperties
    <3>3. f \in Frames /\ f.op = "clear"
      BY <1>2, <2>1, <3>2, ClearUpdate
    <3> HIDE DEF f
    <3>4. Append(Below, f) \in Seq(Frames)
          /\ EmissionsOf(Append(Below, f)) = EmissionsOf(stack)
      BY <1>2, <2>1, <3>3, AppendFrames, EmissionsAppend
    <3>5. Goes(Append(Below, f))
      BY <1>1, <3>1, <3>2, <3>4, GoesRemoveAllOf
    <3>6. QED  BY <2>1, <3>4, <3>5, OtherRuns
  <2>3. CASE Top.keys = <<>>
    <3>1. Goes(Below)
      BY <1>2, <1>10, <2>1, <2>3, GoesAllGone DEF ClearNext
    <3>2. QED  BY <1>2, <2>1, <3>1, OtherRuns
  <2>4. QED  BY <2>2, <2>3
<1>11. QED
  BY <1>3, <1>4, <1>5, <1>6, <1>7, <1>8, <1>9, <1>10 DEF MethodStep

LEMMA InitContract == Init => Contract!ContractInit
<1> SUFFICES ASSUME Init PROVE Contract!ContractInit
  OBVIOUS
<1>1. stack = <<>> /\ events = NoEvents /\ fired = {}
  BY DEF Init
<1>2. TurnOf(stack) = 0
  BY <1>1 DEF TurnOf
<1>3. EmissionsOf(stack) = [d \in {} |-> <<>>]
  <2>1. DOMAIN EmissionsOf(stack) = {}
    <3>1. stack \in Seq(Frames) /\ Len(stack) = 0
      BY <1>1, EmptySeq
    <3>2. DOMAIN stack = {}
      BY <3>1, LenProperties
    <3>3. QED  BY <3>2, EmissionsAre
  <2>2. EmissionsOf(stack) = [d \in DOMAIN EmissionsOf(stack) |->
                                EmissionsOf(stack)[d]]
    BY DEF EmissionsOf
  <2>3. QED  BY <2>1, <2>2
<1>4. QED  BY <1>1, <1>2, <1>3 DEF Contract!ContractInit, NoEvents

\* The emitter (events/index.js) keeps the promises of EmitterContract: every
\* emission calls its whole list in order unless an exception abandons it
\* (156), lists change by one listener at a time or are emptied, and a wrapper
\* that was called is in no list.
THEOREM EmitterRefinement == Spec => ImplementsContract
<1>1. EventsInv /\ EventsInv' /\ OnceInv /\ [Next]_vars => CStep
  <2> SUFFICES ASSUME EventsInv, EventsInv', OnceInv, [Next]_vars
               PROVE  CStep
    OBVIOUS
  <2>1. CASE UNCHANGED vars
    BY <2>1 DEF vars, CStep, Contract!contractVars
  <2>2. QED
    BY <2>1, ContractProgram, ContractMethod DEF Next, Idle
<1>2. QED
  BY <1>1, InitContract, EventsInvariance, OnceInvariance, PTL
     DEF Spec, CStep, ImplementsContract, Contract!ContractSpec
=============================================================================
