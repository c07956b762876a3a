------------------------------- MODULE Events --------------------------------
(***************************************************************************)
(* libs/events/index.js: one EventEmitter and a program that uses it in    *)
(* any way, also from its listeners, but for one: it does not itself       *)
(* register, remove or call the two listeners of once(emitter, name),      *)
(* which 'newListener', 'removeListener' and listeners(type) hand to it.   *)
(*                                                                         *)
(* The methods call each other and the listeners, and the listeners call   *)
(* the methods.  `stack` is what is suspended, the innermost call last; at *)
(* the bottom is the code that uses the emitter.  A frame is one of        *)
(*    "js"       a listener, or anything it calls                          *)
(*    "emit"     emit, with the rest of its copy of the listeners          *)
(*    "add"      _addListener, while 'newListener' is emitted              *)
(*    "once"     onceWrapper, while its wrapper is removed                 *)
(*    "settle"   a listener of a promise, while it removes the other one   *)
(*    "first", "second"  once(emitter, name), while it adds its listeners   *)
(*    "remove"   removeAllListeners of a type                              *)
(*    "clear"    removeAllListeners of all types                           *)
(*                                                                         *)
(* events[t] is the list of a type: empty for an absent key, one listener  *)
(* for a function, more for an array.  The arguments of events, the return *)
(* values and the warning about leaks are left out.                        *)
(***************************************************************************)
EXTENDS Integers, Sequences, FiniteSets, SequencesExt

CONSTANTS
    Names,      \* the types of events that have no meaning to the emitter
    Functions,  \* the functions the program passes as listeners
    Wrappers,   \* the wrappers onces can make (the bound)
    NoWrapper,
    MaxAdds,    \* the calls that add listeners, in a behaviour (the bound)
    MaxCalls,   \* the other calls of methods (the bound)
    MaxThrows   \* the exceptions the program throws (the bound)

ASSUME NamesAssumption ==
    /\ IsFiniteSet(Names)
    /\ Names \cap {"error", "newListener", "removeListener"} = {}
ASSUME WrappersAssumption == NoWrapper \notin Wrappers
\* The listeners that once(emitter, name) makes, 451-466, are not among the
\* functions the program passes, though it could take them from the events
\* 'newListener' and 'removeListener' (179-180, 289, 315).
ASSUME FunctionsAssumption ==
    Functions \cap {"resolver", "errorListener"} = {}
ASSUME BoundsAssumption ==
    MaxAdds \in Nat /\ MaxCalls \in Nat /\ MaxThrows \in Nat

VARIABLES
    events,       \* this._events
    eventsCount,  \* this._eventsCount
    stack,
    made,         \* the wrappers made so far
    fired,        \* those whose `fired` is true
    promise,      \* the one promise of once(emitter, name), and its name
    adds,         \* the calls made so far that add listeners
    calls,        \* the other calls
    throws,       \* the exceptions thrown so far
    ran           \* history: how often the listener of a wrapper was called

vars == <<events, eventsCount, stack, made, fired, promise, adds, calls,
          throws, ran>>
emitterVars == <<events, eventsCount>>
wrapperVars == <<made, fired, ran>>
onceVars == <<made, fired, promise, ran>>

Types == Names \cup {"error", "newListener", "removeListener"}

\* A listener: a function, or the wrapper once makes of it.
Plain(f) == [fn |-> f, wrapper |-> NoWrapper]
Wrapped(f, w) == [fn |-> f, wrapper |-> w]

\* The two listeners of a promise are functions of this module.
AllFunctions == Functions \cup {"resolver", "errorListener"}
Listeners == [fn : AllFunctions, wrapper : Wrappers \cup {NoWrapper}]

NoPromise == [state |-> "none", name |-> "error"]
NoEvents == [t \in Types |-> <<>>]

Init ==
    /\ events = NoEvents /\ eventsCount = 0
    /\ stack = <<>>
    /\ made = {} /\ fired = {} /\ promise = NoPromise
    /\ adds = 0 /\ calls = 0 /\ throws = 0
    /\ ran = [w \in Wrappers |-> 0]

Top == stack[Len(stack)]
Below == Front(stack)

\* Code of the program runs: at the bottom, or a listener.
Running == stack # <<>> => Top.op = "js"

Js == [op |-> "js"]

-----------------------------------------------------------------------------
(* Parts of the methods: each changes events, eventsCount and the stack,   *)
(* of which `under` is what is left below the call.                        *)

\* emit, of a type that does not throw: a frame with a copy of the list.
EmitOn(evs, t, under) ==
    IF evs[t] = <<>> THEN under
    ELSE Append(under, [op |-> "emit", type |-> t, rest |-> evs[t]])

\* An array leaves _events: removeAllListeners that iterate it go on with
\* what it is now.
Detached(under, t, list) ==
    [i \in DOMAIN under |->
       IF under[i].op = "remove" /\ under[i].type = t /\ under[i].live
       THEN [under[i] EXCEPT !.live = FALSE, !.list = list]
       ELSE under[i]]

AllDetached(under) ==
    [i \in DOMAIN under |->
       IF under[i].op = "remove" /\ under[i].live
       THEN [under[i] EXCEPT !.live = FALSE, !.list = events[under[i].type]]
       ELSE under[i]]

\* A listener is registered: iterations of its type are no longer alone.
Grown(under, t) ==
    [i \in DOMAIN under |->
       IF under[i].op = "remove" /\ under[i].type = t
       THEN [under[i] EXCEPT !.grown = TRUE] ELSE under[i]]

\* The end of _addListener, with _events read again.
Insert(t, l, prepend, under) ==
    /\ events' = [events EXCEPT ![t] =
                    IF prepend THEN <<l>> \o @ ELSE Append(@, l)]
    /\ eventsCount' = IF events[t] = <<>> THEN eventsCount + 1 ELSE eventsCount
    /\ stack' = Grown(under, t)

\* _addListener: 'newListener' is emitted before the listener is added.
AddListener(t, l, prepend, under) ==
    IF events["newListener"] = <<>>
    THEN Insert(t, l, prepend, under)
    ELSE /\ stack' = EmitOn(events, "newListener",
                       Append(under, [op |-> "add", type |-> t, listener |-> l,
                                      prepend |-> prepend]))
         /\ UNCHANGED emitterVars

\* The listener of a list that removeListener(type, l) means: l itself, or a
\* wrapper of l.
Matches(e, l) == e = l \/ Plain(e.fn) = l

\* The last listener of a list that is meant: its index.
IsLastMatch(last, list, l) ==
    /\ Matches(list[last], l)
    /\ \A i \in DOMAIN list : Matches(list[i], l) => i <= last

\* Mutant: emit has no copy of its own.
RemoveListenerFromEmits(t, l, under) ==
    LET list == events[t]
    IN  IF ~\E i \in DOMAIN list : Matches(list[i], l)
        THEN stack' = under /\ UNCHANGED emitterVars
        ELSE \E last \in DOMAIN list :
               LET left == RemoveAt(list, last)
                   shrunk ==
                     [i \in DOMAIN under |->
                        IF under[i].op = "emit" /\ under[i].type = t
                        THEN [under[i] EXCEPT !.rest =
                                SelectSeq(@, LAMBDA e : e # list[last])]
                        ELSE under[i]]
               IN  /\ IsLastMatch(last, list, l)
                   /\ events' = [events EXCEPT ![t] = left]
                   /\ eventsCount' = IF left = <<>> THEN eventsCount - 1
                                     ELSE eventsCount
                   /\ stack' = EmitOn(events', "removeListener", shrunk)

\* removeListener: the last match goes.  The last type leaves a new _events
\* and no event; else 'removeListener' is emitted at the end.
RemoveListener(t, l, under) ==
    LET list == events[t]
    IN  IF ~\E i \in DOMAIN list : Matches(list[i], l)
        THEN stack' = under /\ UNCHANGED emitterVars
        ELSE \E last \in DOMAIN list :
               LET left == RemoveAt(list, last)
               IN  /\ IsLastMatch(last, list, l)
                   /\ events' = [events EXCEPT ![t] = left]
                   /\ eventsCount' = IF left = <<>> THEN eventsCount - 1
                                     ELSE eventsCount
                   /\ stack' = EmitOn(events', "removeListener",
                                 IF Len(left) = 1
                                 THEN Detached(under, t, left) ELSE under)

\* once(emitter, name), which adds its listeners.
Making(f) == f.op \in {"first", "second"}

\* An exception goes to the code that catches it: a listener's, or the bottom.
\* None passes the executor of a promise: its promise is rejected, and once
\* returns it to its caller.
Throw(under) ==
    \E j \in {0} \cup {i \in DOMAIN under : under[i].op = "js"} :
        LET left == {i \in DOMAIN under : i > j /\ Making(under[i])}
        IN  /\ left \subseteq {j + 1}
            /\ stack' = SubSeq(under, 1, j)
            /\ promise' = IF left # {} /\ promise.state = "making"
                          THEN [promise EXCEPT !.state = "thrown"]
                          ELSE promise

-----------------------------------------------------------------------------
(* The program calls a method *)

Call == /\ Running /\ calls < MaxCalls
        /\ calls' = calls + 1 /\ UNCHANGED <<adds, throws>>

CallAdd == /\ Running /\ adds < MaxAdds
           /\ adds' = adds + 1 /\ UNCHANGED <<calls, throws>>

\* on, addListener, prependListener
On(t, f, prepend) ==
    /\ CallAdd
    /\ AddListener(t, Plain(f), prepend, stack)
    /\ UNCHANGED onceVars

\* once, prependOnceListener: with a new wrapper
Once(t, f, w, prepend) ==
    /\ CallAdd /\ w \notin made
    /\ made' = made \cup {w}
    /\ AddListener(t, Wrapped(f, w), prepend, stack)
    /\ UNCHANGED <<fired, promise, ran>>

\* off, removeListener
Off(t, f) ==
    /\ Call
    /\ RemoveListener(t, Plain(f), stack)
    /\ UNCHANGED onceVars

\* emit: an 'error' that has no listener is thrown.
Emit(t) ==
    /\ Call
    /\ IF t = "error" /\ events[t] = <<>>
       THEN Throw(stack)
       ELSE stack' = EmitOn(events, t, stack) /\ UNCHANGED promise
    /\ UNCHANGED <<emitterVars, wrapperVars>>

\* Mutants: uncounts a type that is absent; forgets the last listener.
RemoveAllOfUnchecked(t, under) ==
    IF events["removeListener"] = <<>>
    THEN /\ events' = [events EXCEPT ![t] = <<>>]
         /\ eventsCount' = eventsCount - 1
         /\ stack' = Detached(under, t, events[t])
    ELSE /\ stack' = IF events[t] = <<>> THEN under
                     ELSE Append(under,
                            [op |-> "remove", type |-> t,
                             next |-> Len(events[t]),
                             live |-> Len(events[t]) > 1,
                             list |-> events[t], grown |-> FALSE])
         /\ UNCHANGED emitterVars

RemoveAllOfButLast(t, under) ==
    IF events["removeListener"] = <<>>
    THEN /\ events' = [events EXCEPT ![t] = <<>>]
         /\ eventsCount' = IF events[t] = <<>> THEN eventsCount
                           ELSE eventsCount - 1
         /\ stack' = Detached(under, t, events[t])
    ELSE /\ stack' = IF events[t] = <<>> THEN under
                     ELSE Append(under,
                            [op |-> "remove", type |-> t,
                             next |-> Len(events[t]) - 1,
                             live |-> Len(events[t]) > 1,
                             list |-> events[t], grown |-> FALSE])
         /\ UNCHANGED emitterVars

\* removeAllListeners(type): at once when nobody hears 'removeListener'.
RemoveAllOf(t, under) ==
    IF events["removeListener"] = <<>>
    THEN /\ events' = [events EXCEPT ![t] = <<>>]
         /\ eventsCount' = IF events[t] = <<>> THEN eventsCount
                           ELSE eventsCount - 1
         /\ stack' = Detached(under, t, events[t])
    ELSE /\ stack' = IF events[t] = <<>> THEN under
                     ELSE Append(under,
                            [op |-> "remove", type |-> t,
                             next |-> Len(events[t]),
                             live |-> Len(events[t]) > 1,
                             list |-> events[t], grown |-> FALSE])
         /\ UNCHANGED emitterVars

RemoveAllListeners(t) ==
    /\ Call
    /\ RemoveAllOf(t, stack)
    /\ UNCHANGED onceVars

\* removeAllListeners(): the keys first, 'removeListener' last.
RemoveEverything ==
    /\ Call
    /\ IF events["removeListener"] = <<>>
       THEN /\ events' = NoEvents /\ eventsCount' = 0
            /\ stack' = AllDetached(stack)
       ELSE /\ \E keys \in SetToSeqs({t \in Types : events[t] # <<>>}
                                       \ {"removeListener"}) :
                 stack' = Append(stack, [op |-> "clear",
                                 keys |-> Append(keys, "removeListener")])
            /\ UNCHANGED emitterVars
    /\ UNCHANGED onceVars

\* once(emitter, name): the promise and its first listener, with w; e is for
\* the second.
PromiseOnce(t, w, e) ==
    /\ CallAdd /\ promise = NoPromise /\ w # e /\ {w, e} \cap made = {}
    /\ promise' = [state |-> "making", name |-> t]
    /\ made' = made \cup {w, e}
    /\ AddListener(t, Wrapped("resolver", w), FALSE,
                   Append(stack, [op |-> "first", wrapper |-> e]))
    /\ UNCHANGED <<fired, ran>>

\* The running listener returns, or throws, and somebody catches it.
Return ==
    /\ stack # <<>> /\ Top.op = "js"
    /\ stack' = Below
    /\ UNCHANGED <<emitterVars, onceVars, adds, calls, throws>>

ThrowOne ==
    /\ stack # <<>> /\ Top.op = "js" /\ throws < MaxThrows
    /\ throws' = throws + 1
    /\ Throw(Below)
    /\ UNCHANGED <<emitterVars, wrapperVars, adds, calls>>

-----------------------------------------------------------------------------
(* The methods go on *)

\* Mutant: the promise keeps its listener on 'error'.
ApplyForgets(f, under) ==
    \/ /\ f \in Functions
       /\ stack' = Append(under, Js) /\ UNCHANGED emitterVars
    \/ /\ f = "resolver"
       /\ stack' = Append(under, [op |-> "settle"]) /\ UNCHANGED emitterVars
    \/ /\ f = "errorListener"
       /\ RemoveListener(promise.name, Plain("resolver"),
                         Append(under, [op |-> "settle"]))

\* A function is called: code of the program, or a listener of the promise,
\* which removes the other one and then settles.
Apply(f, under) ==
    \/ /\ f \in Functions
       /\ stack' = Append(under, Js) /\ UNCHANGED emitterVars
    \/ /\ f = "resolver"
       /\ RemoveListener("error", Plain("errorListener"),
                         Append(under, [op |-> "settle"]))
    \/ /\ f = "errorListener"
       /\ RemoveListener(promise.name, Plain("resolver"),
                         Append(under, [op |-> "settle"]))

\* The top frame has this op, and goes on.
Resume(op) == stack # <<>> /\ Top.op = op /\ UNCHANGED <<adds, calls, throws>>

\* Mutant: does not look at `fired`.
CallNextUnchecked ==
    /\ Resume("emit") /\ Top.rest # <<>>
    /\ LET l == Head(Top.rest)
           under == Append(Below, [Top EXCEPT !.rest = Tail(@)])
       IN  IF l.wrapper = NoWrapper
           THEN Apply(l.fn, under)
           ELSE RemoveListener(Top.type, l,
                  Append(under, [op |-> "once", listener |-> l]))
    /\ UNCHANGED onceVars

\* emit calls the next listener of its copy; a wrapper that has not fired
\* removes itself first.
CallNext ==
    /\ Resume("emit") /\ Top.rest # <<>>
    /\ LET l == Head(Top.rest)
           under == Append(Below, [Top EXCEPT !.rest = Tail(@)])
       IN  IF l.wrapper = NoWrapper
           THEN Apply(l.fn, under)
           ELSE IF l.wrapper \in fired
           THEN stack' = under /\ UNCHANGED emitterVars
           ELSE RemoveListener(Top.type, l,
                  Append(under, [op |-> "once", listener |-> l]))
    /\ UNCHANGED onceVars

EmitDone ==
    /\ Resume("emit") /\ Top.rest = <<>>
    /\ stack' = Below
    /\ UNCHANGED <<emitterVars, onceVars>>

\* onceWrapper, its wrapper removed: fired, then the listener.
Fire ==
    /\ Resume("once")
    /\ fired' = fired \cup {Top.listener.wrapper}
    /\ ran' = [ran EXCEPT ![Top.listener.wrapper] = @ + 1]
    /\ Apply(Top.listener.fn, Below)
    /\ UNCHANGED <<made, promise>>

\* _addListener, 'newListener' emitted.
Added ==
    /\ Resume("add")
    /\ Insert(Top.type, Top.listener, Top.prepend, Below)
    /\ UNCHANGED onceVars

\* The second listener of the promise, which is on 'error'.
PromiseSecond ==
    /\ Resume("first") /\ promise.name # "error"
    /\ AddListener("error", Wrapped("errorListener", Top.wrapper), FALSE,
                   Append(Below, [op |-> "second"]))
    /\ UNCHANGED onceVars

\* once(emitter, name) returns the promise; it may have settled before.
PromiseMade ==
    /\ Resume(IF promise.name = "error" THEN "first" ELSE "second")
    /\ stack' = Below
    /\ promise' = IF promise.state = "making"
                  THEN [promise EXCEPT !.state = "pending"] ELSE promise
    /\ UNCHANGED <<emitterVars, made, fired, ran>>

\* The promise is resolved or rejected, the first time it matters.
Settle ==
    /\ Resume("settle")
    /\ stack' = Below
    /\ promise' = CASE promise.state = "making" ->
                         [promise EXCEPT !.state = "early"]
                    [] promise.state = "pending" ->
                         [promise EXCEPT !.state = "settled"]
                    [] OTHER -> promise
    /\ UNCHANGED <<emitterVars, made, fired, ran>>

\* The loop of removeAllListeners(type), from the last listener to the first,
\* over the array that the listeners of 'removeListener' change.
RemoveNext ==
    /\ Resume("remove")
    /\ LET array == IF Top.live THEN events[Top.type] ELSE Top.list
       IN  CASE Top.next = 0 ->
                  stack' = Below /\ UNCHANGED <<emitterVars, promise>>
             [] Top.next \in DOMAIN array ->
                  /\ RemoveListener(Top.type, array[Top.next],
                                    Append(Below, [Top EXCEPT !.next = @ - 1]))
                  /\ UNCHANGED promise
             [] Top.next > Len(array) -> Throw(Below) /\ UNCHANGED emitterVars
    /\ UNCHANGED wrapperVars

\* Mutant: the new _events has the old count.
ClearNextKeepsCount ==
    /\ Resume("clear")
    /\ IF Top.keys # <<>>
       THEN RemoveAllOf(Head(Top.keys),
                        Append(Below, [Top EXCEPT !.keys = Tail(@)]))
       ELSE /\ events' = NoEvents /\ UNCHANGED eventsCount
            /\ stack' = AllDetached(Below)
    /\ UNCHANGED onceVars

\* removeAllListeners(): the next key, and at the end a new _events.
ClearNext ==
    /\ Resume("clear")
    /\ IF Top.keys # <<>>
       THEN RemoveAllOf(Head(Top.keys),
                        Append(Below, [Top EXCEPT !.keys = Tail(@)]))
       ELSE /\ events' = NoEvents /\ eventsCount' = 0
            /\ stack' = AllDetached(Below)
    /\ UNCHANGED onceVars

-----------------------------------------------------------------------------
\* The program leaves it to the emitter to emit 'newListener' and
\* 'removeListener'.
ProgramStep ==
    \/ \E t \in Types, f \in Functions, prepend \in BOOLEAN :
         On(t, f, prepend) \/ \E w \in Wrappers : Once(t, f, w, prepend)
    \/ \E t \in Types, f \in Functions : Off(t, f)
    \/ \E t \in Types : RemoveAllListeners(t)
    \/ \E t \in Names \cup {"error"} :
         Emit(t) \/ \E w, e \in Wrappers : PromiseOnce(t, w, e)
    \/ RemoveEverything
    \/ Return
    \/ ThrowOne

MethodStep ==
    \/ CallNext \/ EmitDone \/ Fire \/ Added
    \/ PromiseSecond \/ PromiseMade \/ Settle
    \/ RemoveNext \/ ClearNext

\* No listener runs, and the program may leave the emitter alone.
Idle == stack = <<>> /\ UNCHANGED vars

Next == ProgramStep \/ MethodStep \/ Idle

Spec == Init /\ [][Next]_vars
-----------------------------------------------------------------------------
(* Properties *)

Frames ==
         [op : {"js", "settle", "second"}]
    \cup [op : {"first"}, wrapper : Wrappers]
    \cup [op : {"emit"}, type : Types, rest : Seq(Listeners)]
    \cup [op : {"add"}, type : Types, listener : Listeners, prepend : BOOLEAN]
    \cup [op : {"once"}, listener : {l \in Listeners : l.wrapper # NoWrapper}]
    \cup [op : {"remove"}, type : Types, next : Nat, live : BOOLEAN,
          list : Seq(Listeners), grown : BOOLEAN]
    \cup [op : {"clear"}, keys : Seq(Types)]

\* "thrown": once threw, and rejected it; "early": settled while once ran.
Promises ==
    [state : {"none", "making", "thrown", "early", "pending", "settled"},
     name : Types]

\* Types of the state.
TypeOK ==
    /\ events \in [Types -> Seq(Listeners)]
    /\ eventsCount \in Nat
    /\ stack \in Seq(Frames)
    /\ made \subseteq Wrappers /\ fired \subseteq Wrappers
    /\ promise \in Promises
    /\ adds \in 0..MaxAdds /\ calls \in 0..MaxCalls /\ throws \in 0..MaxThrows
    /\ ran \in [Wrappers -> Nat]

\* _eventsCount, which decides when _events is replaced (284, 337) and what
\* eventNames returns (425), is the number of types with listeners, wherever
\* listeners of 'newListener' and 'removeListener' change the lists.
CountIsExact ==
    eventsCount = Cardinality({t \in Types : events[t] # <<>>})

\* The listener of a once runs once, although every copy that an emit took
\* before holds its wrapper (238), which is then in no list any more.
OnceRunsOnce ==
    /\ \A w \in Wrappers : ran[w] <= 1
    /\ \A t \in Types : \A i \in DOMAIN events[t] :
         events[t][i].wrapper \notin fired

\* removeAllListeners(type) that returns leaves none of its listeners, unless
\* one was added under it; if its array shrinks too far under it, it throws.
NoneAreLeft ==
    stack # <<>> /\ Top.op = "remove" /\ Top.next = 0 /\ ~Top.grown =>
        events[Top.type] = <<>>

\* A promise that settles after once(emitter, name) has returned leaves no
\* listener behind, on its name or on 'error'; one that settles while once
\* runs, which then adds its second listener (461), leaves that one at most.
SettledLeavesNothing ==
    promise.state \in {"settled", "early"} =>
        \A t \in Types : \A i \in DOMAIN events[t] :
            \/ events[t][i].fn \in Functions
            \/ /\ promise.state = "early" /\ t = "error"
               /\ events[t][i].fn = "errorListener"

\* What the emissions on a stack have still to call, and the one on top.
EmissionsOf(stk) ==
    [d \in {d \in DOMAIN stk : stk[d].op = "emit"} |-> stk[d].rest]

TurnOf(stk) ==
    IF stk # <<>> /\ stk[Len(stk)].op = "emit" THEN Len(stk) ELSE 0

Contract == INSTANCE EmitterContract
            WITH registered <- events, emissions <- EmissionsOf(stack),
                 turn <- TurnOf(stack), spent <- fired

\* Every listener of the list an emit began with is called, in order, unless
\* one throws, whatever they do to the lists (156); see EmitterContract.
ImplementsContract == Contract!ContractSpec
=============================================================================
