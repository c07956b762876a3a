--------------------------- MODULE EmitterContract ---------------------------
(***************************************************************************)
(* What an EventEmitter promises to the code that uses it, without the     *)
(* methods, their recursion and the order in which they do things.         *)
(*                                                                         *)
(* Lists of listeners change by one listener at a time, or are emptied.    *)
(* An emission begins with the whole list of a type, calls it from the     *)
(* front, and nothing done meanwhile to the lists changes what it still    *)
(* has to call.  Emissions nest: each has a depth, the innermost the       *)
(* greatest.  One whose turn it is calls its next listener, or ends when   *)
(* none is left; only an exception in what it has called abandons it.      *)
(* A wrapper of once that is spent is in no list any more.                 *)
(***************************************************************************)
EXTENDS Integers, Sequences, SequencesExt

CONSTANTS Types, Listeners

VARIABLES
    registered,  \* the listeners of every type, in order
    emissions,   \* what the emission of every depth has still to call
    turn,        \* the depth of the emission that goes on; 0: other code runs
    spent        \* the wrappers whose listener has been called

contractVars == <<registered, emissions, turn, spent>>

ContractInit ==
    /\ registered = [t \in Types |-> <<>>]
    /\ emissions = [d \in {} |-> <<>>] /\ turn = 0 /\ spent = {}

IsSpent(l) == l.wrapper \in spent

\* A listener is added at either end of its list, unless it is spent.
Register ==
    \E t \in Types, l \in Listeners :
        /\ ~IsSpent(l)
        /\ registered' \in {[registered EXCEPT ![t] = Append(@, l)],
                            [registered EXCEPT ![t] = <<l>> \o @]}

Unregister ==
    \E t \in Types : \E i \in DOMAIN registered[t] :
        registered' = [registered EXCEPT ![t] = RemoveAt(@, i)]

\* The list of a type is emptied, or those of all types.
Empty ==
    \/ \E t \in Types : registered' = [registered EXCEPT ![t] = <<>>]
    \/ registered' = [t \in Types |-> <<>>]

Change == Register \/ Unregister \/ Empty \/ UNCHANGED registered

\* The emissions of some depths.
Only(es, ds) == [d \in ds |-> es[d]]

\* A new emission begins inside all others, with the list as it is now.
Begun(es) ==
    \E d \in DOMAIN emissions', t \in Types :
        /\ \A c \in DOMAIN es : c < d
        /\ DOMAIN emissions' = DOMAIN es \cup {d}
        /\ Only(emissions', DOMAIN es) = es
        /\ registered'[t] # <<>> /\ emissions'[d] = registered'[t]

Innermost(d, es) == d \in DOMAIN es /\ \A c \in DOMAIN es : c <= d

\* The emission whose turn it is calls its next listener.
Called == [emissions EXCEPT ![turn] = Tail(@)]

Deliver ==
    /\ Innermost(turn, emissions) /\ emissions[turn] # <<>>
    /\ emissions' = Called \/ Begun(Called)

\* Other code runs.
Run == turn = 0 /\ (UNCHANGED emissions \/ Begun(emissions))

\* The emission whose turn it is has called everything.
Finish ==
    /\ Innermost(turn, emissions) /\ emissions[turn] = <<>>
    /\ emissions' = Only(emissions, DOMAIN emissions \ {turn})

\* An exception is caught outside any number of emissions.
Abandon ==
    /\ turn = 0 /\ turn' = 0
    /\ \E kept \in SUBSET DOMAIN emissions :
         /\ \A c \in kept, d \in DOMAIN emissions : d < c => d \in kept
         /\ emissions' = Only(emissions, kept)

\* A listener that is spent was no longer in any list.
Spend ==
    /\ spent \subseteq spent'
    /\ \A t \in Types : \A i \in DOMAIN registered[t] :
         registered[t][i].wrapper \notin spent'

ContractNext ==
    /\ \/ Change /\ Spend /\ (Deliver \/ Run)
       \/ UNCHANGED <<registered, spent>> /\ (Finish \/ Abandon)
    /\ turn' = 0 \/ Innermost(turn', emissions')

ContractSpec == ContractInit /\ [][ContractNext]_contractVars
=============================================================================
