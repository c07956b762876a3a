---------------------------- MODULE AsyncContract ----------------------------
(***************************************************************************)
(* What the runtime promises to a JavaScript program about asynchronous    *)
(* requests, with no ring, no kernel and no counter:                       *)
(*   - requests are made only by running JavaScript, and its callbacks run *)
(*     to completion, one at a time, never inside the main script;         *)
(*   - one callback per request, after it was made; a listener is asked    *)
(*     again after each of its callbacks;                                  *)
(*   - the process ends by itself only when nothing is outstanding.        *)
(***************************************************************************)
CONSTANT Requests

VARIABLES
    status,    \* "main": the main script runs; "loop"; "done"; "broken"
    st,        \* every request: "idle", "outstanding" or "calling"
    listener   \* the requests that are asked again for ever

contractVars == <<status, st, listener>>

ContractTypeOK ==
    /\ status \in {"main", "loop", "done", "broken"}
    /\ st \in [Requests -> {"idle", "outstanding", "calling"}]
    /\ listener \subseteq Requests

Calling == {r \in Requests : st[r] = "calling"}

ContractInit ==
    /\ status = "main"
    /\ st = [r \in Requests |-> "idle"]
    /\ listener = {}

\* Running JavaScript makes a request.
Issue(r) ==
    /\ status = "main" \/ (status = "loop" /\ Calling # {})
    /\ st[r] = "idle"
    /\ st' = [st EXCEPT ![r] = "outstanding"]
    /\ listener' \in {listener, listener \cup {r}}
    /\ UNCHANGED status

\* The main script ends, the loop begins.
EnterLoop ==
    /\ status = "main"
    /\ status' = "loop"
    /\ UNCHANGED <<st, listener>>

\* The callback of r begins.
Dispatch(r) ==
    /\ status = "loop" /\ Calling = {} /\ st[r] = "outstanding"
    /\ st' = [st EXCEPT ![r] = "calling"]
    /\ UNCHANGED <<status, listener>>

\* The callback of r ends.
Finish(r) ==
    /\ status = "loop" /\ st[r] = "calling"
    /\ st' = [st EXCEPT ![r] = IF r \in listener THEN "outstanding" ELSE "idle"]
    /\ UNCHANGED <<status, listener>>

\* The loop ends by itself.
Exit ==
    /\ status = "loop"
    /\ \A r \in Requests : st[r] = "idle"
    /\ status' = "done"
    /\ UNCHANGED <<st, listener>>

\* The process is ended from JavaScript, or crashes.
Break ==
    /\ status \in {"main", "loop"}
    /\ status' = "broken"
    /\ UNCHANGED <<st, listener>>

ContractNext ==
    \/ EnterLoop
    \/ Exit
    \/ Break
    \/ \E r \in Requests : Issue(r) \/ Dispatch(r) \/ Finish(r)

ContractSpec == ContractInit /\ [][ContractNext]_contractVars
=============================================================================
