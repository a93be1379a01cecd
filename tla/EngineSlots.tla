----------------------------- MODULE EngineSlots -----------------------------
(***************************************************************************)
(* What the isolation of native calls promises to the routing layer: every *)
(* engine has one slot, a bounded number of slots is taken in the whole    *)
(* process, and a slot whose caller left before its native call returned   *)
(* stays taken until it does.                                              *)
(***************************************************************************)
EXTENDS Integers, FiniteSets

CONSTANTS
    Engine,
    MaxIsolatedCalls    \* MAX_ISOLATED_CALLS

VARIABLE slot           \* slot[e]: "free", "held" or "abandoned"

Taken == {e \in Engine : slot[e] # "free"}

Init == slot = [e \in Engine |-> "free"]

Available(e) == slot[e] = "free" /\ Cardinality(Taken) < MaxIsolatedCalls

\* A caller is admitted.
Take(e) ==
    /\ Available(e)
    /\ slot' = [slot EXCEPT ![e] = "held"]

\* The caller returns and its native call is over.
Release(e) ==
    /\ slot[e] = "held"
    /\ slot' = [slot EXCEPT ![e] = "free"]

\* The caller returns, its native call still holds the slot.
Abandon(e) ==
    /\ slot[e] = "held"
    /\ slot' = [slot EXCEPT ![e] = "abandoned"]

\* An abandoned native call returns.
ComeBack(e) ==
    /\ slot[e] = "abandoned"
    /\ slot' = [slot EXCEPT ![e] = "free"]

Next == \E e \in Engine : Take(e) \/ Release(e) \/ Abandon(e) \/ ComeBack(e)

Spec == Init /\ [][Next]_slot
=============================================================================
