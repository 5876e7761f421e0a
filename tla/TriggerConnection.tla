------------------------- MODULE TriggerConnection -------------------------
(***************************************************************************)
(* What a TriggerConnection (pkg/eventbus/common/interface.go) promises to *)
(* the trigger whose action it is given in Subscribe, whatever event bus   *)
(* is behind it: events are taken one by one, held until the dependency    *)
(* expression is true of them, and then given to the action together.  The *)
(* action uses them up.                                                    *)
(*                                                                         *)
(* A fault (a pod that dies, a connection that drops, a cache that forgets,*)
(* a failed deletion) may bring events back that were used or taken.       *)
(***************************************************************************)
EXTENDS Integers

CONSTANTS
    Deps,     \* the dependencies of the trigger
    Events    \* the events, numbered from 1 as they are published; 0 for none

VARIABLES
    expression,  \* the sets of dependencies that make the expression true
    held,        \* held[d]: the event held for dependency d, or 0
    taken,       \* <<e, d>>: event e was taken for dependency d
    used,        \* used[e][d]: how many actions had event e for dependency d
    faulty       \* a fault has happened

vars == <<expression, held, taken, used, faulty>>

None == [d \in Deps |-> 0]
Received(d) == {x \in Deps : held[x] # 0} \cup {d}

Init ==
    /\ expression \in SUBSET SUBSET Deps
    /\ held = None
    /\ taken = {}
    /\ used = [e \in Events |-> [d \in Deps |-> 0]]
    /\ faulty = FALSE

\* A dependency takes its events in order, each one once: a redelivered event
\* is recognised, and never replaces a newer one.
Take(d, e) ==
    /\ faulty \/ \A x \in Events : <<x, d>> \in taken => x < e
    /\ taken' = taken \cup {<<e, d>>}
    /\ UNCHANGED <<expression, faulty>>

\* The expression is still false: the event replaces an earlier one.
Hold(d, e) ==
    /\ Take(d, e)
    /\ Received(d) \notin expression
    /\ held' = [held EXCEPT ![d] = e]
    /\ UNCHANGED used

\* The event makes the expression true: the action gets it and those held.
Fire(d, e) ==
    /\ Take(d, e)
    /\ Received(d) \in expression
    /\ LET event == [held EXCEPT ![d] = e]
       IN  used' = [x \in Events |-> [y \in Deps |->
                      IF event[y] = x THEN used[x][y] + 1 ELSE used[x][y]]]
    /\ held' = None

\* A conditions reset discards what is held.
Forget(d) ==
    /\ held' = [held EXCEPT ![d] = 0]
    /\ UNCHANGED <<expression, taken, used, faulty>>

\* A fault, or one of its consequences: used events are held again.
Lapse ==
    /\ faulty'
    /\ held' \in [Deps -> Events \cup {0}]
    /\ \A d \in Deps : held'[d] # held[d] => held'[d] = 0 \/ used[held'[d]][d] > 0
    /\ UNCHANGED <<expression, taken, used>>

Next ==
    \/ \E d \in Deps, e \in Events : Hold(d, e) \/ Fire(d, e)
    \/ \E d \in Deps : Forget(d)
    \/ Lapse

Spec == Init /\ [][Next]_vars

\* Without a fault an event takes part in at most one action per dependency.
AtMostOnce == ~faulty => \A e \in Events : \A d \in Deps : used[e][d] <= 1
=============================================================================
