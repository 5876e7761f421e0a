------------------------ MODULE JetStreamRefinement ------------------------
(***************************************************************************)
(* The JetStream trigger connection implements TriggerConnection.  What it *)
(* holds is in the K/V store; between an action and the end of             *)
(* clearAllDependencies the entries still there count as gone, unless the  *)
(* loop ends early and they are back.                                      *)
(***************************************************************************)
EXTENDS JetStreamTrigger

\* The faults after which used events may come back.  A failed get or put
\* loses an event, a failed AckSync is absorbed by the cache of event IDs.
Forgetful == {"crash", "disconnect", "evict", "delete"}

heldEvents == [d \in Deps |-> IF pc = "clear" /\ key <= d THEN 0 ELSE kv[d]]

Abstract == INSTANCE TriggerConnection WITH
    Events <- Msgs,
    expression <- trigger.expression,
    held <- heldEvents,
    taken <- settled,
    faulty <- happened \cap Forgetful # {}

\* Every step of the pod, the server and the faults is one that a trigger
\* connection may take: the action runs when the expression becomes true, with
\* the latest events, and uses them up, also while acknowledgements get lost,
\* requests fail and messages are redelivered.
ImplementsTriggerConnection == Abstract!Spec
=============================================================================
