-------------------------- MODULE TriggerExecution --------------------------
(***************************************************************************)
(* What a sensor does once a trigger's conditions are met                  *)
(* (pkg/sensors/listener.go, actionFunc to triggerOne): with atLeastOnce   *)
(* the action is executed, retried and dead-lettered before the message is *)
(* acknowledged; without it a goroutine is started and nobody waits.       *)
(*                                                                         *)
(* The event bus is reduced to what matters here: messages come one at a   *)
(* time, one that a pod has not acknowledged when it dies comes again.     *)
(***************************************************************************)
EXTENDS Integers, FiniteSets

CONSTANTS
    Msgs,        \* messages that meet the trigger's conditions
    Triggers,    \* trigger specifications
    MaxCrashes   \* bound: how often the pod dies

\* retryStrategy: its Steps, or that there is none, or that its duration,
\* factor or jitter does not parse, which validation does not look at.
Strategies == [kind : {"none", "invalid", "backoff"}, steps : Int]
TriggerSpecs == [atLeastOnce : BOOLEAN, retry : Strategies,
                 dlqTrigger : BOOLEAN, dlqAtLeastOnce : BOOLEAN, dlqRetry : Strategies]

\* A dead-letter trigger needs atLeastOnce in both.
validateDlqTrigger(t) == t.dlqTrigger => t.atLeastOnce /\ t.dlqAtLeastOnce

ASSUME TriggersAssumption ==
    /\ \A t \in Triggers : t \in TriggerSpecs /\ validateDlqTrigger(t)
    /\ IsFiniteSet(Msgs) /\ MaxCrashes \in Nat

\* How often DoWithRetry calls its function before it gives up.
Steps(strategy) ==
    CASE strategy.kind = "none" -> 1
      [] strategy.kind = "invalid" -> 0
      [] strategy.kind = "backoff" -> IF strategy.steps > 0 THEN strategy.steps ELSE 5

VARIABLES
    trigger,     \* the trigger's specification, which never changes
    bus,         \* bus[m]: where message m is
    pc,          \* where the processing goroutine is
    cur,         \* the message it processes, in a set, or none
    attempt,     \* calls of the function of DoWithRetry that have failed
    background,  \* messages whose action a goroutine of its own executes
    \* Metrics of this pod: calls of actionFunc, and how actions ended
    started, triggered, retriesFailed, dlqTriggered, dlqRetriesFailed,
    \* History
    crashes,
    effects,     \* effects[m]: how often the trigger's action took place for m
    failures,    \* failures[m]: executions that failed in the last call for m
    dlqFailures, \* dlqFailures[m]: those of the dead-letter trigger
    outcome      \* outcome[m]: how the last call of actionFunc for m ended

metrics == <<started, triggered, retriesFailed, dlqTriggered, dlqRetriesFailed>>
vars == <<trigger, bus, pc, cur, attempt, background, metrics, crashes, effects,
          failures, dlqFailures, outcome>>

\* Types, and that the goroutine has a message unless it is idle.
TypeOK ==
    /\ trigger \in Triggers
    /\ bus \in [Msgs -> {"pending", "out", "acked"}]
    /\ pc \in {"idle", "trigger", "dlq", "return"}
    /\ cur \in SUBSET Msgs /\ (cur = {} <=> pc = "idle") /\ Cardinality(cur) <= 1
    /\ attempt \in Nat /\ background \in SUBSET Msgs
    /\ started \in Nat /\ triggered \in Nat /\ retriesFailed \in Nat
    /\ dlqTriggered \in Nat /\ dlqRetriesFailed \in Nat
    /\ crashes \in 0 .. MaxCrashes
    /\ effects \in [Msgs -> Nat] /\ failures \in [Msgs -> Nat] /\ dlqFailures \in [Msgs -> Nat]
    /\ outcome \in [Msgs -> {"none", "executed", "deadLettered", "failed", "forked"}]

Init ==
    /\ trigger \in Triggers
    /\ bus = [m \in Msgs |-> "pending"]
    /\ pc = "idle" /\ cur = {} /\ attempt = 0 /\ background = {}
    /\ started = 0 /\ triggered = 0 /\ retriesFailed = 0
    /\ dlqTriggered = 0 /\ dlqRetriesFailed = 0
    /\ crashes = 0
    /\ effects = [m \in Msgs |-> 0] /\ failures = [m \in Msgs |-> 0]
    /\ dlqFailures = [m \in Msgs |-> 0]
    /\ outcome = [m \in Msgs |-> "none"]
-----------------------------------------------------------------------------
(* The event bus *)

\* The conditions are met: the bus calls actionFunc.
actionFunc(m) ==
    /\ pc = "idle" /\ bus[m] = "pending"
    /\ bus' = [bus EXCEPT ![m] = "out"]
    /\ pc' = "trigger" /\ cur' = {m} /\ attempt' = 0
    /\ started' = started + 1
    /\ failures' = [failures EXCEPT ![m] = 0]
    /\ dlqFailures' = [dlqFailures EXCEPT ![m] = 0]
    /\ UNCHANGED <<trigger, background, triggered, retriesFailed, dlqTriggered,
                   dlqRetriesFailed, crashes, effects, outcome>>

\* actionFunc has returned, and the bus acknowledges the message.
acknowledge ==
    /\ pc = "return"
    /\ bus' = [m \in Msgs |-> IF m \in cur THEN "acked" ELSE bus[m]]
    /\ pc' = "idle" /\ cur' = {} /\ attempt' = 0
    /\ UNCHANGED <<trigger, background, metrics, crashes, effects, failures, dlqFailures,
                   outcome>>

\* The pod dies or is told to stop; goroutines in the background die with it.
Crash ==
    /\ crashes < MaxCrashes /\ crashes' = crashes + 1
    /\ bus' = [m \in Msgs |-> IF bus[m] = "out" THEN "pending" ELSE bus[m]]
    /\ pc' = "idle" /\ cur' = {} /\ attempt' = 0 /\ background' = {}
    /\ started' = 0 /\ triggered' = 0 /\ retriesFailed' = 0
    /\ dlqTriggered' = 0 /\ dlqRetriesFailed' = 0
    /\ UNCHANGED <<trigger, effects, failures, dlqFailures, outcome>>
-----------------------------------------------------------------------------
(* triggerOne: parameters, resource, Execute, policy.  An error before Execute
   leaves nothing behind; one of Execute or of the policy may come after the
   action took place. *)

Effect(m, e) == effects' = [effects EXCEPT ![m] = IF e THEN @ + 1 ELSE @]

\* triggerActions with atLeastOnce, called by DoWithRetry.
execute(m) ==
    /\ pc = "trigger" /\ m \in cur /\ trigger.atLeastOnce
    /\ attempt < Steps(trigger.retry)
    /\ \/ /\ Effect(m, TRUE)
          /\ triggered' = triggered + 1
          /\ outcome' = [outcome EXCEPT ![m] = "executed"]
          /\ pc' = "return" /\ UNCHANGED <<attempt, failures>>
       \/ /\ \E e \in BOOLEAN : Effect(m, e)
          /\ attempt' = attempt + 1
          /\ failures' = [failures EXCEPT ![m] = @ + 1]
          /\ UNCHANGED <<triggered, outcome, pc>>
    /\ UNCHANGED <<trigger, bus, cur, background, started, retriesFailed, dlqTriggered,
                   dlqRetriesFailed, crashes, dlqFailures>>

\* triggerActions without: the goroutine is started, and that is success.
executeInBackground(m) ==
    /\ pc = "trigger" /\ m \in cur /\ ~trigger.atLeastOnce
    /\ attempt < Steps(trigger.retry)
    /\ background' = background \cup {m}
    /\ outcome' = [outcome EXCEPT ![m] = "forked"]
    /\ pc' = "return"
    /\ UNCHANGED <<trigger, bus, cur, attempt, metrics, crashes, effects, failures, dlqFailures>>

\* Mutant: a failure in the background is not counted (argo-events#3947).
uncounted(m) ==
    /\ m \in background
    /\ \/ Effect(m, TRUE) /\ triggered' = triggered + 1 /\ UNCHANGED <<retriesFailed, failures>>
       \/ /\ \E e \in BOOLEAN : Effect(m, e)
          /\ failures' = [failures EXCEPT ![m] = @ + 1]
          /\ UNCHANGED <<triggered, retriesFailed>>
    /\ background' = background \ {m}
    /\ UNCHANGED <<trigger, bus, pc, cur, attempt, started, dlqTriggered, dlqRetriesFailed,
                   crashes, dlqFailures, outcome>>

\* The goroutine: one execution, no retry, no dead-letter trigger.
inBackground(m) ==
    /\ m \in background
    /\ \/ Effect(m, TRUE) /\ triggered' = triggered + 1 /\ UNCHANGED <<retriesFailed, failures>>
       \/ /\ \E e \in BOOLEAN : Effect(m, e)
          /\ failures' = [failures EXCEPT ![m] = @ + 1]
          /\ retriesFailed' = retriesFailed + 1
          /\ UNCHANGED triggered
    /\ background' = background \ {m}
    /\ UNCHANGED <<trigger, bus, pc, cur, attempt, started, dlqTriggered, dlqRetriesFailed,
                   crashes, dlqFailures, outcome>>

\* Mutant: the dead-letter trigger is forgotten.
giveUpAtOnce(m) ==
    /\ pc = "trigger" /\ m \in cur /\ attempt >= Steps(trigger.retry)
    /\ retriesFailed' = retriesFailed + 1
    /\ outcome' = [outcome EXCEPT ![m] = "failed"]
    /\ pc' = "return"
    /\ attempt' = 0
    /\ UNCHANGED <<trigger, bus, cur, background, started, triggered, dlqTriggered,
                   dlqRetriesFailed, crashes, effects, failures, dlqFailures>>

\* DoWithRetry returns its error: the dead-letter trigger, if there is one.
giveUp(m) ==
    /\ pc = "trigger" /\ m \in cur /\ attempt >= Steps(trigger.retry)
    /\ retriesFailed' = retriesFailed + 1
    /\ outcome' = [outcome EXCEPT ![m] = "failed"]
    /\ pc' = IF trigger.dlqTrigger THEN "dlq" ELSE "return"
    /\ attempt' = 0
    /\ UNCHANGED <<trigger, bus, cur, background, started, triggered, dlqTriggered,
                   dlqRetriesFailed, crashes, effects, failures, dlqFailures>>

executeDlq(m) ==
    /\ pc = "dlq" /\ m \in cur /\ attempt < Steps(trigger.dlqRetry)
    /\ \/ /\ dlqTriggered' = dlqTriggered + 1
          /\ outcome' = [outcome EXCEPT ![m] = "deadLettered"]
          /\ pc' = "return" /\ UNCHANGED <<attempt, dlqFailures>>
       \/ /\ attempt' = attempt + 1
          /\ dlqFailures' = [dlqFailures EXCEPT ![m] = @ + 1]
          /\ UNCHANGED <<dlqTriggered, outcome, pc>>
    /\ UNCHANGED <<trigger, bus, cur, background, started, triggered, retriesFailed,
                   dlqRetriesFailed, crashes, effects, failures>>

\* Mutant: the dead-letter trigger is called until it succeeds.
neverGiveUpDlq(m) ==
    /\ pc = "dlq" /\ m \in cur /\ attempt >= Steps(trigger.dlqRetry)
    /\ dlqRetriesFailed' = dlqRetriesFailed
    /\ attempt' = 0
    /\ UNCHANGED <<trigger, bus, pc, cur, background, started, triggered, retriesFailed,
                   dlqTriggered, crashes, effects, failures, dlqFailures, outcome>>

giveUpDlq(m) ==
    /\ pc = "dlq" /\ m \in cur /\ attempt >= Steps(trigger.dlqRetry)
    /\ dlqRetriesFailed' = dlqRetriesFailed + 1
    /\ pc' = "return" /\ attempt' = 0
    /\ UNCHANGED <<trigger, bus, cur, background, started, triggered, retriesFailed,
                   dlqTriggered, crashes, effects, failures, dlqFailures, outcome>>
-----------------------------------------------------------------------------
Process(m) ==
    \/ actionFunc(m) \/ execute(m) \/ executeInBackground(m) \/ giveUp(m)
    \/ executeDlq(m) \/ giveUpDlq(m)

Next ==
    \/ acknowledge \/ Crash
    \/ \E m \in Msgs : Process(m) \/ inBackground(m)

Spec == Init /\ [][Next]_vars

\* Fairness: goroutines run, the bus redelivers, calls of external systems
\* return (their clients have timeouts).
Fairness ==
    /\ WF_vars(acknowledge)
    /\ \A m \in Msgs : WF_vars(Process(m)) /\ WF_vars(inBackground(m))

FairSpec == Spec /\ Fairness
-----------------------------------------------------------------------------
(* Properties *)

\* With atLeastOnce a message is acknowledged only when its action was executed,
\* or has failed as often as the retry strategy allows and the dead-letter
\* trigger, if there is one, was executed or has failed as often as its own
\* allows: a pod that dies on the way leaves the message to the next.
AckedMeansExecuted ==
    \A m \in Msgs : bus[m] = "acked" /\ trigger.atLeastOnce =>
        \/ outcome[m] = "executed" /\ effects[m] > 0
        \/ /\ outcome[m] \in {"deadLettered", "failed"}
           /\ failures[m] = Steps(trigger.retry)
           /\ outcome[m] = "failed" /\ trigger.dlqTrigger
                => dlqFailures[m] = Steps(trigger.dlqRetry)

\* Every call of actionFunc that is over counts once, as triggered or as failed
\* after retries, in the foreground as in the background (docs/metrics.md; the
\* comment at listener.go:379).
CountedOnce ==
    started = triggered + retriesFailed + Cardinality(background)
              + (IF pc = "trigger" THEN 1 ELSE 0)

\* A message is not processed for ever: retries and dead-letter retries end, and
\* a crash only starts them again.
EveryMessageAcked == \A m \in Msgs : <>(bus[m] = "acked")
=============================================================================
