----------------------- MODULE TriggerExecutionProofs -----------------------
(***************************************************************************)
(* What module TriggerExecution promises, for any set of messages, any     *)
(* retry strategies and any number of crashes.                             *)
(***************************************************************************)
EXTENDS TriggerExecution, FiniteSetTheorems, TLAPS

\* The message being processed is one, and the bus waits for it; a goroutine
\* in the background has one that is acknowledged, or about to be.
Control ==
    /\ \A m, n \in cur : m = n
    /\ \A m \in cur : bus[m] = "out"
    /\ \A m \in background : bus[m] = "acked" \/ (pc = "return" /\ m \in cur)

\* What an acknowledgement stands for.
Justified(m) ==
    \/ outcome[m] = "executed" /\ effects[m] > 0
    \/ /\ outcome[m] \in {"deadLettered", "failed"} /\ failures[m] = Steps(trigger.retry)
       /\ outcome[m] = "failed" /\ trigger.dlqTrigger
            => dlqFailures[m] = Steps(trigger.dlqRetry)

\* How far the message has come at each place of actionFunc.
Progress ==
    trigger.atLeastOnce =>
        /\ background = {}
        /\ pc = "trigger" => \A m \in cur :
             failures[m] = attempt /\ attempt <= Steps(trigger.retry) /\ dlqFailures[m] = 0
        /\ pc = "dlq" => \A m \in cur :
             /\ outcome[m] = "failed" /\ failures[m] = Steps(trigger.retry)
             /\ dlqFailures[m] = attempt /\ attempt <= Steps(trigger.dlqRetry)
        /\ pc = "return" => \A m \in cur : Justified(m)
        /\ \A m \in Msgs : bus[m] = "acked" => Justified(m)

\* Steps is a number of calls.
LEMMA StepsNat == \A t \in Triggers : Steps(t.retry) \in Nat /\ Steps(t.dlqRetry) \in Nat
  <1>1. \A s \in Strategies : Steps(s) \in Nat
    BY DEF Strategies, Steps
  <1>2. \A t \in Triggers : t.retry \in Strategies /\ t.dlqRetry \in Strategies
    BY TriggersAssumption DEF TriggersAssumption, TriggerSpecs
  <1> QED
    BY <1>1, <1>2

\* Goroutines in the background are finitely many.
LEMMA BackgroundFinite == ASSUME TypeOK PROVE IsFiniteSet(background)
  BY TriggersAssumption, FS_Subset DEF TriggersAssumption, TypeOK

\* The types hold in the initial state.
LEMMA TypeInit == Init => TypeOK
  BY FS_EmptySet, TriggersAssumption DEF Init, TypeOK, TriggersAssumption

\* The types are kept by every step.
LEMMA TypeStep == TypeOK /\ [Next]_vars => TypeOK'
  <1> SUFFICES ASSUME TypeOK, [Next]_vars PROVE TypeOK'
    OBVIOUS
  <1> USE FS_EmptySet DEF TypeOK, metrics
  <1>1. CASE acknowledge
    BY <1>1 DEF acknowledge
  <1>2. CASE Crash
    BY <1>2, TriggersAssumption DEF Crash, TriggersAssumption
  <1>3. ASSUME NEW m \in Msgs, actionFunc(m) PROVE TypeOK'
    <2>1. cur' \in SUBSET Msgs /\ cur' # {} /\ pc' = "trigger"
      BY <1>3 DEF actionFunc
    <2>2. Cardinality(cur') <= 1
      <3>1. Cardinality({m}) = 1
        BY FS_Singleton
      <3> QED
        BY <1>3, <3>1 DEF actionFunc
    <2> QED
      BY <1>3, <2>1, <2>2 DEF actionFunc
  <1>4. ASSUME NEW m \in Msgs, execute(m) PROVE TypeOK'
    BY <1>4 DEF execute, Effect
  <1>5. ASSUME NEW m \in Msgs, executeInBackground(m) PROVE TypeOK'
    BY <1>5 DEF executeInBackground
  <1>6. ASSUME NEW m \in Msgs, giveUp(m) PROVE TypeOK'
    BY <1>6 DEF giveUp
  <1>7. ASSUME NEW m \in Msgs, executeDlq(m) PROVE TypeOK'
    BY <1>7 DEF executeDlq
  <1>8. ASSUME NEW m \in Msgs, giveUpDlq(m) PROVE TypeOK'
    BY <1>8 DEF giveUpDlq
  <1>9. ASSUME NEW m \in Msgs, inBackground(m) PROVE TypeOK'
    BY <1>9 DEF inBackground, Effect
  <1>10. CASE UNCHANGED vars
    BY <1>10 DEF vars
  <1> QED
    BY <1>1, <1>2, <1>3, <1>4, <1>5, <1>6, <1>7, <1>8, <1>9, <1>10 DEF Next, Process

\* One message at a time, and no goroutine for the one whose conditions were
\* met just now.
LEMMA ControlStep == TypeOK /\ Control /\ [Next]_vars => Control'
  <1> SUFFICES ASSUME TypeOK, Control, [Next]_vars PROVE Control'
    OBVIOUS
  <1> USE DEF TypeOK, Control, metrics
  <1>1. CASE acknowledge
    BY <1>1 DEF acknowledge
  <1>2. CASE Crash
    BY <1>2 DEF Crash
  <1>3. ASSUME NEW m \in Msgs, actionFunc(m) PROVE Control'
    BY <1>3 DEF actionFunc
  <1>4. ASSUME NEW m \in Msgs, execute(m) PROVE Control'
    BY <1>4 DEF execute
  <1>5. ASSUME NEW m \in Msgs, executeInBackground(m) PROVE Control'
    BY <1>5 DEF executeInBackground
  <1>6. ASSUME NEW m \in Msgs, giveUp(m) PROVE Control'
    BY <1>6 DEF giveUp
  <1>7. ASSUME NEW m \in Msgs, executeDlq(m) PROVE Control'
    BY <1>7 DEF executeDlq
  <1>8. ASSUME NEW m \in Msgs, giveUpDlq(m) PROVE Control'
    BY <1>8 DEF giveUpDlq
  <1>9. ASSUME NEW m \in Msgs, inBackground(m) PROVE Control'
    BY <1>9 DEF inBackground
  <1>10. CASE UNCHANGED vars
    BY <1>10 DEF vars
  <1> QED
    BY <1>1, <1>2, <1>3, <1>4, <1>5, <1>6, <1>7, <1>8, <1>9, <1>10 DEF Next, Process

\* The counters keep up with the calls of actionFunc.
LEMMA CountStep == TypeOK /\ Control /\ CountedOnce /\ [Next]_vars => CountedOnce'
  <1> SUFFICES ASSUME TypeOK, Control, CountedOnce, [Next]_vars PROVE CountedOnce'
    OBVIOUS
  <1>0. IsFiniteSet(background) /\ Cardinality(background) \in Nat
    BY BackgroundFinite, FS_CardinalityType
  <1> USE <1>0 DEF TypeOK, CountedOnce, metrics
  <1>1. CASE acknowledge
    BY <1>1 DEF acknowledge
  <1>2. CASE Crash
    BY <1>2, FS_EmptySet DEF Crash
  <1>3. ASSUME NEW m \in Msgs, actionFunc(m) PROVE CountedOnce'
    BY <1>3 DEF actionFunc
  <1>4. ASSUME NEW m \in Msgs, execute(m) PROVE CountedOnce'
    <2>1. /\ \/ triggered' = triggered + 1 /\ pc' = "return"
             \/ triggered' = triggered /\ pc' = pc
          /\ pc = "trigger" /\ background' = background
          /\ started' = started /\ retriesFailed' = retriesFailed
      BY <1>4, Zenon DEF execute
    <2> QED
      BY <2>1
  <1>5. ASSUME NEW m \in Msgs, executeInBackground(m) PROVE CountedOnce'
    <2>1. m \notin background
      BY <1>5 DEF executeInBackground, Control
    <2>2. Cardinality(background \cup {m}) = Cardinality(background) + 1
      BY <2>1, FS_AddElement
    <2> QED
      BY <1>5, <2>2 DEF executeInBackground
  <1>6. ASSUME NEW m \in Msgs, giveUp(m) PROVE CountedOnce'
    BY <1>6 DEF giveUp
  <1>7. ASSUME NEW m \in Msgs, executeDlq(m) PROVE CountedOnce'
    BY <1>7 DEF executeDlq
  <1>8. ASSUME NEW m \in Msgs, giveUpDlq(m) PROVE CountedOnce'
    BY <1>8 DEF giveUpDlq
  <1>9. ASSUME NEW m \in Msgs, inBackground(m) PROVE CountedOnce'
    <2>1. Cardinality(background \ {m}) = Cardinality(background) - 1
      BY <1>9, FS_RemoveElement DEF inBackground
    <2>2. /\ \/ triggered' = triggered + 1 /\ retriesFailed' = retriesFailed
             \/ triggered' = triggered /\ retriesFailed' = retriesFailed + 1
          /\ pc' = pc /\ background' = background \ {m} /\ started' = started
      BY <1>9, Zenon DEF inBackground
    <2> QED
      BY <2>1, <2>2
  <1>10. CASE UNCHANGED vars
    BY <1>10 DEF vars
  <1> QED
    BY <1>1, <1>2, <1>3, <1>4, <1>5, <1>6, <1>7, <1>8, <1>9, <1>10 DEF Next, Process

\* The specification of the trigger never changes.
LEMMA TriggerFixed == [Next]_vars => trigger' = trigger
  <1>1. acknowledge \/ Crash \/ UNCHANGED vars => trigger' = trigger
    BY DEF acknowledge, Crash, vars
  <1>2. ASSUME NEW m \in Msgs PROVE Process(m) \/ inBackground(m) => trigger' = trigger
    <2>1. actionFunc(m) \/ executeInBackground(m) => trigger' = trigger
      BY DEF actionFunc, executeInBackground
    <2>2. execute(m) \/ giveUp(m) => trigger' = trigger
      BY DEF execute, giveUp
    <2>3. executeDlq(m) \/ giveUpDlq(m) => trigger' = trigger
      BY DEF executeDlq, giveUpDlq
    <2>4. inBackground(m) => trigger' = trigger
      BY DEF inBackground
    <2> QED
      BY <2>1, <2>2, <2>3, <2>4 DEF Process
  <1> QED
    BY <1>1, <1>2 DEF Next

\* A message moves on only with what its place asks for.
LEMMA ProgressStep == TypeOK /\ Control /\ Progress /\ [Next]_vars => Progress'
  <1> SUFFICES ASSUME TypeOK, Control, Progress, [Next]_vars, trigger.atLeastOnce,
                      trigger' = trigger
               PROVE Progress'
    <2> QED
      BY TriggerFixed DEF Progress
  <1> DEFINE steps == Steps(trigger.retry)
             dlqSteps == Steps(trigger.dlqRetry)
  <1>0. steps \in Nat /\ steps' = steps /\ dlqSteps \in Nat /\ dlqSteps' = dlqSteps
    BY StepsNat DEF TypeOK
  <1> HIDE DEF steps, dlqSteps
  <1>a. /\ background = {}
        /\ pc = "trigger" => \A m \in cur :
             failures[m] = attempt /\ attempt <= steps /\ dlqFailures[m] = 0
        /\ pc = "dlq" => \A m \in cur :
             /\ outcome[m] = "failed" /\ failures[m] = steps
             /\ dlqFailures[m] = attempt /\ attempt <= dlqSteps
        /\ pc = "return" => \A m \in cur : Justified(m)
        /\ \A m \in Msgs : bus[m] = "acked" => Justified(m)
    BY DEF Progress, steps, dlqSteps
  <1>b. Progress' <=>
        /\ background' = {}
        /\ pc' = "trigger" => \A m \in cur' :
             failures'[m] = attempt' /\ attempt' <= steps /\ dlqFailures'[m] = 0
        /\ pc' = "dlq" => \A m \in cur' :
             /\ outcome'[m] = "failed" /\ failures'[m] = steps
             /\ dlqFailures'[m] = attempt' /\ attempt' <= dlqSteps
        /\ pc' = "return" => \A m \in cur' : Justified(m)'
        /\ \A m \in Msgs : bus'[m] = "acked" => Justified(m)'
    BY <1>0 DEF Progress, steps, dlqSteps
  <1>c. \A m : Justified(m) <=>
          \/ outcome[m] = "executed" /\ effects[m] > 0
          \/ /\ outcome[m] \in {"deadLettered", "failed"} /\ failures[m] = steps
             /\ outcome[m] = "failed" /\ trigger.dlqTrigger => dlqFailures[m] = dlqSteps
    BY DEF Justified, steps, dlqSteps
  <1>d. \A m : Justified(m)' <=>
          \/ outcome'[m] = "executed" /\ effects'[m] > 0
          \/ /\ outcome'[m] \in {"deadLettered", "failed"} /\ failures'[m] = steps
             /\ outcome'[m] = "failed" /\ trigger.dlqTrigger => dlqFailures'[m] = dlqSteps
    BY <1>0 DEF Justified, steps, dlqSteps
  <1> USE <1>0, <1>a, <1>b, <1>c, <1>d DEF TypeOK, metrics
  <1>1. CASE acknowledge
    BY <1>1 DEF acknowledge
  <1>2. CASE Crash
    BY <1>2 DEF Crash
  <1>3. ASSUME NEW m \in Msgs, actionFunc(m) PROVE Progress'
    BY <1>3 DEF actionFunc
  <1>4. ASSUME NEW m \in Msgs, execute(m) PROVE Progress'
    BY <1>4 DEF execute, Effect, Control, steps
  <1>5. ASSUME NEW m \in Msgs, executeInBackground(m) PROVE Progress'
    BY <1>5 DEF executeInBackground
  <1>6. ASSUME NEW m \in Msgs, giveUp(m) PROVE Progress'
    BY <1>6 DEF giveUp, Control, steps
  <1>7. ASSUME NEW m \in Msgs, executeDlq(m) PROVE Progress'
    BY <1>7 DEF executeDlq, Control, dlqSteps
  <1>8. ASSUME NEW m \in Msgs, giveUpDlq(m) PROVE Progress'
    BY <1>8 DEF giveUpDlq, Control, dlqSteps
  <1>9. ASSUME NEW m \in Msgs, inBackground(m) PROVE Progress'
    BY <1>9 DEF inBackground
  <1>10. CASE UNCHANGED vars
    BY <1>10 DEF vars
  <1> QED
    BY <1>1, <1>2, <1>3, <1>4, <1>5, <1>6, <1>7, <1>8, <1>9, <1>10 DEF Next, Process

\* In no state does a counter miss or repeat a call of actionFunc: each one is
\* counted as triggered or as failed after retries, unless it is under way.
THEOREM CountedAlways == Spec => []CountedOnce
  <1>1. Init => Control /\ CountedOnce
    BY FS_EmptySet DEF Init, Control, CountedOnce
  <1> QED
    BY <1>1, TypeInit, TypeStep, ControlStep, CountStep, PTL DEF Spec

\* No message is acknowledged before its action was executed or has failed as
\* often as the retry strategy says, and then the dead-letter trigger likewise,
\* whatever happens to the pod.
THEOREM ExecutedBeforeAck == Spec => []AckedMeansExecuted
  <1>1. Init => Control /\ Progress
    <2> SUFFICES ASSUME Init PROVE Control /\ Progress
      OBVIOUS
    <2>1. Control
      BY DEF Init, Control
    <2>2. Progress
      BY DEF Init, Progress
    <2> QED
      BY <2>1, <2>2
  <1>2. Progress => AckedMeansExecuted
    BY DEF Progress, AckedMeansExecuted, Justified
  <1> QED
    BY <1>1, <1>2, TypeInit, TypeStep, ControlStep, ProgressStep, PTL DEF Spec
=============================================================================
