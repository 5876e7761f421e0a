----------------------- MODULE JetStreamTriggerProofs -----------------------
(***************************************************************************)
(* What module JetStreamTrigger promises, and that it implements           *)
(* TriggerConnection, for any number of dependencies, subjects and         *)
(* messages, any condition without negation and any number of faults.      *)
(***************************************************************************)
EXTENDS JetStreamRefinement, SequenceTheorems, TLAPS

\* Where the loops of processMsg and clearAllDependencies can be: what types
\* alone do not say, and every step that indexes by cur, dep or key relies on.
Control ==
    /\ pc \in {"dep", "clear"} => cur \in Msgs /\ dep \in 1 .. NumDeps + 1
    /\ pc = "clear" => dep \in Deps
    /\ pc \in {"subscribe", "clear", "reset"} => key \in 1 .. NumDeps + 1

TypeInv == TypeOK /\ Control

\* The empty cache of a new connection or pod.
LEMMA NoneRecent == <<>> \in Seq(Msgs)
  OBVIOUS

\* The bounds are naturals.
LEMMA ConstantsAreNat == NumDeps \in Nat /\ MaxMsgs \in Nat
  BY ConstantsAssumption DEF ConstantsAssumption

\* The initial state is well typed.
LEMMA TypeInit == Init => TypeInv
  <1> SUFFICES ASSUME Init PROVE TypeInv
    OBVIOUS
  <1> USE ConstantsAreNat DEF Init
  <1>0. PICK sc \in Scenarios : /\ trigger = sc.trigger
                               /\ content \in [Msgs -> Contents]
                               /\ budget \in [Bounded -> Nat]
    BY ConstantsAssumption DEF ConstantsAssumption
  <1>1. ServerOK
    BY <1>0 DEF ServerOK, Triggers
  <1>2. PodOK
    BY NoneRecent DEF PodOK, PCs
  <1>3. GhostOK
    BY <1>0 DEF GhostOK
  <1>4. FlagsOK
    BY DEF FlagsOK
  <1>5. Control
    BY DEF Control
  <1> QED
    BY <1>1, <1>2, <1>3, <1>4, <1>5 DEF TypeInv, TypeOK

\* What happens a bounded number of times takes one from a budget that is not
\* used up.
LEMMA SpendType ==
    ASSUME GhostOK, NEW k \in Bounded, Spend(k)
    PROVE  budget' \in [Bounded -> Nat]
  BY DEF GhostOK, Spend

\* A fault is recorded.
LEMMA FaultType ==
    ASSUME GhostOK, NEW k \in Faults, Fault(k)
    PROVE  budget' \in [Bounded -> Nat] /\ happened' \subseteq Faults
  <1>1. budget' \in [Bounded -> Nat]
    BY SpendType DEF Fault, Bounded
  <1>2. happened' \subseteq Faults
    BY DEF Fault, GhostOK
  <1> QED
    BY <1>1, <1>2

\* A request that fails leaves the history well typed.
LEMMA RequestFailsType ==
    ASSUME GhostOK, NEW k \in Faults, RequestFails(k)
    PROVE  budget' \in [Bounded -> Nat] /\ happened' \subseteq Faults
  <1>1. CASE NoFault
    BY <1>1 DEF GhostOK, NoFault
  <1>2. CASE Fault(k)
    BY <1>2, FaultType
  <1> QED
    BY <1>1, <1>2 DEF RequestFails

\* The environment keeps the types: the server, the pod and its connection.
LEMMA TypeEnvironment ==
    ASSUME TypeInv,
           \/ Publish
           \/ CronTick
           \/ Crash
           \/ StartPod
           \/ Disconnect
           \/ Shutdown
           \/ Subscribe
           \/ clearDependencyIfExistsBeforeTime
           \/ ClearBeforeTimeFails
           \/ Subscribed
           \/ \E m \in Msgs : AckWaitExpires(m)
           \/ \E m \in Msgs : AckSync(m)
           \/ \E m \in Msgs : AckSyncFails(m)
           \/ \E s \in Subjects : pullSubscribe(s)
    PROVE  TypeInv'
  <1> USE ConstantsAreNat DEF TypeInv, TypeOK, server, pod, ghost
  <1>1. CASE Publish
    <2>1. ServerOK'
      <3>1. published' \in 0 .. MaxMsgs
        BY <1>1 DEF Publish, ServerOK
      <3>2. consumer' \in [Msgs -> {"none", "missed", "new", "out", "ready", "acked"}]
        BY <1>1 DEF Publish, ServerOK
      <3> QED
        BY <1>1, <3>1, <3>2 DEF Publish, ServerOK
    <2>2. PodOK'
      BY <1>1 DEF Publish, PodOK
    <2>3. GhostOK'
      BY <1>1, SpendType DEF Publish, GhostOK, Bounded
    <2>4. FlagsOK'
      BY <1>1 DEF Publish, FlagsOK
    <2>5. Control'
      BY <1>1 DEF Publish, Control
    <2> QED
      BY <2>1, <2>2, <2>3, <2>4, <2>5
  <1>2. CASE CronTick
    <2>1. ServerOK'
      BY <1>2 DEF CronTick, ServerOK
    <2>2. PodOK'
      BY <1>2 DEF CronTick, PodOK
    <2>3. GhostOK'
      BY <1>2, SpendType DEF CronTick, GhostOK, Bounded
    <2>4. FlagsOK'
      BY <1>2 DEF CronTick, FlagsOK
    <2>5. Control'
      BY <1>2 DEF CronTick, Control
    <2> QED
      BY <2>1, <2>2, <2>3, <2>4, <2>5
  <1>3. CASE Crash
    <2>1. ServerOK'
      BY <1>3 DEF Crash, ServerOK
    <2>2. PodOK'
      BY <1>3, NoneRecent DEF Crash, PodOK, PCs
    <2>3. GhostOK'
      BY <1>3, FaultType DEF Crash, GhostOK, Faults
    <2>4. FlagsOK'
      BY <1>3 DEF Crash, FlagsOK
    <2>5. Control'
      BY <1>3 DEF Crash, Control
    <2> QED
      BY <2>1, <2>2, <2>3, <2>4, <2>5
  <1>4. CASE StartPod
    <2>1. ServerOK'
      BY <1>4 DEF StartPod, ServerOK
    <2>2. PodOK'
      BY <1>4 DEF StartPod, PodOK, PCs, ServerOK
    <2>3. GhostOK'
      BY <1>4 DEF StartPod, GhostOK
    <2>4. FlagsOK'
      BY <1>4 DEF StartPod, FlagsOK
    <2>5. Control'
      BY <1>4 DEF StartPod, Control
    <2> QED
      BY <2>1, <2>2, <2>3, <2>4, <2>5
  <1>5. CASE Disconnect
    <2>1. ServerOK'
      BY <1>5 DEF Disconnect, ServerOK
    <2>2. PodOK'
      BY <1>5 DEF Disconnect, PodOK
    <2>3. GhostOK'
      BY <1>5, FaultType DEF Disconnect, GhostOK, Faults
    <2>4. FlagsOK'
      BY <1>5 DEF Disconnect, FlagsOK
    <2>5. Control'
      BY <1>5 DEF Disconnect, Control
    <2> QED
      BY <2>1, <2>2, <2>3, <2>4, <2>5
  <1>6. CASE Shutdown
    <2>1. ServerOK'
      BY <1>6 DEF Shutdown, ServerOK
    <2>2. PodOK'
      BY <1>6 DEF Shutdown, PodOK, PCs
    <2>3. GhostOK'
      BY <1>6 DEF Shutdown, GhostOK
    <2>4. FlagsOK'
      BY <1>6 DEF Shutdown, FlagsOK
    <2>5. Control'
      BY <1>6 DEF Shutdown, Control
    <2> QED
      BY <2>1, <2>2, <2>3, <2>4, <2>5
  <1>7. CASE Subscribe
    <2>1. ServerOK'
      BY <1>7 DEF Subscribe, ServerOK
    <2>2. PodOK'
      BY <1>7, NoneRecent DEF Subscribe, PodOK, PCs
    <2>3. GhostOK'
      BY <1>7 DEF Subscribe, GhostOK
    <2>4. FlagsOK'
      BY <1>7 DEF Subscribe, FlagsOK
    <2>5. Control'
      BY <1>7 DEF Subscribe, Control
    <2> QED
      BY <2>1, <2>2, <2>3, <2>4, <2>5
  <1>8. CASE clearDependencyIfExistsBeforeTime
    <2>1. ServerOK'
      <3>1. 0 \in 0 .. MaxMsgs
        BY <1>8
      <3>2. kv' \in [Deps -> 0 .. MaxMsgs]
        BY <1>8, <3>1 DEF clearDependencyIfExistsBeforeTime, ServerOK
      <3> QED
        BY <1>8, <3>1, <3>2 DEF clearDependencyIfExistsBeforeTime, ServerOK
    <2>2. PodOK'
      BY <1>8 DEF clearDependencyIfExistsBeforeTime, PodOK
    <2>3. GhostOK'
      BY <1>8 DEF clearDependencyIfExistsBeforeTime, GhostOK
    <2>4. FlagsOK'
      BY <1>8 DEF clearDependencyIfExistsBeforeTime, FlagsOK
    <2>5. Control'
      BY <1>8 DEF clearDependencyIfExistsBeforeTime, Control
    <2> QED
      BY <2>1, <2>2, <2>3, <2>4, <2>5
  <1>9. CASE ClearBeforeTimeFails
    <2>1. ServerOK'
      BY <1>9 DEF ClearBeforeTimeFails, ServerOK
    <2>2. PodOK'
      BY <1>9 DEF ClearBeforeTimeFails, PodOK
    <2>3. GhostOK'
      BY <1>9, RequestFailsType DEF ClearBeforeTimeFails, GhostOK, Faults
    <2>4. FlagsOK'
      BY <1>9 DEF ClearBeforeTimeFails, FlagsOK
    <2>5. Control'
      BY <1>9 DEF ClearBeforeTimeFails, Control
    <2> QED
      BY <2>1, <2>2, <2>3, <2>4, <2>5
  <1>10. CASE Subscribed
    <2>1. ServerOK'
      BY <1>10 DEF Subscribed, ServerOK
    <2>2. PodOK'
      BY <1>10 DEF Subscribed, PodOK, PCs
    <2>3. GhostOK'
      BY <1>10 DEF Subscribed, GhostOK
    <2>4. FlagsOK'
      BY <1>10 DEF Subscribed, FlagsOK
    <2>5. Control'
      BY <1>10 DEF Subscribed, Control
    <2> QED
      BY <2>1, <2>2, <2>3, <2>4, <2>5
  <1>11. CASE \E m \in Msgs : AckWaitExpires(m)
    <2>1. ServerOK'
      BY <1>11 DEF AckWaitExpires, ServerOK
    <2>2. PodOK'
      BY <1>11 DEF AckWaitExpires, PodOK
    <2>3. GhostOK'
      BY <1>11 DEF AckWaitExpires, GhostOK
    <2>4. FlagsOK'
      BY <1>11 DEF AckWaitExpires, FlagsOK
    <2>5. Control'
      BY <1>11 DEF AckWaitExpires, Control
    <2> QED
      BY <2>1, <2>2, <2>3, <2>4, <2>5
  <1>12. CASE \E m \in Msgs : AckSync(m)
    <2>1. ServerOK'
      BY <1>12 DEF AckSync, ServerOK
    <2>2. PodOK'
      BY <1>12 DEF AckSync, PodOK
    <2>3. GhostOK'
      BY <1>12 DEF AckSync, GhostOK
    <2>4. FlagsOK'
      BY <1>12 DEF AckSync, FlagsOK
    <2>5. Control'
      BY <1>12 DEF AckSync, Control
    <2> QED
      BY <2>1, <2>2, <2>3, <2>4, <2>5
  <1>13. CASE \E m \in Msgs : AckSyncFails(m)
    <2>1. ServerOK'
      BY <1>13 DEF AckSyncFails, ServerOK
    <2>2. PodOK'
      BY <1>13 DEF AckSyncFails, PodOK
    <2>3. GhostOK'
      BY <1>13, RequestFailsType DEF AckSyncFails, GhostOK, Faults
    <2>4. FlagsOK'
      BY <1>13 DEF AckSyncFails, FlagsOK
    <2>5. Control'
      BY <1>13 DEF AckSyncFails, Control
    <2> QED
      BY <2>1, <2>2, <2>3, <2>4, <2>5
  <1>14. CASE \E s \in Subjects : pullSubscribe(s)
    <2>1. ServerOK'
      BY <1>14 DEF pullSubscribe, ServerOK
    <2>2. PodOK'
      BY <1>14 DEF pullSubscribe, PodOK, Msgs
    <2>3. GhostOK'
      BY <1>14 DEF pullSubscribe, GhostOK
    <2>4. FlagsOK'
      BY <1>14 DEF pullSubscribe, FlagsOK
    <2>5. Control'
      BY <1>14 DEF pullSubscribe, Control
    <2> QED
      BY <2>1, <2>2, <2>3, <2>4, <2>5
  <1> QED
    BY <1>1, <1>2, <1>3, <1>4, <1>5, <1>6, <1>7, <1>8, <1>9, <1>10, <1>11, <1>12, <1>13, <1>14

\* The processMsgs goroutine keeps the types.
LEMMA TypeProcess ==
    ASSUME TypeInv,
           \/ \E s \in Subjects : discardMsg(s)
           \/ \E s \in Subjects : acceptMsg(s)
           \/ finishMsg
           \/ resetConditions
           \/ skipDependency
           \/ triggerSingle
           \/ triggerAll
           \/ saveDependency
           \/ dependencyError
           \/ clearDependencyIfExists
           \/ clearDone
           \/ clearFails
    PROVE  TypeInv'
  <1> USE ConstantsAreNat DEF TypeInv, TypeOK, server, pod, ghost
  <1>1. CASE \E s \in Subjects : discardMsg(s)
    <2>1. ServerOK'
      BY <1>1 DEF discardMsg, ServerOK
    <2>2. PodOK'
      <3>1. PICK s \in Subjects : discardMsg(s)
        BY <1>1
      <3>2. held[s] \in Msgs
        BY <1>1, <3>1 DEF discardMsg, PodOK, Msgs
      <3>3. acking' \in SUBSET Msgs
        BY <1>1, <3>1, <3>2 DEF discardMsg, PodOK
      <3>4. held' \in [Subjects -> 0 .. MaxMsgs]
        BY <1>1, <3>1 DEF discardMsg, PodOK
      <3> QED
        BY <1>1, <3>1, <3>2, <3>3, <3>4 DEF discardMsg, PodOK
    <2>3. GhostOK'
      BY <1>1 DEF discardMsg, GhostOK
    <2>4. FlagsOK'
      BY <1>1 DEF discardMsg, FlagsOK
    <2>5. Control'
      BY <1>1 DEF discardMsg, Control
    <2> QED
      BY <2>1, <2>2, <2>3, <2>4, <2>5
  <1>2. CASE \E s \in Subjects : acceptMsg(s)
    <2>1. ServerOK'
      BY <1>2 DEF acceptMsg, ServerOK
    <2>2. PodOK'
      BY <1>2 DEF acceptMsg, PodOK, Msgs, PCs
    <2>3. GhostOK'
      BY <1>2 DEF acceptMsg, GhostOK
    <2>4. FlagsOK'
      BY <1>2 DEF acceptMsg, FlagsOK
    <2>5. Control'
      BY <1>2 DEF acceptMsg, Control, Msgs, PodOK
    <2> QED
      BY <2>1, <2>2, <2>3, <2>4, <2>5
  <1>3. CASE finishMsg
    <2>1. ServerOK'
      BY <1>3 DEF finishMsg, ServerOK
    <2>2. PodOK'
      <3>1. PICK n \in 0 .. Len(recent) :
                 recent' = Append(SubSeq(recent, n + 1, Len(recent)), cur)
        BY <1>3 DEF finishMsg
      <3>2. cur \in Msgs
        BY <1>3 DEF finishMsg, Control
      <3>3. recent' \in Seq(Msgs)
        BY <3>1, <3>2, SubSeqProperties, AppendProperties DEF PodOK
      <3> QED
        BY <1>3, <3>2, <3>3 DEF finishMsg, PodOK, PCs
    <2>3. GhostOK'
      BY <1>3, FaultType DEF finishMsg, GhostOK, NoFault, Faults
    <2>4. FlagsOK'
      BY <1>3 DEF finishMsg, FlagsOK
    <2>5. Control'
      BY <1>3 DEF finishMsg, Control
    <2> QED
      BY <2>1, <2>2, <2>3, <2>4, <2>5
  <1>4. CASE resetConditions
    <2>1. ServerOK'
      BY <1>4 DEF resetConditions, ServerOK
    <2>2. PodOK'
      BY <1>4 DEF resetConditions, PodOK, PCs
    <2>3. GhostOK'
      BY <1>4 DEF resetConditions, GhostOK
    <2>4. FlagsOK'
      BY <1>4 DEF resetConditions, FlagsOK
    <2>5. Control'
      BY <1>4 DEF resetConditions, Control
    <2> QED
      BY <2>1, <2>2, <2>3, <2>4, <2>5
  <1>5. CASE skipDependency
    <2>1. ServerOK'
      BY <1>5 DEF skipDependency, ServerOK
    <2>2. PodOK'
      BY <1>5 DEF skipDependency, PodOK
    <2>3. GhostOK'
      BY <1>5 DEF skipDependency, GhostOK
    <2>4. FlagsOK'
      BY <1>5 DEF skipDependency, FlagsOK
    <2>5. Control'
      BY <1>5 DEF skipDependency, Control
    <2> QED
      BY <2>1, <2>2, <2>3, <2>4, <2>5
  <1>6. CASE triggerSingle
    <2>1. ServerOK'
      BY <1>6 DEF triggerSingle, ServerOK
    <2>2. PodOK'
      BY <1>6 DEF triggerSingle, PodOK
    <2>3. GhostOK'
      <3>1. settled' \in SUBSET (Msgs \X Deps)
        BY <1>6 DEF triggerSingle, GhostOK, Control, Deps
      <3>2. cur \in Msgs /\ dep \in Deps
        BY <1>6 DEF triggerSingle, Control, Deps
      <3>3. [used[cur] EXCEPT ![dep] = @ + 1] \in [Deps -> Nat]
        BY <1>6, <3>2 DEF GhostOK
      <3>4. used' \in [Msgs -> [Deps -> Nat]]
        BY <1>6, <3>2, <3>3 DEF triggerSingle, GhostOK
      <3> QED
        BY <1>6, <3>1, <3>2, <3>3, <3>4 DEF triggerSingle, GhostOK
    <2>4. FlagsOK'
      BY <1>6 DEF triggerSingle, FlagsOK
    <2>5. Control'
      BY <1>6 DEF triggerSingle, Control
    <2> QED
      BY <2>1, <2>2, <2>3, <2>4, <2>5
  <1>7. CASE triggerAll
    <2>1. ServerOK'
      BY <1>7 DEF triggerAll, ServerOK
    <2>2. PodOK'
      BY <1>7 DEF triggerAll, PodOK, PCs
    <2>3. GhostOK'
      <3>1. settled' \in SUBSET (Msgs \X Deps)
        BY <1>7 DEF triggerAll, GhostOK, Control, Deps
      <3>2. \A m \in Msgs : \A d \in Deps : used[m][d] \in Nat /\ used[m][d] + 1 \in Nat
        BY <1>7 DEF GhostOK
      <3>3. used' \in [Msgs -> [Deps -> Nat]]
        BY <1>7, <3>2 DEF triggerAll
      <3> QED
        BY <1>7, <3>1, <3>2, <3>3 DEF triggerAll, GhostOK
    <2>4. FlagsOK'
      BY <1>7 DEF triggerAll, FlagsOK
    <2>5. Control'
      BY <1>7 DEF triggerAll, Control, Deps
    <2> QED
      BY <2>1, <2>2, <2>3, <2>4, <2>5
  <1>8. CASE saveDependency
    <2>1. ServerOK'
      BY <1>8 DEF saveDependency, ServerOK, PodOK
    <2>2. PodOK'
      BY <1>8 DEF saveDependency, PodOK
    <2>3. GhostOK'
      <3>1. settled' \in SUBSET (Msgs \X Deps)
        BY <1>8 DEF saveDependency, GhostOK, Control, Deps
      <3>2. savedTick' \in [Deps -> Nat]
        BY <1>8 DEF saveDependency, GhostOK, ServerOK
      <3> QED
        BY <1>8, <3>1, <3>2 DEF saveDependency, GhostOK
    <2>4. FlagsOK'
      BY <1>8 DEF saveDependency, FlagsOK
    <2>5. Control'
      BY <1>8 DEF saveDependency, Control
    <2> QED
      BY <2>1, <2>2, <2>3, <2>4, <2>5
  <1>9. CASE dependencyError
    <2>1. ServerOK'
      BY <1>9 DEF dependencyError, ServerOK
    <2>2. PodOK'
      BY <1>9 DEF dependencyError, PodOK
    <2>3. GhostOK'
      BY <1>9, RequestFailsType DEF dependencyError, GhostOK, Faults
    <2>4. FlagsOK'
      BY <1>9 DEF dependencyError, FlagsOK
    <2>5. Control'
      BY <1>9 DEF dependencyError, Control
    <2> QED
      BY <2>1, <2>2, <2>3, <2>4, <2>5
  <1>10. CASE clearDependencyIfExists
    <2>1. ServerOK'
      <3>1. 0 \in 0 .. MaxMsgs
        BY <1>10
      <3>2. kv' \in [Deps -> 0 .. MaxMsgs]
        BY <1>10, <3>1 DEF clearDependencyIfExists, ServerOK
      <3> QED
        BY <1>10, <3>1, <3>2 DEF clearDependencyIfExists, ServerOK
    <2>2. PodOK'
      BY <1>10 DEF clearDependencyIfExists, PodOK
    <2>3. GhostOK'
      BY <1>10 DEF clearDependencyIfExists, GhostOK
    <2>4. FlagsOK'
      BY <1>10 DEF clearDependencyIfExists, FlagsOK
    <2>5. Control'
      BY <1>10 DEF clearDependencyIfExists, Control
    <2> QED
      BY <2>1, <2>2, <2>3, <2>4, <2>5
  <1>11. CASE clearDone
    <2>1. ServerOK'
      BY <1>11 DEF clearDone, ServerOK
    <2>2. PodOK'
      BY <1>11 DEF clearDone, PodOK, AfterClear, PCs, Control, Deps
    <2>3. GhostOK'
      BY <1>11 DEF clearDone, GhostOK
    <2>4. FlagsOK'
      BY <1>11 DEF clearDone, FlagsOK
    <2>5. Control'
      BY <1>11 DEF clearDone, Control, AfterClear, Deps
    <2> QED
      BY <2>1, <2>2, <2>3, <2>4, <2>5
  <1>12. CASE clearFails
    <2>1. ServerOK'
      BY <1>12 DEF clearFails, ServerOK
    <2>2. PodOK'
      BY <1>12 DEF clearFails, PodOK, AfterClear, PCs, Control, Deps
    <2>3. GhostOK'
      BY <1>12, RequestFailsType DEF clearFails, GhostOK, Faults
    <2>4. FlagsOK'
      BY <1>12 DEF clearFails, FlagsOK
    <2>5. Control'
      BY <1>12 DEF clearFails, Control, AfterClear, Deps
    <2> QED
      BY <2>1, <2>2, <2>3, <2>4, <2>5
  <1> QED
    BY <1>1, <1>2, <1>3, <1>4, <1>5, <1>6, <1>7, <1>8, <1>9, <1>10, <1>11, <1>12

\* Every step keeps the types and the loop bounds.
LEMMA TypeStep == TypeInv /\ [Next]_vars => TypeInv'
  <1> SUFFICES ASSUME TypeInv, [Next]_vars PROVE TypeInv'
    OBVIOUS
  <1>1. CASE Next
    BY <1>1, TypeEnvironment, TypeProcess DEF Next, processMsgs
  <1>2. CASE UNCHANGED vars
    <2> USE <1>2 DEF TypeInv, TypeOK, vars, server, pod, ghost
    <2>1. ServerOK'
      BY DEF ServerOK
    <2>2. PodOK'
      BY DEF PodOK
    <2>3. GhostOK'
      BY DEF GhostOK
    <2>4. FlagsOK'
      BY DEF FlagsOK
    <2>5. Control'
      BY DEF Control
    <2> QED
      BY <2>1, <2>2, <2>3, <2>4, <2>5
  <1> QED
    BY <1>1, <1>2

\* The loops of processMsg and clearAllDependencies never index outside the
\* trigger's dependencies, and no conditions reset is taken that cron did not
\* send, for any trigger and any number of messages, resets and faults.
THEOREM TypeCorrect == Spec => []TypeOK
  <1>1. Spec => []TypeInv
    BY TypeInit, TypeStep, PTL DEF Spec
  <1>2. TypeInv => TypeOK
    BY DEF TypeInv
  <1> QED
    BY <1>1, <1>2, PTL
-----------------------------------------------------------------------------
\* What no step touches or undoes: the trigger, the events themselves, what
\* has been settled and the faults that have happened.
LEMMA Monotone ==
    ASSUME [Next]_vars
    PROVE  /\ trigger' = trigger
           /\ content' = content
           /\ settled \subseteq settled'
           /\ happened \subseteq happened'
  <1> USE DEF Next, processMsgs, vars, server, pod, ghost, Publish, CronTick,
        AckWaitExpires, AckSync, AckSyncFails, Crash, StartPod, Disconnect, Shutdown,
        Subscribe, clearDependencyIfExistsBeforeTime, ClearBeforeTimeFails, Subscribed,
        pullSubscribe, discardMsg, acceptMsg, finishMsg, skipDependency, triggerSingle,
        triggerAll, saveDependency, dependencyError, resetConditions,
        clearDependencyIfExists, clearDone, clearFails
  <1>1. trigger' = trigger /\ content' = content
    OBVIOUS
  <1>2. settled \subseteq settled'
    OBVIOUS
  <1>3. happened \subseteq happened'
    BY DEF RequestFails, Fault, NoFault
  <1> QED
    BY <1>1, <1>2, <1>3

(* The saved events never satisfy the condition. *)

\* Forgetting saved events cannot make the condition true.
LEMMA FewerSaved ==
    ASSUME TypeInv, NEW S \in SUBSET Deps, S \notin trigger.expression,
           trigger' = trigger, savedDeps' \subseteq S
    PROVE  SavedEventsIncomplete'
  <1>1. PICK sc \in Scenarios : trigger = sc.trigger
    BY DEF TypeInv, TypeOK, ServerOK, Triggers
  <1> QED
    BY <1>1, ExpressionAssumption DEF ExpressionAssumption, SavedEventsIncomplete

\* Only saveDependency adds a saved event, and only when the set with it does
\* not satisfy the condition; every other write to the bucket forgets.
LEMMA SavedStep ==
    ASSUME TypeInv, SavedEventsIncomplete, [Next]_vars
    PROVE  SavedEventsIncomplete'
  <1>0. trigger' = trigger /\ savedDeps \in SUBSET Deps /\ savedDeps \notin trigger.expression
    BY Monotone DEF savedDeps, SavedEventsIncomplete
  <1>1. CASE UNCHANGED kv
    <2>1. savedDeps' = savedDeps
      BY <1>1 DEF savedDeps
    <2> QED
      BY <1>0, <2>1, FewerSaved
  <1>2. CASE \E d \in Deps : kv' = [kv EXCEPT ![d] = 0]
    <2>1. savedDeps' \subseteq savedDeps
      BY <1>2 DEF savedDeps, TypeInv, TypeOK, ServerOK
    <2> QED
      BY <1>0, <2>1, FewerSaved
  <1>3. CASE saveDependency
    <2>1. dep \in Deps
      BY <1>3, ConstantsAreNat DEF saveDependency, TypeInv, TypeOK, PodOK, Control, Deps
    <2>2. savedDeps' \subseteq savedDeps \cup {dep}
      BY <1>3, <2>1 DEF saveDependency, savedDeps, TypeInv, TypeOK, ServerOK
    <2>3. savedDeps \cup {dep} \in SUBSET Deps
      BY <2>1 DEF savedDeps
    <2>4. savedDeps \cup {dep} \notin trigger.expression
      BY <1>3 DEF saveDependency
    <2> QED
      BY <1>0, <2>2, <2>3, <2>4, FewerSaved
  <1>4. CASE clearDependencyIfExistsBeforeTime
    <2>1. key \in Deps
      BY <1>4, ConstantsAreNat
         DEF clearDependencyIfExistsBeforeTime, TypeInv, TypeOK, PodOK, Control, Deps
    <2> QED
      BY <1>1, <1>2, <1>4, <2>1 DEF clearDependencyIfExistsBeforeTime
  <1>5. CASE clearDependencyIfExists
    <2>1. key \in Deps
      BY <1>5, ConstantsAreNat
         DEF clearDependencyIfExists, TypeInv, TypeOK, PodOK, Control, Deps
    <2> QED
      BY <1>2, <1>5, <2>1 DEF clearDependencyIfExists
  <1>6. \/ UNCHANGED kv \/ saveDependency \/ clearDependencyIfExistsBeforeTime
        \/ clearDependencyIfExists
    BY DEF Next, processMsgs, vars, server, Publish, CronTick, AckWaitExpires,
           AckSync, AckSyncFails, Crash, StartPod, Disconnect, Shutdown, Subscribe,
           ClearBeforeTimeFails, Subscribed, pullSubscribe, discardMsg, acceptMsg,
           finishMsg, skipDependency, triggerSingle, triggerAll, dependencyError,
           resetConditions, clearDone, clearFails
  <1> QED
    BY <1>1, <1>3, <1>4, <1>5, <1>6

\* No trigger ever sits on a complete set of saved events: whatever requests
\* fail, connections drop and pods die, the K/V store alone never satisfies
\* the condition, so no firing is left undone.
THEOREM SavedNeverComplete == Spec => []SavedEventsIncomplete
  <1>1. Init => SavedEventsIncomplete
    <2> SUFFICES ASSUME Init PROVE SavedEventsIncomplete
      OBVIOUS
    <2>1. savedDeps = {}
      BY DEF Init, savedDeps
    <2> QED
      BY <2>1, ExpressionAssumption DEF ExpressionAssumption, SavedEventsIncomplete, Init
  <1>2. TypeInv /\ SavedEventsIncomplete /\ [Next]_vars => SavedEventsIncomplete'
    BY SavedStep
  <1> QED
    BY <1>1, <1>2, TypeInit, TypeStep, PTL DEF Spec
-----------------------------------------------------------------------------
(* No acknowledged event is lost.                                          *)
(*                                                                         *)
(* The invariant follows a message on its way to the acknowledgement: as   *)
(* long as the connection lives, what is being processed is dealt with up  *)
(* to the current dependency, and what is remembered or being acknowledged *)
(* is dealt with.  On a dead connection none of this holds (K/V requests   *)
(* fail without a trace), but no acknowledgement reaches the server either *)
(* and a new connection starts with nothing remembered or under way.       *)

SettledOrFailed(m, d) ==
    interested(m, d) => <<m, d>> \in settled \/ "get" \in happened \/ "put" \in happened

Dealt(m) == content[m].valid => \A d \in Deps : SettledOrFailed(m, d)

QuietInv == pc \in {"dead", "none", "subscribe"} => acking = {}

AckedInv == \A m \in Msgs : consumer[m] = "acked" => Dealt(m)

CacheInv == conn => /\ \A m \in acking : Dealt(m)
                    /\ \A i \in 1 .. Len(recent) : Dealt(recent[i])

LoopInv ==
    conn => /\ pc = "dep" => \A d \in Deps : d < dep => SettledOrFailed(cur, d)
            /\ pc = "clear" => \A d \in Deps : d <= dep => SettledOrFailed(cur, d)

DeliveryInv == QuietInv /\ AckedInv /\ CacheInv /\ LoopInv

\* Nothing is acknowledged, cached or in processMsg at first.
LEMMA DeliveryInit == Init => DeliveryInv
  <1> SUFFICES ASSUME Init PROVE DeliveryInv
    OBVIOUS
  <1>1. QuietInv
    BY DEF Init, QuietInv
  <1>2. AckedInv
    BY DEF Init, AckedInv
  <1>3. CacheInv /\ LoopInv
    BY DEF Init, CacheInv, LoopInv
  <1> QED
    BY <1>1, <1>2, <1>3 DEF DeliveryInv

\* An event that was saved or fired for a dependency stays so.
LEMMA SettledStays ==
    ASSUME [Next]_vars, NEW m \in Msgs, NEW d \in Deps,
           SettledOrFailed(m, d)
    PROVE  SettledOrFailed(m, d)'
  BY Monotone DEF SettledOrFailed, interested

\* A message that is dealt with for all its dependencies stays so.
LEMMA DealtStays ==
    ASSUME [Next]_vars, NEW m \in Msgs, Dealt(m)
    PROVE  Dealt(m)'
  BY Monotone, SettledStays DEF Dealt

\* Nothing is being acknowledged while there is no subscription.
LEMMA QuietStep ==
    ASSUME TypeInv, QuietInv, [Next]_vars
    PROVE  QuietInv'
  BY DEF QuietInv, Next, processMsgs, vars, server, pod, ghost, Publish, CronTick,
        AckWaitExpires, AckSync, AckSyncFails, Crash, StartPod, Disconnect, Shutdown,
        Subscribe, clearDependencyIfExistsBeforeTime, ClearBeforeTimeFails, Subscribed,
        pullSubscribe, discardMsg, acceptMsg, finishMsg, skipDependency, triggerSingle,
        triggerAll, saveDependency, dependencyError, resetConditions,
        clearDependencyIfExists, clearDone, clearFails, AfterClear

\* The server marks a message done only when an AckSync reaches it.
LEMMA OnlyAckSync ==
    ASSUME TypeInv, [Next]_vars, NEW m \in Msgs, consumer'[m] = "acked"
    PROVE  consumer[m] = "acked" \/ (conn /\ m \in acking)
  <1> USE DEF TypeInv, TypeOK, ServerOK
  <1>1. CASE UNCHANGED consumer
    BY <1>1
  <1>2. CASE Publish
    BY <1>2 DEF Publish
  <1>3. CASE \E k \in Msgs : AckWaitExpires(k)
    BY <1>3 DEF AckWaitExpires
  <1>4. CASE \E k \in Msgs : AckSync(k)
    BY <1>4 DEF AckSync
  <1>5. CASE \E s \in Subjects : pullSubscribe(s)
    BY <1>5 DEF pullSubscribe
  <1>6. \/ UNCHANGED consumer \/ Publish \/ \E k \in Msgs : AckWaitExpires(k)
        \/ \E k \in Msgs : AckSync(k) \/ \E s \in Subjects : pullSubscribe(s)
    BY DEF Next, processMsgs, vars, server, CronTick, AckSyncFails, Crash, StartPod,
        Disconnect, Shutdown, Subscribe, clearDependencyIfExistsBeforeTime,
        ClearBeforeTimeFails, Subscribed, discardMsg, acceptMsg, finishMsg,
        skipDependency, triggerSingle, triggerAll, saveDependency, dependencyError,
        resetConditions, clearDependencyIfExists, clearDone, clearFails
  <1> QED
    BY <1>1, <1>2, <1>3, <1>4, <1>5, <1>6

\* What an AckSync marks done was being acknowledged, so it was dealt with.
LEMMA AckedStep ==
    ASSUME TypeInv, DeliveryInv, [Next]_vars
    PROVE  AckedInv'
  <1> SUFFICES ASSUME NEW m \in Msgs, consumer'[m] = "acked" PROVE Dealt(m)'
    BY DEF AckedInv
  <1>1. Dealt(m)
    BY OnlyAckSync DEF DeliveryInv, AckedInv, CacheInv
  <1> QED
    BY <1>1, DealtStays

\* finishMsg keeps the last of the recent messages and the one it finished.
LEMMA RecentElements ==
    ASSUME TypeInv, finishMsg
    PROVE  \A i \in 1 .. Len(recent') :
              recent'[i] = cur \/ \E j \in 1 .. Len(recent) : recent'[i] = recent[j]
  <1>0. recent \in Seq(Msgs) /\ cur \in Msgs /\ Len(recent) \in Nat
    BY DEF TypeInv, TypeOK, PodOK, Control, finishMsg
  <1>1. PICK n \in 0 .. Len(recent) :
            recent' = Append(SubSeq(recent, n + 1, Len(recent)), cur)
    BY DEF finishMsg
  <1> DEFINE kept == SubSeq(recent, n + 1, Len(recent))
  <1>2. kept \in Seq(Msgs) /\ Len(kept) = Len(recent) - n
    BY <1>0, SubSeqProperties
  <1>3. \A j \in 1 .. Len(recent) - n : kept[j] = recent[n + j] /\ n + j \in 1 .. Len(recent)
    BY <1>0, SubSeqProperties
  <1>4. recent' = Append(kept, cur)
    BY <1>1
  <1> HIDE DEF kept
  <1>5. Len(recent') = Len(kept) + 1 /\ recent'[Len(kept) + 1] = cur
    BY <1>0, <1>2, <1>4, AppendProperties
  <1>6. \A j \in 1 .. Len(kept) : recent'[j] = kept[j]
    BY <1>0, <1>2, <1>4, AppendProperties
  <1>7. ASSUME NEW i \in 1 .. Len(recent')
        PROVE  recent'[i] = cur \/ \E j \in 1 .. Len(recent) : recent'[i] = recent[j]
    <2>1. CASE i = Len(kept) + 1
      BY <1>5, <2>1
    <2>2. CASE i \in 1 .. Len(kept)
      <3>1. recent'[i] = recent[n + i] /\ n + i \in 1 .. Len(recent)
        BY <1>2, <1>3, <1>6, <2>2
      <3> QED
        BY <3>1
    <2> QED
      BY <1>0, <1>2, <1>5, <2>1, <2>2
  <1> QED
    BY <1>7

\* What enters the cache or the set of acknowledgements under way is dealt
\* with: a message discarded, or one whose last dependency is through.
LEMMA CacheStep ==
    ASSUME TypeInv, DeliveryInv, [Next]_vars
    PROVE  CacheInv'
  <1> DEFINE Kept == /\ \A m \in acking' : m \in Msgs /\ Dealt(m)
                     /\ \A i \in 1 .. Len(recent') : recent'[i] \in Msgs /\ Dealt(recent'[i])
  <1> SUFFICES ASSUME conn' PROVE Kept
    <2>1. \A m \in Msgs : Dealt(m) => Dealt(m)'
      BY DealtStays
    <2> QED
      BY <2>1 DEF CacheInv, Dealt, SettledOrFailed, interested
  <1>0. acking \in SUBSET Msgs /\ recent \in Seq(Msgs)
    BY DEF TypeInv, TypeOK, PodOK
  <1>1. CASE Subscribe
    <2>1. acking' = {} /\ recent' = <<>>
      BY <1>1 DEF Subscribe, DeliveryInv, QuietInv
    <2> QED
      BY <2>1
  <1>2. CASE conn /\ acking' \in SUBSET acking /\ recent' = recent
    <2>1. \A m \in acking' : m \in Msgs /\ Dealt(m)
      BY <1>0, <1>2 DEF DeliveryInv, CacheInv
    <2>2. \A i \in 1 .. Len(recent) : recent[i] \in Msgs /\ Dealt(recent[i])
      BY <1>0, <1>2 DEF DeliveryInv, CacheInv
    <2> QED
      BY <1>2, <2>1, <2>2
  <1>3. ASSUME NEW s \in Subjects, discardMsg(s)
        PROVE  Kept
    <2>1. conn /\ recent' = recent /\ acking' = acking \cup {held[s]}
      BY <1>3 DEF discardMsg
    <2>2. held[s] \in Msgs
      BY <1>3, ConstantsAreNat DEF discardMsg, TypeInv, TypeOK, PodOK, Msgs
    <2>3. Dealt(held[s])
      BY <1>3, <2>1 DEF discardMsg, alreadyReceived, DeliveryInv, CacheInv, Dealt
    <2>4. \A m \in acking' : m \in Msgs /\ Dealt(m)
      BY <1>0, <2>1, <2>2, <2>3 DEF DeliveryInv, CacheInv
    <2>5. \A i \in 1 .. Len(recent) : recent[i] \in Msgs /\ Dealt(recent[i])
      BY <1>0, <2>1 DEF DeliveryInv, CacheInv
    <2> QED
      BY <2>1, <2>4, <2>5
  <1>4. CASE finishMsg
    <2>1. conn /\ acking' = acking \cup {cur} /\ cur \in Msgs
      BY <1>4 DEF finishMsg, TypeInv, Control
    <2>2. Dealt(cur)
      BY <1>4, <2>1, ConstantsAreNat DEF finishMsg, DeliveryInv, LoopInv, Dealt, Deps
    <2>3. \A m \in acking' : m \in Msgs /\ Dealt(m)
      BY <1>0, <2>1, <2>2 DEF DeliveryInv, CacheInv
    <2>4. \A i \in 1 .. Len(recent') :
             recent'[i] = cur \/ \E j \in 1 .. Len(recent) : recent'[i] = recent[j]
      BY <1>4, RecentElements
    <2>5. \A i \in 1 .. Len(recent') : recent'[i] \in Msgs /\ Dealt(recent'[i])
      <3>1. \A j \in 1 .. Len(recent) : recent[j] \in Msgs /\ Dealt(recent[j])
        BY <1>0, <2>1 DEF DeliveryInv, CacheInv
      <3> QED
        BY <2>1, <2>2, <2>4, <3>1
    <2> QED
      BY <2>3, <2>5
  <1>5. \/ Subscribe \/ finishMsg \/ \E s \in Subjects : discardMsg(s)
        \/ conn /\ acking' \in SUBSET acking /\ recent' = recent
    BY DEF Next, processMsgs, vars, server, pod, ghost, Publish, CronTick,
        AckWaitExpires, AckSync, AckSyncFails, Crash, StartPod, Disconnect, Shutdown,
        clearDependencyIfExistsBeforeTime, ClearBeforeTimeFails, Subscribed,
        pullSubscribe, acceptMsg, skipDependency, triggerSingle, triggerAll,
        saveDependency, dependencyError, resetConditions, clearDependencyIfExists,
        clearDone, clearFails
  <1> QED
    BY <1>1, <1>2, <1>3, <1>4, <1>5

\* The loop moves past a dependency that is dealt with.
LEMMA LoopAdvance ==
    ASSUME TypeInv, DeliveryInv, [Next]_vars, conn, pc = "dep",
           NEW m \in Msgs, m = cur, NEW e \in Deps, e = dep,
           SettledOrFailed(m, e)', cur' = m,
           (pc' = "dep" /\ dep' = e + 1) \/ (pc' = "clear" /\ dep' = e)
    PROVE  LoopInv'
  <1>1. \A d \in Deps : d < e => SettledOrFailed(m, d)
    BY DEF DeliveryInv, LoopInv
  <1>2. \A d \in Deps : d < e => SettledOrFailed(m, d)'
    BY <1>1, SettledStays
  <1>3. \A d \in Deps : d <= e => SettledOrFailed(m, d)'
    BY <1>2 DEF Deps
  <1>4. \A d \in Deps : d < e + 1 => d <= e
    BY ConstantsAreNat DEF Deps
  <1> QED
    BY <1>3, <1>4 DEF LoopInv, SettledOrFailed, interested

\* Every dependency the loop has passed is settled for the message, or a K/V
\* request failed on a live connection.
LEMMA LoopStep ==
    ASSUME TypeInv, DeliveryInv, [Next]_vars
    PROVE  LoopInv'
  <1>1. CASE ~conn' \/ pc' \notin {"dep", "clear"}
    BY <1>1 DEF LoopInv
  <1>2. CASE conn /\ pc' = pc /\ cur' = cur /\ dep' = dep /\ pc \in {"dep", "clear"}
    <2>1. PICK m \in Msgs : m = cur
      BY <1>2 DEF TypeInv, Control
    <2>2. \A d \in Deps : SettledOrFailed(m, d) => SettledOrFailed(m, d)'
      BY SettledStays
    <2>3. /\ pc = "dep" => \A d \in Deps : d < dep => SettledOrFailed(m, d)
          /\ pc = "clear" => \A d \in Deps : d <= dep => SettledOrFailed(m, d)
      BY <1>2, <2>1 DEF DeliveryInv, LoopInv
    <2>4. /\ pc = "dep" => \A d \in Deps : d < dep => SettledOrFailed(m, d)'
          /\ pc = "clear" => \A d \in Deps : d <= dep => SettledOrFailed(m, d)'
      BY <2>2, <2>3
    <2> QED
      BY <1>2, <2>1, <2>4 DEF LoopInv, SettledOrFailed, interested
  <1>3. CASE \E s \in Subjects : acceptMsg(s)
    <2>1. pc' = "dep" /\ dep' = 1
      BY <1>3 DEF acceptMsg
    <2>2. \A d \in Deps : ~(d < 1)
      BY ConstantsAreNat DEF Deps
    <2> QED
      BY <2>1, <2>2 DEF LoopInv
  <1>4. ASSUME conn, skipDependency \/ triggerSingle \/ triggerAll \/ saveDependency
                       \/ dependencyError
        PROVE  LoopInv'
    <2>0. pc = "dep" /\ dep <= NumDeps
      BY <1>4 DEF skipDependency, triggerSingle, triggerAll, saveDependency,
         dependencyError
    <2>1. pc = "dep" /\ cur \in Msgs /\ dep \in Deps
      BY <2>0, ConstantsAreNat DEF TypeInv, Control, Deps
    <2>2. PICK m \in Msgs, e \in Deps : m = cur /\ e = dep
      BY <2>1
    <2>3. cur' = m /\ ((pc' = "dep" /\ dep' = e + 1) \/ (pc' = "clear" /\ dep' = e))
      BY <1>4, <2>2 DEF skipDependency, triggerSingle, triggerAll, saveDependency,
         dependencyError
    <2>4. ASSUME skipDependency PROVE SettledOrFailed(m, e)'
      BY <2>2, <2>4, Monotone DEF skipDependency, SettledOrFailed, interested
    <2>5. ASSUME triggerSingle \/ triggerAll \/ saveDependency
          PROVE  SettledOrFailed(m, e)'
      <3>1. <<m, e>> \in settled'
        BY <2>2, <2>5 DEF triggerSingle, triggerAll, saveDependency
      <3> QED
        BY <3>1 DEF SettledOrFailed
    <2>6. ASSUME dependencyError PROVE SettledOrFailed(m, e)'
      <3>1. Fault("get") \/ Fault("put")
        BY <1>4, <2>6 DEF dependencyError, RequestFails
      <3>2. "get" \in happened' \/ "put" \in happened'
        BY <3>1 DEF Fault
      <3> QED
        BY <3>2 DEF SettledOrFailed
    <2>7. SettledOrFailed(m, e)'
      BY <1>4, <2>4, <2>5, <2>6
    <2> QED
      BY <1>4, <2>1, <2>2, <2>3, <2>7, LoopAdvance
  <1>5. CASE conn /\ pc = "clear" /\ pc' = "dep" /\ cur' = cur /\ dep' = dep + 1
    <2>1. PICK m \in Msgs, e \in Deps : m = cur /\ e = dep
      BY <1>5 DEF TypeInv, Control
    <2>2. \A d \in Deps : d <= e => SettledOrFailed(m, d)
      BY <1>5, <2>1 DEF DeliveryInv, LoopInv
    <2>3. \A d \in Deps : d <= e => SettledOrFailed(m, d)'
      BY <2>2, SettledStays
    <2>4. \A d \in Deps : d < e + 1 => d <= e
      BY ConstantsAreNat DEF Deps
    <2> QED
      BY <1>5, <2>1, <2>3, <2>4 DEF LoopInv, SettledOrFailed, interested
  <1>6. \/ ~conn' \/ pc' \notin {"dep", "clear"}
        \/ conn /\ pc' = pc /\ cur' = cur /\ dep' = dep /\ pc \in {"dep", "clear"}
        \/ \E s \in Subjects : acceptMsg(s)
        \/ conn /\ (skipDependency \/ triggerSingle \/ triggerAll \/ saveDependency
                      \/ dependencyError)
        \/ conn /\ pc = "clear" /\ pc' = "dep" /\ cur' = cur /\ dep' = dep + 1
    BY DEF Next, processMsgs, vars, server, pod, ghost, Publish, CronTick,
        AckWaitExpires, AckSync, AckSyncFails, Crash, StartPod, Disconnect, Shutdown,
        Subscribe, clearDependencyIfExistsBeforeTime, ClearBeforeTimeFails, Subscribed,
        pullSubscribe, discardMsg, finishMsg, skipDependency, triggerSingle, triggerAll,
        saveDependency, dependencyError, resetConditions, clearDependencyIfExists,
        clearDone, clearFails, AfterClear
  <1> QED
    BY <1>1, <1>2, <1>3, <1>4, <1>5, <1>6

\* An event whose message the server considers done took part in a firing or
\* was saved, for every dependency it is meant for, unless a K/V request failed
\* on a live connection: for any crash, disconnection, expired acknowledgement
\* wait and redelivery, in any order and number.
THEOREM AckedNeverLost == Spec => []AckedEventsSettled
  <1>1. TypeInv /\ DeliveryInv /\ [Next]_vars => DeliveryInv'
    BY QuietStep, AckedStep, CacheStep, LoopStep DEF DeliveryInv
  <1>2. TypeInv /\ DeliveryInv => AckedEventsSettled
    BY DEF DeliveryInv, AckedInv, Dealt, SettledOrFailed, AckedEventsSettled
  <1> QED
    BY <1>1, <1>2, TypeInit, TypeStep, DeliveryInit, PTL DEF Spec
-----------------------------------------------------------------------------
(* The refinement of TriggerConnection, and what follows from it           *)

Faulty == happened \cap Forgetful # {}

Delivered(m) == consumer[m] \in {"out", "ready", "acked"}
Busy == pc \in {"dep", "clear"}
Processing(m) == Busy /\ cur = m

\* Sequence numbers are given in order, and only published messages have a state.
NumberInv == \A m \in Msgs : consumer[m] = "none" <=> m > published

\* What the pod has in its hands was delivered to it.
ReachInv ==
    /\ \A s \in Subjects : held[s] # 0 => Delivered(held[s]) /\ content[held[s]].subject = s
    /\ IF Busy THEN Delivered(cur) ELSE cur = 0
    /\ \A m \in Msgs : alreadyReceived(m) => Delivered(m)
    /\ \A m \in acking : Delivered(m)

\* A durable consumer delivers the new messages of its subject in order.
OrderInv ==
    \A m \in Msgs : Delivered(m) =>
        \A k \in 1 .. m - 1 : content[k].subject = content[m].subject => consumer[k] # "new"

\* Without a fault the pod keeps its one connection, and nothing was delivered
\* before there was one.
AliveInv ==
    ~Faulty => /\ pc \notin {"dead", "stuck"}
               /\ pc # "none" => conn
               /\ pc \in {"none", "subscribe"} =>
                     /\ recent = <<>> /\ settled = {} /\ ~durable
                     /\ \A m \in Msgs : consumer[m] \in {"none", "missed"}

\* Without a fault a message that was delivered is remembered, being processed, or
\* still in the hands of its pullSubscribe.
KeptInv ==
    ~Faulty => \A m \in Msgs :
        Delivered(m) /\ content[m].valid =>
            alreadyReceived(m) \/ Processing(m) \/ held[content[m].subject] = m

\* Without a fault the messages of a subject are accepted in order: what is being
\* processed comes after all that are remembered, and what pullSubscribe holds
\* for the first time after these.
SequenceInv ==
    ~Faulty =>
        /\ Busy => /\ ~alreadyReceived(cur)
                   /\ \A x \in Msgs :
                         alreadyReceived(x) /\ content[x].subject = content[cur].subject => x < cur
        /\ \A s \in Subjects :
              /\ held[s] # 0 /\ content[held[s]].valid
              /\ ~alreadyReceived(held[s]) /\ ~Processing(held[s])
              => \A x \in Msgs :
                    (alreadyReceived(x) \/ Processing(x)) /\ content[x].subject = s => x < held[s]

\* Without a fault what was fired or saved is remembered or being processed.
SettledInv ==
    ~Faulty => \A x \in Msgs, d \in Deps :
        <<x, d>> \in settled =>
            /\ content[x].subject = trigger.subject[d]
            /\ \/ alreadyReceived(x)
               \/ Processing(x) /\ (d < dep \/ (d = dep /\ pc = "clear"))

\* Only conjunctions save events; between the action and its deletion a saved
\* event is a used one.
SavedInv ==
    /\ ~trigger.requiresAND => \A d \in Deps : kv[d] = 0
    /\ pc = "clear" => \A d \in Deps : key <= d /\ kv[d] # 0 => used[kv[d]][d] > 0

RefInv ==
    /\ NumberInv /\ ReachInv /\ OrderInv /\ AliveInv /\ KeptInv /\ SequenceInv
    /\ SettledInv /\ SavedInv

\* An entry of the bucket is from before the last tick if it was saved under an
\* earlier one, and then its reset is still to come: a cron goroutine waits, the
\* reset is under way, or the next Subscribe has it in its lastResetTime.
ToReset(d) == kv[d] # 0 /\ savedTick[d] # ticks

ResetComes(d) ==
    \/ pc = "dead" \/ pending > 0
    \/ pc = "reset" /\ key <= d
    \/ pc = "none" /\ kv[d] <= podReset
    \/ pc = "subscribe" /\ key <= d /\ kv[d] <= podReset

ResetInv ==
    \A d \in Deps :
        /\ kv[d] <= published
        /\ ToReset(d) => kv[d] <= lastTick
        /\ ToReset(d) /\ ~resetLost => ResetComes(d)
-----------------------------------------------------------------------------
(* How messages are delivered and remembered.                              *)

\* Faults are not forgotten.
LEMMA FaultyStays ==
    ASSUME [Next]_vars, ~Faulty'
    PROVE  ~Faulty
  <1>1. happened \subseteq happened'
    BY Monotone
  <1> QED
    BY <1>1 DEF Faulty

\* Only these steps write what the durable consumers know of the messages.
LEMMA ConsumerSteps ==
    ASSUME [Next]_vars
    PROVE  \/ UNCHANGED <<consumer, published>>
           \/ Publish
           \/ \E m \in Msgs : AckWaitExpires(m)
           \/ \E m \in Msgs : AckSync(m)
           \/ \E s \in Subjects : pullSubscribe(s)
  BY DEF Next, processMsgs, vars, server, CronTick, AckSyncFails, Crash, StartPod,
         Disconnect, Shutdown, Subscribe, clearDependencyIfExistsBeforeTime,
         ClearBeforeTimeFails, Subscribed, discardMsg, acceptMsg, finishMsg,
         skipDependency, triggerSingle, triggerAll, saveDependency, dependencyError,
         resetConditions, clearDependencyIfExists, clearDone, clearFails

\* A message that was delivered stays so.
LEMMA DeliveredStays ==
    ASSUME TypeInv, NumberInv, [Next]_vars, NEW m \in Msgs, Delivered(m)
    PROVE  Delivered(m)'
  <1> USE DEF TypeInv, TypeOK, ServerOK, Delivered
  <1>1. CASE UNCHANGED consumer
    BY <1>1
  <1>2. CASE Publish
    <2>1. m # published + 1
      BY <1>2, ConstantsAreNat DEF Publish, NumberInv, Msgs
    <2> QED
      BY <1>2, <2>1 DEF Publish
  <1>3. CASE \E k \in Msgs : AckWaitExpires(k)
    BY <1>3 DEF AckWaitExpires
  <1>4. CASE \E k \in Msgs : AckSync(k)
    BY <1>4 DEF AckSync
  <1>5. CASE \E s \in Subjects : pullSubscribe(s)
    BY <1>5 DEF pullSubscribe
  <1> QED
    BY <1>1, <1>2, <1>3, <1>4, <1>5, ConsumerSteps

\* A first delivery is one by pullSubscribe, in the order of the stream.
LEMMA FirstDelivery ==
    ASSUME TypeInv, ReachInv, [Next]_vars, NEW m \in Msgs, Delivered(m)', ~Delivered(m)
    PROVE  \E s \in Subjects : /\ pullSubscribe(s) /\ NextNew(m)
                               /\ content[m].subject = s /\ held'[s] = m
  <1> USE DEF TypeInv, TypeOK, ServerOK, PodOK, Delivered
  <1>1. CASE UNCHANGED consumer
    BY <1>1
  <1>2. CASE Publish
    BY <1>2 DEF Publish
  <1>3. CASE \E k \in Msgs : AckWaitExpires(k)
    BY <1>3 DEF AckWaitExpires
  <1>4. CASE \E k \in Msgs : AckSync(k)
    BY <1>4 DEF AckSync, ReachInv
  <1>5. ASSUME NEW s \in Subjects, pullSubscribe(s)
        PROVE  NextNew(m) /\ content[m].subject = s /\ held'[s] = m
    <2>1. PICK k \in Msgs : /\ content[k].subject = s
                            /\ Redelivery(k) \/ NextNew(k)
                            /\ consumer' = [consumer EXCEPT ![k] = "out"]
                            /\ held' = [held EXCEPT ![s] = k]
      BY <1>5 DEF pullSubscribe
    <2>2. k = m
      BY <2>1
    <2> QED
      BY <2>1, <2>2 DEF Redelivery
  <1> QED
    BY <1>1, <1>2, <1>3, <1>4, <1>5, ConsumerSteps

\* A message becomes new only when it is published.
LEMMA NewStep ==
    ASSUME TypeInv, [Next]_vars, NEW k \in Msgs, consumer'[k] = "new"
    PROVE  consumer[k] = "new" \/ (Publish /\ k = published + 1)
  <1> USE DEF TypeInv, TypeOK, ServerOK
  <1>1. CASE UNCHANGED consumer
    BY <1>1
  <1>2. CASE Publish
    BY <1>2 DEF Publish
  <1>3. CASE \E m \in Msgs : AckWaitExpires(m)
    BY <1>3 DEF AckWaitExpires
  <1>4. CASE \E m \in Msgs : AckSync(m)
    BY <1>4 DEF AckSync
  <1>5. CASE \E s \in Subjects : pullSubscribe(s)
    BY <1>5 DEF pullSubscribe
  <1> QED
    BY <1>1, <1>2, <1>3, <1>4, <1>5, ConsumerSteps

\* Only finishMsg adds to the cache of message IDs, and a new connection or pod
\* empties it.
LEMMA RecentSteps ==
    ASSUME [Next]_vars
    PROVE  UNCHANGED recent \/ finishMsg \/ ((Subscribe \/ Crash) /\ recent' = <<>>)
  BY DEF Next, processMsgs, vars, server, pod, Publish, CronTick, AckWaitExpires,
         AckSync, AckSyncFails, Crash, StartPod, Disconnect, Shutdown, Subscribe,
         clearDependencyIfExistsBeforeTime, ClearBeforeTimeFails, Subscribed,
         pullSubscribe, discardMsg, acceptMsg, skipDependency, triggerSingle,
         triggerAll, saveDependency, dependencyError, resetConditions,
         clearDependencyIfExists, clearDone, clearFails

\* What finishMsg does to the cache: it appends the message and drops a prefix,
\* which is a fault.
LEMMA FinishRecent ==
    ASSUME TypeInv, finishMsg, NEW m \in Msgs
    PROVE  /\ alreadyReceived(m)' => alreadyReceived(m) \/ m = cur
           /\ ~Faulty' /\ (alreadyReceived(m) \/ m = cur) => alreadyReceived(m)'
  <1>0. recent \in Seq(Msgs) /\ cur \in Msgs /\ Len(recent) \in Nat
    BY DEF TypeInv, TypeOK, PodOK, Control, finishMsg
  <1>1. PICK n \in 0 .. Len(recent) :
           /\ recent' = Append(SubSeq(recent, n + 1, Len(recent)), cur)
           /\ IF n > 0 THEN Fault("evict") ELSE NoFault
    BY DEF finishMsg
  <1> DEFINE kept == SubSeq(recent, n + 1, Len(recent))
  <1>2. /\ kept \in Seq(Msgs) /\ Len(kept) = Len(recent) - n
        /\ \A j \in 1 .. Len(kept) : kept[j] = recent[n + j] /\ n + j \in 1 .. Len(recent)
    BY <1>0, SubSeqProperties
  <1>3. /\ Len(recent') = Len(kept) + 1
        /\ \A j \in 1 .. Len(kept) : recent'[j] = kept[j]
        /\ recent'[Len(kept) + 1] = cur
    BY <1>0, <1>1, <1>2, AppendProperties
  <1>6. Len(kept) \in Nat /\ n \in Nat
    BY <1>0, <1>2
  <1> HIDE DEF kept
  <1>4. ASSUME alreadyReceived(m)' PROVE alreadyReceived(m) \/ m = cur
    <2>1. PICK i \in 1 .. Len(recent') : recent'[i] = m
      BY <1>4 DEF alreadyReceived
    <2>2. i = Len(kept) + 1 \/ i \in 1 .. Len(kept)
      BY <1>3, <1>6, <2>1
    <2>3. ASSUME i \in 1 .. Len(kept) PROVE recent[n + i] = m /\ n + i \in 1 .. Len(recent)
      BY <1>2, <1>3, <2>1, <2>3
    <2> QED
      BY <1>3, <2>1, <2>2, <2>3 DEF alreadyReceived
  <1>5. ASSUME ~Faulty', alreadyReceived(m) \/ m = cur PROVE alreadyReceived(m)'
    <2>1. n = 0
      <3>1. ~Fault("evict")
        BY <1>5 DEF Fault, Faulty, Forgetful
      <3> QED
        BY <1>1, <1>6, <3>1
    <2>2. CASE m = cur
      <3>1. Len(kept) + 1 \in 1 .. Len(recent')
        BY <1>3, <1>6
      <3> QED
        BY <1>3, <2>2, <3>1 DEF alreadyReceived
    <2>3. CASE alreadyReceived(m)
      <3>1. PICK i \in 1 .. Len(recent) : recent[i] = m
        BY <2>3 DEF alreadyReceived
      <3>2. i \in 1 .. Len(kept) /\ kept[i] = recent[i]
        BY <1>0, <1>2, <1>6, <2>1, <3>1
      <3>3. i \in 1 .. Len(recent') /\ recent'[i] = m
        BY <1>3, <1>6, <3>1, <3>2
      <3> QED
        BY <3>3 DEF alreadyReceived
    <2> QED
      BY <1>5, <2>2, <2>3
  <1> QED
    BY <1>4, <1>5

\* A message is remembered only after it was processed.
LEMMA RecentNew ==
    ASSUME TypeInv, [Next]_vars, NEW m \in Msgs, alreadyReceived(m)'
    PROVE  alreadyReceived(m) \/ (finishMsg /\ m = cur)
  <1>1. CASE UNCHANGED recent
    BY <1>1 DEF alreadyReceived
  <1>2. CASE finishMsg
    BY <1>2, FinishRecent
  <1>3. CASE recent' = <<>>
    BY <1>3 DEF alreadyReceived
  <1> QED
    BY <1>1, <1>2, <1>3, RecentSteps

\* Without a fault no message is forgotten.
LEMMA RecentKept ==
    ASSUME TypeInv, AliveInv, [Next]_vars, ~Faulty', NEW m \in Msgs,
           alreadyReceived(m) \/ (finishMsg /\ m = cur)
    PROVE  alreadyReceived(m)'
  <1>1. CASE finishMsg
    BY <1>1, FinishRecent
  <1>2. CASE UNCHANGED recent /\ ~finishMsg
    BY <1>2 DEF alreadyReceived
  <1>3. CASE Subscribe /\ ~finishMsg
    <2>1. recent = <<>>
      BY <1>3, FaultyStays DEF Subscribe, AliveInv
    <2> QED
      BY <1>3, <2>1 DEF alreadyReceived
  <1>4. CASE Crash
    BY <1>4 DEF Crash, Fault, Faulty, Forgetful
  <1> QED
    BY <1>1, <1>2, <1>3, <1>4, RecentSteps
-----------------------------------------------------------------------------
(* The invariant of the refinement.                                        *)

\* The first state has no messages.
LEMMA RefInit == Init => RefInv /\ ResetInv
  <1> SUFFICES ASSUME Init PROVE RefInv /\ ResetInv
    OBVIOUS
  <1> USE ConstantsAreNat DEF Init, Msgs, Deps, Delivered, Busy, Processing, alreadyReceived
  <1>1. NumberInv
    BY DEF NumberInv
  <1>2. ReachInv /\ OrderInv
    BY DEF ReachInv, OrderInv
  <1>3. AliveInv
    BY DEF AliveInv
  <1>4. KeptInv /\ SequenceInv
    BY DEF KeptInv, SequenceInv
  <1>5. SettledInv /\ SavedInv
    BY DEF SettledInv, SavedInv
  <1>6. ResetInv
    BY DEF ResetInv, ToReset
  <1> QED
    BY <1>1, <1>2, <1>3, <1>4, <1>5, <1>6 DEF RefInv

\* Only published messages have a state at their consumer.
LEMMA NumberStep ==
    ASSUME TypeInv, RefInv, [Next]_vars
    PROVE  NumberInv'
  <1> USE ConstantsAreNat DEF TypeInv, TypeOK, ServerOK, RefInv, NumberInv, Msgs
  <1>1. CASE UNCHANGED <<consumer, published>>
    BY <1>1
  <1>2. CASE Publish
    BY <1>2 DEF Publish
  <1>3. CASE \E k \in Msgs : AckWaitExpires(k)
    BY <1>3 DEF AckWaitExpires
  <1>4. CASE \E k \in Msgs : AckSync(k)
    BY <1>4 DEF AckSync, ReachInv, Delivered
  <1>5. CASE \E s \in Subjects : pullSubscribe(s)
    BY <1>5 DEF pullSubscribe, Redelivery, NextNew
  <1> QED
    BY <1>1, <1>2, <1>3, <1>4, <1>5, ConsumerSteps

\* Only these steps move a message between the hands of the pod.
LEMMA HeldSteps ==
    ASSUME [Next]_vars
    PROVE  \/ UNCHANGED held
           \/ Crash
           \/ \E s \in Subjects : pullSubscribe(s) \/ discardMsg(s) \/ acceptMsg(s)
  BY DEF Next, processMsgs, vars, server, pod, Publish, CronTick, AckWaitExpires,
         AckSync, AckSyncFails, StartPod, Disconnect, Shutdown, Subscribe,
         clearDependencyIfExistsBeforeTime, ClearBeforeTimeFails, Subscribed,
         finishMsg, skipDependency, triggerSingle,
         triggerAll, saveDependency, dependencyError, resetConditions,
         clearDependencyIfExists, clearDone, clearFails

\* Only finishMsg and discardMsg acknowledge another message.
LEMMA AckingSteps ==
    ASSUME [Next]_vars
    PROVE  \/ acking' \in SUBSET acking
           \/ finishMsg
           \/ \E s \in Subjects : discardMsg(s)
  <1>1. CASE processMsgs
    BY <1>1 DEF processMsgs, server, pod, acceptMsg,
         skipDependency, triggerSingle, triggerAll, saveDependency, dependencyError,
         resetConditions, clearDependencyIfExists, clearDone, clearFails
  <1>2. ASSUME NEW m \in Msgs, AckSync(m) \/ AckSyncFails(m)
        PROVE  acking' \in SUBSET acking
    BY <1>2 DEF AckSync, AckSyncFails
  <1>3. CASE Crash \/ Shutdown
    BY <1>3 DEF Crash, Shutdown
  <1>4. CASE UNCHANGED acking
    BY <1>4
  <1>5. \/ processMsgs \/ Crash \/ Shutdown \/ UNCHANGED acking
        \/ \E m \in Msgs : AckSync(m) \/ AckSyncFails(m)
    BY DEF Next, vars, server, pod, Publish, CronTick, AckWaitExpires,
         StartPod, Disconnect, Subscribe,
         clearDependencyIfExistsBeforeTime, ClearBeforeTimeFails, Subscribed, pullSubscribe
  <1> QED
    BY <1>1, <1>2, <1>3, <1>4, <1>5

\* A message is being processed from acceptMsg to finishMsg, or until the pod dies.
LEMMA BusySteps ==
    ASSUME [Next]_vars
    PROVE  \/ Busy /\ Busy' /\ cur' = cur
           \/ ~Busy /\ ~Busy' /\ cur' = cur
           \/ Crash /\ ~Busy' /\ cur' = 0
           \/ finishMsg /\ Busy /\ ~Busy' /\ cur' = 0
           \/ \E s \in Subjects : acceptMsg(s) /\ ~Busy /\ Busy' /\ cur' = held[s]
  <1> USE DEF Busy
  <1>1. CASE processMsgs
    BY <1>1 DEF processMsgs, server, pod, discardMsg, acceptMsg, finishMsg,
         skipDependency, triggerSingle, triggerAll, saveDependency, dependencyError,
         resetConditions, clearDependencyIfExists, clearDone, clearFails, AfterClear
  <1>2. CASE ~processMsgs
    BY <1>2 DEF Next, vars, server, pod, Publish, CronTick, AckWaitExpires,
         AckSync, AckSyncFails, Crash, StartPod, Disconnect, Shutdown, Subscribe,
         clearDependencyIfExistsBeforeTime, ClearBeforeTimeFails, Subscribed, pullSubscribe
  <1> QED
    BY <1>1, <1>2

\* What the pod has in its hands was delivered to it.
LEMMA ReachStep ==
    ASSUME TypeInv, RefInv, [Next]_vars
    PROVE  ReachInv'
  <1>0. content' = content /\ \A m \in Msgs : Delivered(m) => Delivered(m)'
    BY Monotone, DeliveredStays DEF RefInv
  <1> USE ConstantsAreNat DEF RefInv, ReachInv
  <1>1. ASSUME NEW s \in Subjects, held'[s] # 0
        PROVE  /\ consumer'[held'[s]] \in {"out", "ready", "acked"}
               /\ content[held'[s]].subject = s
    <2> USE DEF TypeInv, TypeOK, PodOK, ServerOK, Msgs
    <2>1. CASE held'[s] = held[s]
      <3>1. PICK m \in Msgs : m = held[s]
        BY <1>1, <2>1
      <3> QED
        BY <1>0, <1>1, <2>1, <3>1 DEF Delivered
    <2>2. CASE pullSubscribe(s)
      <3>1. PICK m \in Msgs : /\ content[m].subject = s
                              /\ consumer' = [consumer EXCEPT ![m] = "out"]
                              /\ held' = [held EXCEPT ![s] = m]
        BY <2>2 DEF pullSubscribe
      <3> QED
        BY <3>1
    <2>3. held'[s] = held[s] \/ pullSubscribe(s)
      BY <1>1, HeldSteps DEF Crash, pullSubscribe, discardMsg, acceptMsg
    <2> QED
      BY <2>1, <2>2, <2>3
  <1>2. IF Busy' THEN Delivered(cur)' ELSE cur' = 0
    <2>1. ASSUME NEW s \in Subjects, acceptMsg(s), cur' = held[s] PROVE Delivered(cur)'
      <3>1. held[s] \in Msgs /\ held[s] # 0
        BY <2>1 DEF acceptMsg, TypeInv, TypeOK, PodOK, Msgs
      <3>2. consumer' = consumer
        BY <2>1 DEF acceptMsg, server
      <3> QED
        BY <2>1, <3>1, <3>2 DEF Delivered
    <2>2. ASSUME Busy, Busy', cur' = cur PROVE Delivered(cur)'
      <3>1. cur \in Msgs
        BY <2>2 DEF TypeInv, Control, Busy
      <3>2. PICK m \in Msgs : m = cur
        BY <3>1
      <3> QED
        BY <1>0, <2>2, <3>2 DEF Delivered
    <2> QED
      BY <2>1, <2>2, BusySteps
  <1>3. ASSUME NEW m \in Msgs, alreadyReceived(m)' PROVE Delivered(m)'
    <2>1. alreadyReceived(m) \/ (finishMsg /\ m = cur)
      BY <1>3, RecentNew
    <2>2. Delivered(m)
      BY <2>1 DEF finishMsg, Busy
    <2> QED
      BY <1>0, <2>2
  <1>4. ASSUME NEW m \in acking' PROVE m \in Msgs /\ Delivered(m)'
    <2>1. \/ m \in acking
          \/ finishMsg /\ m = cur
          \/ \E s \in Subjects : discardMsg(s) /\ m = held[s]
      BY <1>4, AckingSteps DEF finishMsg, discardMsg
    <2>2. m \in Msgs /\ Delivered(m)
      <3>1. CASE m \in acking
        BY <3>1 DEF TypeInv, TypeOK, PodOK
      <3>2. CASE finishMsg /\ m = cur
        BY <3>2 DEF TypeInv, Control, finishMsg, Busy
      <3>3. ASSUME NEW s \in Subjects, discardMsg(s), m = held[s]
            PROVE  m \in Msgs /\ Delivered(m)
        BY <3>3 DEF TypeInv, TypeOK, PodOK, discardMsg, Msgs
      <3> QED
        BY <2>1, <3>1, <3>2, <3>3
    <2> QED
      BY <1>0, <2>2
  <1>5. \A m \in acking' : Delivered(m)'
    BY <1>4
  <1> QED
    BY <1>0, <1>1, <1>2, <1>3, <1>5 DEF Delivered

\* New messages are delivered in order.
LEMMA OrderStep ==
    ASSUME TypeInv, RefInv, [Next]_vars
    PROVE  OrderInv'
  <1> SUFFICES ASSUME NEW m \in Msgs, Delivered(m)', NEW k \in 1 .. m - 1,
                      content[k].subject = content[m].subject, consumer'[k] = "new"
               PROVE  FALSE
    BY Monotone DEF OrderInv, Delivered
  <1> USE ConstantsAreNat DEF RefInv, TypeInv, TypeOK, ServerOK, Msgs
  <1>1. k \in Msgs
    OBVIOUS
  <1>2. consumer[k] = "new" \/ (Publish /\ k = published + 1)
    BY <1>1, NewStep
  <1>3. CASE Delivered(m)
    <2>1. consumer[k] # "new"
      BY <1>3 DEF OrderInv
    <2>2. m <= published
      BY <1>3 DEF NumberInv, Delivered
    <2> QED
      BY <1>2, <2>1, <2>2
  <1>4. CASE ~Delivered(m)
    <2>1. PICK s \in Subjects : pullSubscribe(s) /\ NextNew(m)
      BY <1>4, FirstDelivery
    <2>2. consumer[k] # "new"
      BY <2>1 DEF NextNew
    <2>3. ~Publish
      BY <2>1 DEF pullSubscribe, Publish
    <2> QED
      BY <1>2, <2>2, <2>3
  <1> QED
    BY <1>3, <1>4

\* Without a fault the pod and its connection live on.
LEMMA AliveStep ==
    ASSUME TypeInv, RefInv, [Next]_vars
    PROVE  AliveInv'
  <1> SUFFICES ASSUME ~Faulty' PROVE AliveInv'
    BY DEF AliveInv
  <1>0. ~Faulty /\ pc \notin {"dead", "stuck"} /\ (pc # "none" => conn)
    BY FaultyStays DEF RefInv, AliveInv
  <1>1. ~Crash /\ ~Disconnect /\ ~Fault("delete") /\ ~Fault("evict")
    BY DEF Crash, Disconnect, Fault, Faulty, Forgetful
  <1>2. /\ pc' \notin {"dead", "stuck"}
        /\ pc' # "none" => conn'
        /\ pc' \in {"none", "subscribe"} => pc \in {"none", "subscribe"}
    <2>1. CASE processMsgs
      BY <1>0, <2>1 DEF processMsgs, server, pod, discardMsg, acceptMsg, finishMsg,
         skipDependency, triggerSingle, triggerAll, saveDependency, dependencyError,
         resetConditions, clearDependencyIfExists, clearDone, clearFails, AfterClear
    <2>2. CASE ~processMsgs
      BY <1>0, <1>1, <2>2 DEF Next, vars, server, pod, Publish, CronTick, AckWaitExpires,
         AckSync, AckSyncFails, StartPod, Shutdown, Subscribe,
         clearDependencyIfExistsBeforeTime, ClearBeforeTimeFails, Subscribed, pullSubscribe
    <2> QED
      BY <2>1, <2>2
  <1>3. ASSUME pc \in {"none", "subscribe"}, pc' \in {"none", "subscribe"}
        PROVE  /\ recent' = <<>> /\ settled' = {} /\ ~durable'
               /\ \A m \in Msgs : consumer'[m] \in {"none", "missed"}
    <2>1. /\ recent = <<>> /\ settled = {} /\ ~durable
          /\ \A m \in Msgs : consumer[m] \in {"none", "missed"}
      BY <1>0, <1>3 DEF RefInv, AliveInv
    <2>2. ~processMsgs
      BY <1>3 DEF processMsgs, discardMsg, acceptMsg, finishMsg,
         skipDependency, triggerSingle, triggerAll, saveDependency, dependencyError,
         resetConditions, clearDependencyIfExists, clearDone, clearFails
    <2>3. recent' = <<>> /\ settled' = settled /\ durable' = durable
      BY <1>0, <1>1, <1>3, <2>1, <2>2
         DEF Next, vars, server, pod, ghost, Publish, CronTick, AckWaitExpires,
         AckSync, AckSyncFails, StartPod, Shutdown, Subscribe,
         clearDependencyIfExistsBeforeTime, ClearBeforeTimeFails, Subscribed, pullSubscribe
    <2>4. ASSUME NEW m \in Msgs PROVE consumer'[m] \in {"none", "missed"}
      <3> USE DEF TypeInv, TypeOK, ServerOK, RefInv
      <3>1. CASE UNCHANGED consumer
        BY <2>1, <3>1
      <3>2. CASE Publish
        BY <2>1, <3>2 DEF Publish
      <3>3. CASE \E k \in Msgs : AckWaitExpires(k)
        BY <2>1, <3>3 DEF AckWaitExpires
      <3>4. CASE \E k \in Msgs : AckSync(k)
        BY <2>1, <3>4 DEF AckSync, ReachInv, Delivered
      <3>5. CASE \E s \in Subjects : pullSubscribe(s)
        BY <1>3, <3>5 DEF pullSubscribe
      <3> QED
        BY <3>1, <3>2, <3>3, <3>4, <3>5, ConsumerSteps
    <2> QED
      BY <2>1, <2>3, <2>4
  <1> QED
    BY <1>2, <1>3 DEF AliveInv

\* Without a fault a message is processed to its end.
LEMMA ProcessingKept ==
    ASSUME TypeInv, RefInv, [Next]_vars, ~Faulty', NEW m \in Msgs, Processing(m)
    PROVE  Processing(m)' \/ alreadyReceived(m)'
  <1>1. ~Crash
    BY DEF Crash, Fault, Faulty, Forgetful
  <1>2. CASE finishMsg
    BY <1>2, RecentKept DEF RefInv, Processing
  <1>3. CASE Busy' /\ cur' = cur
    BY <1>3 DEF Processing
  <1> QED
    BY <1>1, <1>2, <1>3, BusySteps DEF Processing

\* Without a fault no delivered message gets out of sight.
LEMMA KeptStep ==
    ASSUME TypeInv, RefInv, [Next]_vars
    PROVE  KeptInv'
  <1> SUFFICES ASSUME ~Faulty', NEW m \in Msgs, Delivered(m)', content[m].valid
               PROVE  \/ alreadyReceived(m)' \/ Processing(m)'
                      \/ held'[content[m].subject] = m
    BY Monotone DEF KeptInv, Delivered, Processing, alreadyReceived
  <1>0. ~Faulty /\ ~Crash /\ content[m].subject \in Subjects
    BY FaultyStays
       DEF Crash, Fault, Faulty, Forgetful, TypeInv, TypeOK, ServerOK, Contents
  <1>1. CASE ~Delivered(m)
    BY <1>1, FirstDelivery DEF RefInv
  <1>2. CASE alreadyReceived(m)
    BY <1>2, RecentKept DEF RefInv
  <1>3. CASE Processing(m)
    BY <1>3, ProcessingKept
  <1>4. CASE held[content[m].subject] = m /\ ~alreadyReceived(m)
    <2> USE DEF TypeInv, TypeOK, PodOK
    <2>1. PICK s \in Subjects : s = content[m].subject /\ held[s] = m /\ m # 0
      BY <1>0, <1>4, ConstantsAreNat DEF Msgs
    <2>2. CASE UNCHANGED held
      BY <2>1, <2>2
    <2>3. CASE \E t \in Subjects : pullSubscribe(t)
      BY <2>1, <2>3 DEF pullSubscribe
    <2>4. CASE \E t \in Subjects : discardMsg(t)
      BY <1>4, <2>1, <2>4 DEF discardMsg
    <2>5. ASSUME NEW t \in Subjects, acceptMsg(t)
          PROVE  Processing(m)' \/ held'[content[m].subject] = m
      <3>1. CASE t = s
        BY <2>1, <2>5, <3>1 DEF acceptMsg, Processing, Busy
      <3>2. CASE t # s
        BY <2>1, <2>5, <3>2 DEF acceptMsg
      <3> QED
        BY <3>1, <3>2
    <2> QED
      BY <1>0, <2>2, <2>3, <2>4, <2>5, HeldSteps
  <1> QED
    BY <1>0, <1>1, <1>2, <1>3, <1>4 DEF RefInv, KeptInv

\* A message that is delivered for the first time comes after all that the pod
\* has seen of its subject.
LEMMA NextNewIsLast ==
    ASSUME TypeInv, RefInv, NEW m \in Msgs, NextNew(m), NEW x \in Msgs, Delivered(x),
           content[x].subject = content[m].subject
    PROVE  x < m
  <1>1. x # m
    BY DEF NextNew, Delivered
  <1>2. ~(m < x)
    BY ConstantsAreNat DEF RefInv, OrderInv, NextNew, Msgs
  <1> QED
    BY <1>1, <1>2, ConstantsAreNat DEF Msgs

\* Without a fault messages of a subject are accepted in order.
LEMMA SequenceStep ==
    ASSUME TypeInv, RefInv, [Next]_vars
    PROVE  SequenceInv'
  <1> SUFFICES ASSUME ~Faulty' PROVE SequenceInv'
    BY DEF SequenceInv
  <1>0. ~Faulty /\ ~Crash /\ content' = content
    BY FaultyStays, Monotone DEF Crash, Fault, Faulty, Forgetful
  <1>1. ASSUME Busy'
        PROVE  /\ ~alreadyReceived(cur)'
               /\ \A x \in Msgs : alreadyReceived(x)' /\ content[x].subject = content[cur'].subject
                                     => x < cur'
    <2>1. ~finishMsg
      BY <1>1 DEF finishMsg, Busy
    <2>2. \A x \in Msgs : alreadyReceived(x)' => alreadyReceived(x)
      BY <2>1, RecentNew
    <2>3. CASE Busy /\ cur' = cur
      <3>1. PICK m \in Msgs : m = cur
        BY <2>3 DEF TypeInv, Control, Busy
      <3>2. /\ ~alreadyReceived(m)
            /\ \A x \in Msgs : alreadyReceived(x) /\ content[x].subject = content[m].subject
                                  => x < m
        BY <1>0, <2>3, <3>1 DEF RefInv, SequenceInv
      <3>3. ~alreadyReceived(m)'
        BY <2>2, <3>2
      <3> QED
        BY <2>2, <2>3, <3>1, <3>2, <3>3 DEF alreadyReceived
    <2>4. ASSUME NEW s \in Subjects, acceptMsg(s), ~Busy, cur' = held[s]
          PROVE  /\ ~alreadyReceived(cur)'
                 /\ \A x \in Msgs :
                       alreadyReceived(x)' /\ content[x].subject = content[cur'].subject => x < cur'
      <3>1. PICK m \in Msgs : m = held[s] /\ m # 0
        BY <2>4, ConstantsAreNat DEF acceptMsg, TypeInv, TypeOK, PodOK, Msgs
      <3>2. content[m].valid /\ ~alreadyReceived(m) /\ ~Processing(m)
        BY <2>4, <3>1 DEF acceptMsg, Processing
      <3>3. content[m].subject = s
        BY <3>1 DEF RefInv, ReachInv
      <3>4. \A x \in Msgs : alreadyReceived(x) /\ content[x].subject = s => x < m
        BY <1>0, <3>1, <3>2 DEF RefInv, SequenceInv
      <3>5. ~alreadyReceived(m)'
        BY <2>2, <3>2
      <3> QED
        BY <2>2, <2>4, <3>1, <3>3, <3>4, <3>5 DEF alreadyReceived
    <2> QED
      BY <1>0, <1>1, <2>1, <2>3, <2>4, BusySteps
  <1>2. ASSUME NEW s \in Subjects, NEW m \in Msgs, m = held'[s], m # 0, content[m].valid,
               ~alreadyReceived(m)', ~Processing(m)',
               NEW x \in Msgs, alreadyReceived(x)' \/ Processing(x)', content[x].subject = s
        PROVE  x < m
    <2>1. ~alreadyReceived(m) /\ ~Processing(m)
      BY <1>2, RecentKept, ProcessingKept DEF RefInv
    <2>2. CASE held[s] = m
      <3>1. \A y \in Msgs : (alreadyReceived(y) \/ Processing(y)) /\ content[y].subject = s => y < m
        BY <1>0, <1>2, <2>1, <2>2 DEF RefInv, SequenceInv
      <3>2. CASE alreadyReceived(x)'
        BY <1>2, <3>1, <3>2, RecentNew DEF finishMsg, Processing, Busy
      <3>3. CASE Processing(x)'
        <4>1. CASE Processing(x)
          BY <1>2, <3>1, <4>1
        <4>2. ASSUME NEW t \in Subjects, acceptMsg(t), x = held[t] PROVE FALSE
          <5>1. t = s
            BY <1>2, <4>2 DEF acceptMsg, RefInv, ReachInv
          <5>2. held'[s] = 0
            BY <4>2, <5>1 DEF acceptMsg, TypeInv, TypeOK, PodOK
          <5> QED
            BY <1>2, <5>2
        <4> QED
          BY <1>0, <3>3, <4>1, <4>2, BusySteps DEF Processing
      <3> QED
        BY <1>2, <3>2, <3>3
    <2>3. CASE held[s] # m
      <3>1. pullSubscribe(s)
        BY <1>0, <1>2, <2>3, HeldSteps
           DEF pullSubscribe, discardMsg, acceptMsg, TypeInv, TypeOK, PodOK
      <3>2. /\ content[m].subject = s /\ (Redelivery(m) \/ NextNew(m)) /\ held[s] = 0
            /\ UNCHANGED <<pc, cur, recent>>
        BY <1>2, <3>1 DEF pullSubscribe, TypeInv, TypeOK, PodOK
      <3>3. ~Redelivery(m)
        BY <1>0, <1>2, <2>1, <3>2 DEF RefInv, KeptInv, Redelivery, Delivered
      <3>4. Delivered(x)
        BY <1>2, <3>2 DEF RefInv, ReachInv, Processing, Busy, alreadyReceived
      <3> QED
        BY <1>2, <3>2, <3>3, <3>4, NextNewIsLast
    <2> QED
      BY <2>2, <2>3
  <1>3. \A s \in Subjects : held'[s] # 0 => held'[s] \in Msgs
    <2>1. TypeInv'
      BY TypeStep
    <2> QED
      BY <2>1, ConstantsAreNat DEF TypeInv, TypeOK, PodOK, Msgs
  <1>4. ASSUME NEW s \in Subjects, held'[s] # 0, content[held'[s]].valid,
               ~alreadyReceived(held[s])', ~Processing(held[s])',
               NEW x \in Msgs, (alreadyReceived(x) \/ Processing(x))', content[x].subject = s
        PROVE  x < held'[s]
    <2>1. PICK m \in Msgs : m = held'[s]
      BY <1>3, <1>4
    <2> QED
      BY <1>2, <1>4, <2>1 DEF alreadyReceived, Processing
  <1> QED
    BY <1>0, <1>1, <1>4 DEF SequenceInv, alreadyReceived, Processing

\* Without a fault what is settled is remembered, or part of the loop so far.
LEMMA SettledStep ==
    ASSUME TypeInv, RefInv, [Next]_vars
    PROVE  SettledInv'
  <1> SUFFICES ASSUME ~Faulty', NEW x \in Msgs, NEW d \in Deps, <<x, d>> \in settled'
               PROVE  /\ content[x].subject = trigger.subject[d]
                      /\ \/ alreadyReceived(x)'
                         \/ Processing(x)' /\ (d < dep' \/ (d = dep' /\ pc' = "clear"))
    BY Monotone DEF SettledInv, alreadyReceived, Processing
  <1>0. ~Faulty /\ ~Crash
    BY FaultyStays DEF Crash, Fault, Faulty, Forgetful
  <1>1. CASE <<x, d>> \in settled
    <2>1. /\ content[x].subject = trigger.subject[d]
          /\ \/ alreadyReceived(x)
             \/ Processing(x) /\ (d < dep \/ (d = dep /\ pc = "clear"))
      BY <1>0, <1>1 DEF RefInv, SettledInv
    <2>2. CASE alreadyReceived(x)
      BY <2>1, <2>2, RecentKept DEF RefInv
    <2>3. CASE Processing(x) /\ (d < dep \/ (d = dep /\ pc = "clear"))
      <3>1. CASE alreadyReceived(x)'
        BY <2>1, <3>1
      <3>2. CASE ~alreadyReceived(x)'
        <4>1. Processing(x)' /\ dep \in Nat
          BY <2>3, <3>2, ProcessingKept DEF TypeInv, TypeOK, PodOK
        <4>2. \/ dep' = dep /\ (pc' = pc \/ pc' = "clear")
              \/ dep' = dep + 1
          BY <1>0, <2>3, <4>1
             DEF Processing, Busy, Next, processMsgs, vars, server, pod, Publish, CronTick,
             AckWaitExpires, AckSync, AckSyncFails, StartPod, Disconnect, Shutdown,
             Subscribe, clearDependencyIfExistsBeforeTime, ClearBeforeTimeFails, Subscribed,
             pullSubscribe, discardMsg, acceptMsg, finishMsg, skipDependency, triggerSingle,
             triggerAll, saveDependency, dependencyError, resetConditions,
             clearDependencyIfExists, clearDone, clearFails, AfterClear
        <4> QED
          BY <2>1, <2>3, <4>1, <4>2 DEF Deps
      <3> QED
        BY <3>1, <3>2
    <2> QED
      BY <2>1, <2>2, <2>3
  <1>2. CASE <<x, d>> \notin settled
    <2>1. triggerSingle \/ triggerAll \/ saveDependency
      BY <1>2 DEF Next, processMsgs, vars, server, pod, ghost, Publish, CronTick,
         AckWaitExpires, AckSync, AckSyncFails, Crash, StartPod, Disconnect, Shutdown,
         Subscribe, clearDependencyIfExistsBeforeTime, ClearBeforeTimeFails, Subscribed,
         pullSubscribe, discardMsg, acceptMsg, finishMsg, skipDependency,
         dependencyError, resetConditions, clearDependencyIfExists, clearDone, clearFails
    <2>2. x = cur /\ d = dep /\ interested(cur, dep) /\ dep \in Nat
      BY <1>2, <2>1 DEF triggerSingle, triggerAll, saveDependency, TypeInv, TypeOK, PodOK
    <2>3. Processing(x)' /\ (d < dep' \/ (d = dep' /\ pc' = "clear"))
      BY <2>1, <2>2 DEF triggerSingle, triggerAll, saveDependency, Processing, Busy
    <2> QED
      BY <2>2, <2>3 DEF interested
  <1> QED
    BY <1>1, <1>2

\* The event of a dependency that makes the condition true replaces none: with one
\* saved for it the condition would have been true before.
LEMMA FiresUnsaved ==
    ASSUME TypeInv, SavedEventsIncomplete, triggerAll
    PROVE  dep \in Deps /\ kv[dep] = 0
  <1>1. dep \in Deps
    BY ConstantsAreNat DEF triggerAll, TypeInv, Control, Deps
  <1>2. dep \in savedDeps => savedDeps \cup {dep} = savedDeps
    OBVIOUS
  <1> QED
    BY <1>1, <1>2 DEF triggerAll, SavedEventsIncomplete, savedDeps

\* The bucket is written by these steps only.
LEMMA KvSteps ==
    ASSUME [Next]_vars
    PROVE  \/ UNCHANGED kv \/ saveDependency \/ clearDependencyIfExistsBeforeTime
           \/ clearDependencyIfExists
  BY DEF Next, processMsgs, vars, server, Publish, CronTick, AckWaitExpires,
         AckSync, AckSyncFails, Crash, StartPod, Disconnect, Shutdown, Subscribe,
         ClearBeforeTimeFails, Subscribed, pullSubscribe, discardMsg, acceptMsg,
         finishMsg, skipDependency, triggerSingle, triggerAll, dependencyError,
         resetConditions, clearDone, clearFails

\* A deletion from the bucket is one of the entry the loop is at.
LEMMA ClearSteps ==
    ASSUME TypeInv, clearDependencyIfExistsBeforeTime \/ clearDependencyIfExists
    PROVE  /\ key \in Deps
           /\ kv' = kv \/ kv' = [kv EXCEPT ![key] = 0]
  BY ConstantsAreNat
     DEF clearDependencyIfExistsBeforeTime, clearDependencyIfExists, TypeInv, Control, Deps

\* Only conjunctions save events, and what a firing is about to delete was used.
LEMMA SavedInvStep ==
    ASSUME TypeInv, RefInv, SavedEventsIncomplete, [Next]_vars
    PROVE  SavedInv'
  <1> USE DEF TypeInv, TypeOK, ServerOK
  <1>1. ASSUME ~trigger'.requiresAND, NEW d \in Deps PROVE kv'[d] = 0
    <2>1. ~trigger.requiresAND /\ kv[d] = 0
      BY <1>1, Monotone DEF RefInv, SavedInv
    <2>2. CASE clearDependencyIfExistsBeforeTime \/ clearDependencyIfExists
      BY <2>1, <2>2, ClearSteps
    <2> QED
      BY <2>1, <2>2, KvSteps DEF saveDependency
  <1>2. ASSUME pc' = "clear", NEW d \in Deps, key' <= d, kv'[d] # 0
        PROVE  used'[kv'[d]][d] > 0
    <2>1. CASE triggerAll
      <3>1. kv' = kv /\ dep \in Deps /\ kv[dep] = 0
        BY <2>1, FiresUnsaved DEF triggerAll, server
      <3>2. d \in savedDeps /\ d # dep /\ kv[d] \in Msgs
        BY <1>2, <3>1, ConstantsAreNat DEF savedDeps, Msgs
      <3>3. d \in DOMAIN messages /\ messages[d] = kv[d]
        BY <3>2 DEF messages
      <3>4. used'[kv[d]][d] = used[kv[d]][d] + 1
        BY <2>1, <3>2, <3>3 DEF triggerAll
      <3>5. used[kv[d]][d] \in Nat
        BY <3>2 DEF GhostOK
      <3> QED
        BY <3>1, <3>4, <3>5
    <2>2. CASE ~triggerAll
      <3>1. pc = "clear" /\ used' = used
        BY <1>2, <2>2 DEF Next, processMsgs, vars, server, pod, ghost, Publish, CronTick,
         AckWaitExpires, AckSync, AckSyncFails, Crash, StartPod, Disconnect, Shutdown,
         Subscribe, clearDependencyIfExistsBeforeTime, ClearBeforeTimeFails, Subscribed,
         pullSubscribe, discardMsg, acceptMsg, finishMsg, skipDependency, triggerSingle,
         saveDependency, dependencyError, resetConditions, clearDependencyIfExists,
         clearDone, clearFails, AfterClear
      <3>2. \A e \in Deps : key <= e /\ kv[e] # 0 => used[kv[e]][e] > 0
        BY <3>1 DEF RefInv, SavedInv
      <3>3. CASE clearDependencyIfExists
        <4>1. key' = key + 1 /\ kv' = [kv EXCEPT ![key] = 0] /\ key \in Deps
          BY <3>3, ClearSteps DEF clearDependencyIfExists
        <4>2. key <= d /\ d # key /\ kv'[d] = kv[d]
          BY <1>2, <4>1 DEF Deps
        <4> QED
          BY <1>2, <3>1, <3>2, <4>2
      <3>4. CASE ~clearDependencyIfExists
        <4>1. kv' = kv
          BY <3>1, <3>4, KvSteps DEF saveDependency, clearDependencyIfExistsBeforeTime
        <4>2. key' = key
          BY <1>2, <3>1, <3>4 DEF Next, processMsgs, vars, server, pod, Publish, CronTick,
           AckWaitExpires, AckSync, AckSyncFails, Crash, StartPod, Disconnect, Shutdown,
           Subscribe, clearDependencyIfExistsBeforeTime, ClearBeforeTimeFails, Subscribed,
           pullSubscribe, discardMsg, acceptMsg, finishMsg, skipDependency, triggerSingle,
           triggerAll, saveDependency, dependencyError, resetConditions, clearDone,
           clearFails, AfterClear
        <4> QED
          BY <1>2, <3>1, <3>2, <4>1, <4>2
      <3> QED
        BY <3>3, <3>4
    <2> QED
      BY <2>1, <2>2
  <1> QED
    BY <1>1, <1>2 DEF SavedInv

\* Every step keeps the invariant.
LEMMA RefStep ==
    ASSUME TypeInv, RefInv, SavedEventsIncomplete, [Next]_vars
    PROVE  RefInv'
  BY NumberStep, ReachStep, OrderStep, AliveStep, KeptStep, SequenceStep, SettledStep,
     SavedInvStep DEF RefInv
-----------------------------------------------------------------------------
(* The refinement.                                                         *)

\* Nothing is held, taken or used at first.
LEMMA AbstractInit == Init => Abstract!Init
  <1> SUFFICES ASSUME Init PROVE Abstract!Init
    OBVIOUS
  <1>1. PICK sc \in Scenarios : trigger = sc.trigger
    BY DEF Init
  <1>2. trigger.expression \in SUBSET SUBSET Deps
    BY <1>1, ConstantsAssumption DEF ConstantsAssumption, TriggerSpecs
  <1>3. heldEvents = [d \in Deps |-> 0]
    BY DEF Init, heldEvents
  <1>4. (happened \cap Forgetful # {}) = FALSE
    BY DEF Init
  <1> QED
    BY <1>2, <1>3, <1>4 DEF Init, Abstract!Init, Abstract!None

\* The order in which a dependency takes its events.
LEMMA TakenInOrder ==
    ASSUME TypeInv, RefInv, pc = "dep", dep \in Deps, interested(cur, dep)
    PROVE  Faulty \/ \A x \in Msgs : <<x, dep>> \in settled => x < cur
  <1> SUFFICES ASSUME ~Faulty, NEW x \in Msgs, <<x, dep>> \in settled PROVE x < cur
    OBVIOUS
  <1>1. content[x].subject = content[cur].subject /\ alreadyReceived(x)
    BY DEF RefInv, SettledInv, interested, Deps
  <1> QED
    BY <1>1 DEF RefInv, SequenceInv, Busy

\* What the connection holds is events.
LEMMA HeldType ==
    ASSUME TypeInv
    PROVE  heldEvents \in [Deps -> Msgs \cup {0}]
  BY ConstantsAreNat DEF TypeInv, TypeOK, ServerOK, heldEvents, Msgs

\* A step that touches nothing of the interface is no step of it, and when a fault
\* is what happened, it is a lapse without consequence.
LEMMA Hidden ==
    ASSUME TypeInv, [Next]_vars, heldEvents' = heldEvents, settled' = settled, used' = used
    PROVE  [Abstract!Next]_(Abstract!vars)
  <1>1. trigger' = trigger /\ happened \subseteq happened'
    BY Monotone
  <1>2. CASE (happened \cap Forgetful # {})' <=> (happened \cap Forgetful # {})
    BY <1>1, <1>2 DEF Abstract!vars
  <1>3. CASE (happened \cap Forgetful # {})'
    <2>1. heldEvents' \in [Deps -> Msgs \cup {0}]
      BY HeldType
    <2> QED
      BY <1>1, <1>3, <2>1 DEF Abstract!Next, Abstract!Lapse
  <1> QED
    BY <1>1, <1>2, <1>3

\* Events come back with a fault: what is left of those that an action has used.
LEMMA ComesBack ==
    ASSUME TypeInv, RefInv, [Next]_vars, Faulty', pc = "clear", pc' # "clear",
           kv' = kv, settled' = settled, used' = used
    PROVE  Abstract!Next
  <1>1. trigger' = trigger
    BY Monotone
  <1>2. heldEvents' = kv /\ heldEvents' \in [Deps -> Msgs \cup {0}]
    BY ConstantsAreNat DEF heldEvents, TypeInv, TypeOK, ServerOK, Msgs
  <1>3. ASSUME NEW d \in Deps, heldEvents'[d] # heldEvents[d]
        PROVE  heldEvents'[d] = 0 \/ used[heldEvents'[d]][d] > 0
    BY <1>2, <1>3 DEF heldEvents, RefInv, SavedInv
  <1>4. Abstract!Lapse
    BY <1>1, <1>2, <1>3 DEF Abstract!Lapse, Faulty
  <1> QED
    BY <1>4 DEF Abstract!Next

\* Deleting the entry of a dependency forgets what is held for it.
LEMMA Forgets ==
    ASSUME TypeInv, [Next]_vars, NEW d \in Deps, kv' = [kv EXCEPT ![d] = 0],
           pc # "clear", pc' = pc, UNCHANGED <<settled, used, happened>>
    PROVE  Abstract!Next
  <1>1. trigger' = trigger
    BY Monotone
  <1>2. heldEvents' = [heldEvents EXCEPT ![d] = 0]
    BY DEF heldEvents, TypeInv, TypeOK, ServerOK
  <1>3. Abstract!Forget(d)
    BY <1>1, <1>2 DEF Abstract!Forget
  <1> QED
    BY <1>3 DEF Abstract!Next

\* saveDependency holds the event.
LEMMA Holds ==
    ASSUME TypeInv, RefInv, [Next]_vars, saveDependency
    PROVE  Abstract!Next
  <1>1. PICK d \in Deps, e \in Msgs : d = dep /\ e = cur
    BY ConstantsAreNat DEF saveDependency, TypeInv, Control, Deps
  <1>2. heldEvents = kv /\ heldEvents' = [heldEvents EXCEPT ![d] = e]
    BY <1>1 DEF saveDependency, heldEvents, TypeInv, TypeOK, ServerOK
  <1>3. Abstract!Received(d) = savedDeps \cup {dep}
    BY <1>1, <1>2 DEF Abstract!Received, savedDeps
  <1>4. Abstract!Take(d, e)
    <2>1. happened \cap Forgetful # {} \/ \A x \in Msgs : <<x, d>> \in settled => x < e
      BY <1>1, TakenInOrder DEF saveDependency, Faulty
    <2> QED
      BY <1>1, <2>1, Monotone DEF Abstract!Take, saveDependency
  <1>5. Abstract!Hold(d, e)
    BY <1>1, <1>2, <1>3, <1>4 DEF Abstract!Hold, saveDependency
  <1> QED
    BY <1>5 DEF Abstract!Next

\* triggerAll gives the action the events held and the one received.
LEMMA FiresAll ==
    ASSUME TypeInv, RefInv, [Next]_vars, triggerAll
    PROVE  Abstract!Next
  <1>1. PICK d \in Deps, e \in Msgs : d = dep /\ e = cur
    BY ConstantsAreNat DEF triggerAll, TypeInv, Control, Deps
  <1>2. heldEvents = kv /\ kv \in [Deps -> 0 .. MaxMsgs]
    BY <1>1 DEF triggerAll, heldEvents, TypeInv, TypeOK, ServerOK
  <1>3. heldEvents' = [x \in Deps |-> 0]
    BY ConstantsAreNat DEF triggerAll, heldEvents, Deps
  <1>4. Abstract!Received(d) = savedDeps \cup {dep}
    BY <1>1, <1>2 DEF Abstract!Received, savedDeps
  <1>5. Abstract!Take(d, e)
    <2>1. happened \cap Forgetful # {} \/ \A x \in Msgs : <<x, d>> \in settled => x < e
      BY <1>1, TakenInOrder DEF triggerAll, Faulty
    <2> QED
      BY <1>1, <2>1, Monotone DEF Abstract!Take, triggerAll
  <1>6. ASSUME NEW x \in Msgs, NEW y \in Deps
        PROVE  y \in DOMAIN messages /\ messages[y] = x <=> [heldEvents EXCEPT ![d] = e][y] = x
    BY <1>1, <1>2, ConstantsAreNat DEF messages, savedDeps, Msgs
  <1>7. used' = [x \in Msgs |-> [y \in Deps |->
                   IF [heldEvents EXCEPT ![d] = e][y] = x THEN used[x][y] + 1 ELSE used[x][y]]]
    BY <1>6 DEF triggerAll
  <1>8. Abstract!Fire(d, e)
    BY <1>1, <1>3, <1>4, <1>5, <1>7 DEF Abstract!Fire, Abstract!None, triggerAll
  <1> QED
    BY <1>8 DEF Abstract!Next

\* triggerSingle gives the action one event: nothing else is held.
LEMMA FiresSingle ==
    ASSUME TypeInv, RefInv, [Next]_vars, triggerSingle
    PROVE  Abstract!Next
  <1>1. PICK d \in Deps, e \in Msgs : d = dep /\ e = cur
    BY ConstantsAreNat DEF triggerSingle, TypeInv, Control, Deps
  <1>2. heldEvents = [x \in Deps |-> 0] /\ heldEvents' = [x \in Deps |-> 0]
    BY DEF triggerSingle, heldEvents, server, RefInv, SavedInv
  <1>3. Abstract!Received(d) \in trigger.expression
    <2>1. PICK sc \in Scenarios : trigger = sc.trigger
      BY DEF TypeInv, TypeOK, ServerOK, Triggers
    <2>2. {d} \in trigger.expression
      BY <2>1, ExpressionAssumption DEF ExpressionAssumption, triggerSingle
    <2>3. Abstract!Received(d) = {d}
      BY <1>2 DEF Abstract!Received
    <2> QED
      BY <2>2, <2>3
  <1>4. Abstract!Take(d, e)
    <2>1. happened \cap Forgetful # {} \/ \A x \in Msgs : <<x, d>> \in settled => x < e
      BY <1>1, TakenInOrder DEF triggerSingle, Faulty
    <2> QED
      BY <1>1, <2>1, Monotone DEF Abstract!Take, triggerSingle
  <1>5. used' = [x \in Msgs |-> [y \in Deps |->
                   IF [heldEvents EXCEPT ![d] = e][y] = x THEN used[x][y] + 1 ELSE used[x][y]]]
    <2>1. used \in [Msgs -> [Deps -> Nat]] /\ used' = [used EXCEPT ![e][d] = @ + 1]
      BY <1>1 DEF TypeInv, TypeOK, GhostOK, triggerSingle
    <2>2. \A x \in Msgs, y \in Deps : [heldEvents EXCEPT ![d] = e][y] = x <=> y = d /\ x = e
      <3>1. heldEvents \in [Deps -> {0}] /\ d \in Deps /\ e \in Msgs
        BY <1>1, <1>2
      <3>2. \A y \in Deps : [heldEvents EXCEPT ![d] = e][y] = IF y = d THEN e ELSE 0
        BY <3>1
      <3>3. 0 \notin Msgs
        BY ConstantsAreNat DEF Msgs
      <3> QED
        BY <3>2, <3>3
    <2>3. \A x \in Msgs, y \in Deps :
             used'[x][y] = IF y = d /\ x = e THEN used[x][y] + 1 ELSE used[x][y]
      BY <1>1, <2>1
    <2>4. used' \in [Msgs -> [Deps -> Nat]]
      BY <1>1, <2>1
    <2> QED
      BY <2>2, <2>3, <2>4
  <1>6. Abstract!Fire(d, e)
    BY <1>1, <1>2, <1>3, <1>4, <1>5 DEF Abstract!Fire, Abstract!None
  <1> QED
    BY <1>6 DEF Abstract!Next

\* The step of clearAllDependencies that ends it early: on a live connection that
\* is a fault, on a dead one the fault was the disconnection.
LEMMA ClearFails ==
    ASSUME TypeInv, RefInv, [Next]_vars, clearFails
    PROVE  [Abstract!Next]_(Abstract!vars)
  <1>1. kv' = kv /\ settled' = settled /\ used' = used
    BY DEF clearFails, server
  <1>2. CASE pc = "clear"
    <2>1. Faulty'
      <3>1. CASE Fault("delete")
        BY <3>1 DEF Fault, Faulty, Forgetful
      <3>2. CASE ~conn
        BY <1>2, <3>2, FaultyStays DEF RefInv, AliveInv
      <3> QED
        BY <3>1, <3>2 DEF clearFails, RequestFails
    <2>2. pc' # "clear"
      BY <1>2 DEF clearFails, AfterClear
    <2> QED
      BY <1>1, <1>2, <2>1, <2>2, ComesBack
  <1>3. CASE pc = "reset"
    <2>1. heldEvents' = heldEvents
      BY <1>1, <1>3 DEF heldEvents, clearFails, AfterClear
    <2> QED
      BY <1>1, <2>1, Hidden
  <1> QED
    BY <1>2, <1>3 DEF clearFails

\* clearAllDependencies deletes, after an action what is no longer held, for a
\* reset what is.
LEMMA Clears ==
    ASSUME TypeInv, RefInv, [Next]_vars,
           clearDependencyIfExists \/ clearDependencyIfExistsBeforeTime \/ clearDone
    PROVE  [Abstract!Next]_(Abstract!vars)
  <1>0. UNCHANGED <<settled, used, happened>> /\ kv \in [Deps -> 0 .. MaxMsgs]
    BY DEF clearDependencyIfExists, clearDependencyIfExistsBeforeTime, clearDone, ghost,
           TypeInv, TypeOK, ServerOK
  <1>1. CASE clearDone
    <2>1. heldEvents = kv /\ heldEvents' = kv
      BY <1>0, <1>1, ConstantsAreNat
         DEF clearDone, AfterClear, heldEvents, server, Deps
    <2> QED
      BY <1>0, <2>1, Hidden
  <1>2. CASE clearDependencyIfExists /\ pc = "clear"
    <2>1. key \in Deps /\ pc' = pc /\ key' = key + 1 /\ kv' = [kv EXCEPT ![key] = 0]
      BY <1>2, ClearSteps DEF clearDependencyIfExists
    <2>2. \A d \in Deps : heldEvents'[d] = heldEvents[d]
      BY <1>0, <1>2, <2>1 DEF heldEvents, Deps
    <2>3. heldEvents' = heldEvents
      BY <2>2 DEF heldEvents
    <2> QED
      BY <1>0, <2>3, Hidden
  <1>3. CASE (clearDependencyIfExists \/ clearDependencyIfExistsBeforeTime) /\ pc # "clear"
    <2>1. /\ key \in Deps /\ pc' = pc
          /\ kv' = kv \/ kv' = [kv EXCEPT ![key] = 0]
      BY <1>3, ClearSteps DEF clearDependencyIfExists, clearDependencyIfExistsBeforeTime
    <2>2. CASE kv' = kv
      <3>1. heldEvents' = heldEvents
        BY <1>3, <2>1, <2>2 DEF heldEvents
      <3> QED
        BY <1>0, <3>1, Hidden
    <2>3. CASE kv' = [kv EXCEPT ![key] = 0]
      BY <1>0, <1>3, <2>1, <2>3, Forgets
    <2> QED
      BY <2>1, <2>2, <2>3
  <1> QED
    BY <1>1, <1>2, <1>3 DEF clearDependencyIfExistsBeforeTime

\* Every step of the pod, the server and the faults is a step of TriggerConnection
\* or none at all.
LEMMA AbstractStep ==
    ASSUME TypeInv, RefInv, [Next]_vars
    PROVE  [Abstract!Next]_(Abstract!vars)
  <1>1. CASE triggerSingle \/ triggerAll \/ saveDependency
    BY <1>1, FiresSingle, FiresAll, Holds
  <1>2. CASE clearDependencyIfExists \/ clearDependencyIfExistsBeforeTime \/ clearDone
    BY <1>2, Clears
  <1>3. CASE clearFails
    BY <1>3, ClearFails
  <1>4. CASE Crash
    <2>1. Faulty'
      BY <1>4 DEF Crash, Fault, Faulty, Forgetful
    <2>2. kv' = kv /\ settled' = settled /\ used' = used /\ pc' = "dead"
      BY <1>4 DEF Crash, server
    <2>3. CASE pc = "clear"
      BY <2>1, <2>2, <2>3, ComesBack
    <2>4. CASE pc # "clear"
      <3>1. heldEvents' = heldEvents
        BY <2>2, <2>4 DEF heldEvents
      <3> QED
        BY <2>2, <3>1, Hidden
    <2> QED
      BY <2>3, <2>4
  <1>5. CASE ~(\/ triggerSingle \/ triggerAll \/ saveDependency
               \/ clearDependencyIfExists \/ clearDependencyIfExistsBeforeTime \/ clearDone
               \/ clearFails \/ Crash)
    <2>1. /\ UNCHANGED <<kv, settled, used>>
          /\ \/ pc' = pc /\ key' = key
             \/ pc # "clear" /\ pc' # "clear"
      BY <1>5 DEF Next, processMsgs, vars, server, pod, ghost, Publish, CronTick,
         AckWaitExpires, AckSync, AckSyncFails, StartPod, Disconnect, Shutdown,
         Subscribe, ClearBeforeTimeFails, Subscribed,
         pullSubscribe, discardMsg, acceptMsg, finishMsg, skipDependency,
         dependencyError, resetConditions
    <2>2. heldEvents' = heldEvents
      BY <2>1 DEF heldEvents
    <2> QED
      BY <2>1, <2>2, Hidden
  <1> QED
    BY <1>1, <1>2, <1>3, <1>4, <1>5

\* The invariant holds in every reachable state.
LEMMA RefInvariant == Spec => [](TypeInv /\ RefInv)
  <1>1. TypeInv /\ SavedEventsIncomplete /\ RefInv /\ [Next]_vars => RefInv'
    BY RefStep
  <1> QED
    BY <1>1, TypeInit, TypeStep, RefInit, SavedNeverComplete, PTL DEF Spec

\* The JetStream trigger connection implements TriggerConnection: whatever is lost,
\* redelivered, disconnected or restarted, the action runs exactly when the
\* expression becomes true, with the latest events, and uses them up; and as long
\* as no fault makes the pod forget, each dependency takes its events in order and
\* once.
THEOREM Refinement == Spec => ImplementsTriggerConnection
  <1>1. TypeInv /\ RefInv /\ [Next]_vars => [Abstract!Next]_(Abstract!vars)
    BY AbstractStep
  <1> QED
    BY <1>1, AbstractInit, RefInvariant, PTL
       DEF Spec, ImplementsTriggerConnection, Abstract!Spec
-----------------------------------------------------------------------------
(* What follows for the events of one connection.                          *)

\* In terms of the abstract state: an event that an action has used was taken, and
\* is not held any more.
OnceInv ==
    ~Faulty =>
        /\ \A d \in Deps : heldEvents[d] # 0 => <<heldEvents[d], d>> \in settled
        /\ \A m \in Msgs, d \in Deps :
              /\ used[m][d] \in {0, 1}
              /\ used[m][d] = 1 => <<m, d>> \in settled /\ heldEvents[d] # m

\* Steps of TriggerConnection keep it.
LEMMA OnceStep ==
    ASSUME OnceInv, heldEvents \in [Deps -> Msgs \cup {0}], Faulty => Faulty',
           [Abstract!Next]_(Abstract!vars)
    PROVE  OnceInv'
  <1> SUFFICES ASSUME ~Faulty' PROVE OnceInv'
    BY DEF OnceInv
  <1>0. ~Faulty /\ \A m \in Msgs : m \in Nat \ {0}
    BY ConstantsAreNat DEF Msgs
  <1>1. CASE UNCHANGED Abstract!vars
    BY <1>0, <1>1 DEF Abstract!vars, OnceInv
  <1>2. ASSUME NEW d \in Deps, NEW e \in Msgs, Abstract!Hold(d, e)
        PROVE  OnceInv'
    <2>1. /\ settled' = settled \cup {<<e, d>>} /\ used' = used
          /\ heldEvents' = [heldEvents EXCEPT ![d] = e] /\ <<e, d>> \notin settled
      BY <1>0, <1>2 DEF Abstract!Hold, Abstract!Take, Faulty
    <2> QED
      BY <1>0, <2>1 DEF OnceInv
  <1>3. ASSUME NEW d \in Deps, NEW e \in Msgs, Abstract!Fire(d, e)
        PROVE  OnceInv'
    <2> DEFINE event == [heldEvents EXCEPT ![d] = e]
    <2>1. /\ settled' = settled \cup {<<e, d>>} /\ heldEvents' = [x \in Deps |-> 0]
          /\ <<e, d>> \notin settled
          /\ used' = [x \in Msgs |-> [y \in Deps |->
                        IF event[y] = x THEN used[x][y] + 1 ELSE used[x][y]]]
      BY <1>0, <1>3 DEF Abstract!Fire, Abstract!Take, Abstract!None, Faulty
    <2>2. ASSUME NEW m \in Msgs, NEW y \in Deps
          PROVE  used'[m][y] \in {0, 1} /\ (used'[m][y] = 1 => <<m, y>> \in settled')
      <3>1. CASE event[y] = m
        <4>1. used[m][y] = 0 /\ <<m, y>> \in settled'
          BY <1>0, <2>1, <3>1 DEF OnceInv
        <4> QED
          BY <2>1, <3>1, <4>1
      <3>2. CASE event[y] # m
        BY <1>0, <2>1, <3>2 DEF OnceInv
      <3> QED
        BY <3>1, <3>2
    <2> QED
      BY <1>0, <2>1, <2>2 DEF OnceInv
  <1>4. ASSUME NEW d \in Deps, Abstract!Forget(d)
        PROVE  OnceInv'
    BY <1>0, <1>4 DEF OnceInv, Abstract!Forget
  <1>5. ~Abstract!Lapse
    BY DEF Abstract!Lapse, Faulty
  <1> QED
    BY <1>1, <1>2, <1>3, <1>4, <1>5 DEF Abstract!Next

\* As long as the pod and its connection live, the cache is not purged and
\* deletions succeed, an event takes part in at most one firing per dependency,
\* however often acknowledgements fail, expire and messages are redelivered: the
\* cache of message IDs and the order of the durable consumers are enough.  The
\* proof goes through the abstract specification.
THEOREM AtMostOnce == Spec => []AtMostOncePerConnection
  <1>1. Init => OnceInv
    <2> SUFFICES ASSUME Init PROVE OnceInv
      OBVIOUS
    <2> QED
      BY DEF Init, OnceInv, heldEvents, Deps, Msgs
  <1>2. TypeInv /\ RefInv /\ OnceInv /\ [Next]_vars => OnceInv'
    <2> SUFFICES ASSUME TypeInv, RefInv, OnceInv, [Next]_vars PROVE OnceInv'
      OBVIOUS
    <2>1. [Abstract!Next]_(Abstract!vars)
      BY AbstractStep
    <2> QED
      BY <2>1, OnceStep, HeldType, FaultyStays
  <1>3. OnceInv => AtMostOncePerConnection
    <2> SUFFICES ASSUME OnceInv, ~Faulty, NEW m \in Msgs, NEW d \in Deps
                 PROVE  used[m][d] <= 1
      BY DEF AtMostOncePerConnection, Faulty, Forgetful
    <2>1. used[m][d] \in {0, 1}
      BY DEF OnceInv
    <2> QED
      BY <2>1
  <1> QED
    BY <1>1, <1>2, <1>3, RefInvariant, PTL DEF Spec
-----------------------------------------------------------------------------
(* The conditions reset                                                    *)

\* The steps that a reset is about; the others leave the bucket, the schedule
\* and the loops of a reset alone.
LEMMA ResetSteps ==
    ASSUME TypeInv, [Next]_vars
    PROVE  \/ /\ UNCHANGED <<kv, savedTick, ticks, lastTick, podReset, pending, resetLost>>
              /\ published <= published'
              /\ UNCHANGED <<pc, key>> \/ pc \in {"idle", "dep"}
           \/ CronTick \/ Crash \/ StartPod \/ Subscribe
           \/ clearDependencyIfExistsBeforeTime \/ ClearBeforeTimeFails \/ Subscribed
           \/ saveDependency \/ resetConditions
           \/ clearDependencyIfExists \/ clearDone \/ clearFails
  BY DEF TypeInv, TypeOK, ServerOK, Next, processMsgs, vars, server, pod, ghost,
         Publish, AckWaitExpires, AckSync, AckSyncFails, Disconnect, Shutdown,
         pullSubscribe, discardMsg, acceptMsg, finishMsg, skipDependency,
         triggerSingle, triggerAll, dependencyError

\* Every step keeps ResetInv.
LEMMA ResetStep ==
    ASSUME TypeInv, RefInv, ResetInv, [Next]_vars
    PROVE  ResetInv'
  <1> SUFFICES ASSUME NEW d \in Deps
               PROVE  (/\ kv[d] <= published
                       /\ ToReset(d) => kv[d] <= lastTick
                       /\ ToReset(d) /\ ~resetLost => ResetComes(d))'
    BY DEF ResetInv
  <1>0. /\ kv[d] <= published
        /\ ToReset(d) => kv[d] <= lastTick
        /\ ToReset(d) /\ ~resetLost => ResetComes(d)
    BY DEF ResetInv
  <1>t. /\ kv \in [Deps -> 0 .. MaxMsgs] /\ savedTick \in [Deps -> Nat]
        /\ published \in Nat /\ lastTick \in Nat /\ podReset \in Nat
        /\ pending \in Nat /\ key \in Nat /\ kv[d] \in Nat /\ d \in Nat
        /\ d <= NumDeps /\ 1 <= d
        /\ pc \in PCs /\ NumDeps \in Nat /\ ticks \in Nat /\ cur \in Nat
    BY ConstantsAreNat DEF TypeInv, TypeOK, ServerOK, PodOK, GhostOK, Deps
  <1> USE DEF ToReset, ResetComes
  <1>1. CASE /\ UNCHANGED <<kv, savedTick, ticks, lastTick, podReset, pending, resetLost>>
             /\ published <= published'
             /\ UNCHANGED <<pc, key>> \/ pc \in {"idle", "dep"}
    <2>1. kv'[d] <= published'
      BY <1>0, <1>1, <1>t, TypeStep DEF TypeInv, TypeOK, ServerOK
    <2> QED
      BY <1>0, <1>1, <2>1
  <1>2. CASE CronTick
    BY <1>0, <1>2, <1>t DEF CronTick
  <1>3. CASE Crash
    BY <1>0, <1>3 DEF Crash, server
  <1>4. CASE StartPod
    BY <1>0, <1>4 DEF StartPod, server, ghost
  <1>5. CASE Subscribe
    BY <1>0, <1>5, <1>t DEF Subscribe, server, ghost
  <1>6. CASE clearDependencyIfExistsBeforeTime
    <2>1. /\ UNCHANGED <<published, lastTick, ticks, savedTick, resetLost, pending, podReset, pc>>
          /\ pc = "subscribe" /\ key' = key + 1
      BY <1>6 DEF clearDependencyIfExistsBeforeTime, ghost
    <2>2. CASE d = key /\ kv[key] <= podReset
      <3>1. kv'[d] = 0
        BY <1>6, <1>t, <2>2 DEF clearDependencyIfExistsBeforeTime
      <3> QED
        BY <1>t, <2>1, <3>1
    <2>3. CASE ~(d = key /\ kv[key] <= podReset)
      <3>1. kv'[d] = kv[d]
        BY <1>6, <1>t, <2>3 DEF clearDependencyIfExistsBeforeTime
      <3> QED
        BY <1>0, <1>t, <2>1, <2>3, <3>1
    <2> QED
      BY <2>2, <2>3
  <1>7. CASE ClearBeforeTimeFails
    BY <1>0, <1>7 DEF ClearBeforeTimeFails, server
  <1>8. CASE Subscribed
    BY <1>0, <1>8, <1>t DEF Subscribed, ghost
  <1>9. CASE saveDependency
    <2>1. cur <= published
      <3>1. cur # 0 => consumer[cur] # "none" /\ cur \in Msgs
        BY <1>9, ConstantsAreNat DEF saveDependency, RefInv, ReachInv, Busy, Delivered,
           TypeInv, TypeOK, PodOK, Msgs
      <3> QED
        BY <1>t, <3>1 DEF RefInv, NumberInv, TypeInv, TypeOK, ServerOK, Msgs
    <2> QED
      BY <1>0, <1>9, <1>t, <2>1 DEF saveDependency
  <1>10. CASE resetConditions
    BY <1>0, <1>10, <1>t DEF resetConditions, server, ghost
  <1>11. CASE clearDependencyIfExists
    BY <1>0, <1>11, <1>t DEF clearDependencyIfExists, ghost
  <1>12. CASE clearDone
    BY <1>0, <1>12, <1>t DEF clearDone, AfterClear, server, ghost
  <1>13. CASE clearFails
    BY <1>0, <1>13, <1>t DEF clearFails, AfterClear, server
  <1> QED
    BY <1>1, <1>2, <1>3, <1>4, <1>5, <1>6, <1>7, <1>8, <1>9, <1>10, <1>11, <1>12,
       <1>13, ResetSteps

\* A reset that is through leaves no event from before it, whichever of the cron
\* goroutine, a Subscribe of the same pod or the first one of a successor carries
\* it out, and however the ticks interleave with these.
THEOREM ResetForgets == Spec => []ResetForgetsSaved
  <1>1. Init => ResetInv
    BY RefInit
  <1>2. TypeInv /\ RefInv /\ ResetInv /\ [Next]_vars => ResetInv'
    BY ResetStep
  <1>3. TypeInv /\ ResetInv => ResetForgetsSaved
    BY DEF ResetInv, ResetForgetsSaved, ToReset, ResetComes, TypeInv, TypeOK, PodOK
  <1> QED
    BY <1>1, <1>2, <1>3, RefInvariant, PTL DEF Spec
=============================================================================
