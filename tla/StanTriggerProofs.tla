------------------------- MODULE StanTriggerProofs -------------------------
(***************************************************************************)
(* What module StanTrigger promises, for any finite set of dependencies,   *)
(* any number of messages, any condition without negation and any number   *)
(* of faults.                                                              *)
(***************************************************************************)
EXTENDS StanTrigger, TLAPS

\* Only what was published is delivered, and only that is evaluated: what the
\* types do not say, and the times of resets rely on.
Control ==
    /\ \A m \in Msgs : consumer[m] # "none" => m <= published
    /\ pc # "idle" => cur <= published

TypeInv == TypeOK /\ Control

\* The conditions are monotone and not true of no event at all.
Monotone ==
    /\ {} \notin expression
    /\ \A S \in expression : \A T \in SUBSET Deps : S \subseteq T => T \in expression

\* What stays held when the callback is over.
Kept == {d \in Deps : msgs[d] # 0 /\ (pc = "acting" => d \notin depName)}
KeptIncomplete == Kept \notin expression

\* A message that has completed the conditions is not after the last reset, nor
\* after the message being evaluated, whatever resets come in between.
CompletedPassed ==
    \/ happened \cap {"crash", "reconnect"} # {}
    \/ \A m \in Msgs :
          /\ completed[m] <= 1
          /\ completed[m] = 1 => m <= lastResetTime /\ (pc = "evaluate" => m < cur)
-----------------------------------------------------------------------------
\* The bound is a number.
LEMMA MaxMsgsNat == MaxMsgs \in Nat
  BY StanAssumption DEF StanAssumption

\* What happens rarely takes one from a budget that is not used up.
LEMMA SpendType ==
    ASSUME TypeOK, NEW k \in Bounded, Spend(k)
    PROVE  budget' \in [Bounded -> Nat]
  BY DEF TypeOK, GhostOK, Spend

\* A fault is recorded, and none is forgotten.
LEMMA HappensType ==
    ASSUME TypeOK, NEW k \in Rare, Happens(k)
    PROVE  budget' \in [Bounded -> Nat] /\ happened' \subseteq Rare /\ happened \subseteq happened'
  <1>1. budget' \in [Bounded -> Nat]
    BY SpendType DEF Happens, Bounded
  <1> QED
    BY <1>1 DEF Happens, TypeOK, GhostOK

\* An acknowledgement, lost or not.
LEMMA AckType ==
    ASSUME TypeInv, NEW m \in Msgs, Ack(m), m <= published
    PROVE  /\ consumer' \in [Msgs -> {"none", "new", "out", "ready", "acked", "expired"}]
           /\ \A k \in Msgs : consumer'[k] # "none" => k <= published
           /\ budget' \in [Bounded -> Nat] /\ happened' \subseteq Rare
           /\ happened \subseteq happened'
  <1>1. CASE Usual /\ consumer' = [consumer EXCEPT ![m] = IF @ = "expired" THEN @ ELSE "acked"]
    BY <1>1 DEF TypeInv, TypeOK, ServerOK, GhostOK, Control, Usual
  <1>2. CASE Happens("ack") /\ consumer' = [consumer EXCEPT ![m] =
                                               IF @ = "expired" THEN @ ELSE "out"]
    <2>1. budget' \in [Bounded -> Nat] /\ happened' \subseteq Rare /\ happened \subseteq happened'
      BY <1>2, HappensType DEF TypeInv, Rare
    <2> QED
      BY <1>2, <2>1 DEF TypeInv, TypeOK, ServerOK, Control
  <1> QED
    BY <1>1, <1>2 DEF Ack

\* The server delivers what was published.
LEMMA DeliverableIsPublished ==
    ASSUME TypeInv, NEW m \in Msgs, Deliverable(m)
    PROVE  consumer[m] # "none" /\ m <= published
  BY DEF TypeInv, Control, Deliverable

\* The initial state has all the invariants.
LEMMA InitInv == Init => TypeInv /\ Monotone /\ KeptIncomplete /\ CompletedPassed
  <1> SUFFICES ASSUME Init PROVE TypeInv /\ Monotone /\ KeptIncomplete /\ CompletedPassed
    OBVIOUS
  <1> USE MaxMsgsNat
  <1>0. PICK sc \in Scenarios : /\ expression = sc.expression
                               /\ content \in sc.streams
                               /\ budget = sc.budget
    BY DEF Init
  <1>1. /\ expression \in SUBSET SUBSET Deps /\ content \in [Msgs -> Contents]
        /\ budget \in [Bounded -> Nat]
    BY <1>0, StanAssumption DEF StanAssumption
  <1>2. Monotone
    BY <1>0, StanAssumption DEF StanAssumption, Monotone
  <1>3. TypeInv
    <2>1. ServerOK /\ CallbackOK /\ Control
      BY <1>1 DEF Init, ServerOK, CallbackOK, Control, Msgs
    <2>2. HolderOK /\ GhostOK
      BY <1>1 DEF Init, HolderOK, GhostOK
    <2> QED
      BY <2>1, <2>2 DEF Init, TypeInv, TypeOK
  <1>4. KeptIncomplete
    <2>1. Kept = {}
      BY DEF Init, Kept
    <2> QED
      BY <2>1, <1>2 DEF KeptIncomplete, Monotone
  <1>5. CompletedPassed
    BY DEF Init, CompletedPassed
  <1> QED
    BY <1>2, <1>3, <1>4, <1>5

\* A new holder is empty, and its callback idle.
LEMMA NewHolderType ==
    ASSUME TypeInv, NEW r \in 0 .. published, published' = published, content' = content,
           newEventSourceMessageHolder(r)
    PROVE  HolderOK' /\ CallbackOK' /\ resetTimeout' \in BOOLEAN /\ pc' = "idle"
  <1>1. published \in Nat
    BY MaxMsgsNat DEF TypeInv, TypeOK, ServerOK
  <1>2. HolderOK'
    BY <1>1 DEF newEventSourceMessageHolder, HolderOK
  <1> QED
    BY <1>2 DEF newEventSourceMessageHolder, CallbackOK

\* Types are kept: the server and the event sources.
LEMMA ServerType ==
    ASSUME TypeInv, NEW m \in Msgs,
           Publish \/ AckWaitExpires(m) \/ LoseDelivery(m) \/ Expire(m)
    PROVE  TypeInv'
  <1> USE MaxMsgsNat DEF TypeInv, TypeOK, ServerOK, HolderOK, Control, Msgs, holder, callback,
          history
  <1>1. CASE Publish
    <2>1. GhostOK'
      BY <1>1, SpendType DEF Publish, GhostOK, Bounded
    <2>2. CallbackOK' /\ resetTimeout' \in BOOLEAN
      BY <1>1 DEF Publish, CallbackOK
    <2>3. published' = published + 1 /\ published' <= MaxMsgs /\ published + 1 \in Msgs
      BY <1>1 DEF Publish
    <2>4. ServerOK' /\ Control'
      <3>1. ServerOK'
        BY <1>1, <2>3 DEF Publish
      <3>2. \A k \in Msgs : consumer'[k] # "none" => k <= published'
        BY <1>1, <2>3 DEF Publish
      <3>3. pc' # "idle" => cur' <= published'
        BY <1>1, <2>3 DEF Publish, CallbackOK
      <3> QED
        BY <3>1, <3>2, <3>3
    <2>5. HolderOK'
      BY <1>1, <2>3 DEF Publish
    <2> QED
      BY <2>1, <2>2, <2>4, <2>5
  <1>2. CASE AckWaitExpires(m)
    BY <1>2 DEF AckWaitExpires, CallbackOK, GhostOK
  <1>3. CASE LoseDelivery(m)
    <2>1. GhostOK'
      BY <1>3, HappensType DEF LoseDelivery, GhostOK, Rare
    <2> QED
      BY <1>3, <2>1, DeliverableIsPublished DEF LoseDelivery, CallbackOK
  <1>4. CASE Expire(m)
    <2>1. GhostOK'
      BY <1>4, HappensType DEF Expire, GhostOK, Rare
    <2> QED
      BY <1>4, <2>1 DEF Expire, CallbackOK
  <1> QED
    BY <1>1, <1>2, <1>3, <1>4

\* Types are kept: the daemon of Subscribe, a new subscription, a new pod.
LEMMA DaemonType ==
    ASSUME TypeInv, resetConditions \/ evictCache \/ Reconnect \/ Crash
    PROVE  TypeInv'
  <1> USE MaxMsgsNat DEF TypeInv, TypeOK, Control, server, callback, history
  <1>1. CASE resetConditions
    <2>1. GhostOK'
      BY <1>1, HappensType DEF resetConditions, GhostOK, Rare
    <2>2. ServerOK' /\ HolderOK'
      BY <1>1 DEF resetConditions, ServerOK, HolderOK
    <2>3. CallbackOK' /\ Control' /\ resetTimeout' \in BOOLEAN
      BY <1>1 DEF resetConditions, CallbackOK
    <2> QED
      BY <2>1, <2>2, <2>3
  <1>2. CASE evictCache
    <2>1. GhostOK'
      BY <1>2, HappensType DEF evictCache, GhostOK, Rare
    <2>2. ServerOK' /\ HolderOK'
      BY <1>2 DEF evictCache, ServerOK, HolderOK
    <2>3. CallbackOK' /\ Control' /\ resetTimeout' \in BOOLEAN
      BY <1>2 DEF evictCache, CallbackOK
    <2> QED
      BY <2>1, <2>2, <2>3
  <1>3. CASE Reconnect
    <2>1. GhostOK'
      BY <1>3, HappensType DEF Reconnect, GhostOK, Rare
    <2>2. ServerOK' /\ podReset \in 0 .. published
      BY <1>3 DEF Reconnect, ServerOK
    <2>3. HolderOK' /\ CallbackOK' /\ resetTimeout' \in BOOLEAN /\ pc' = "idle"
      BY <1>3, <2>2, NewHolderType DEF Reconnect
    <2> QED
      BY <1>3, <2>1, <2>2, <2>3 DEF Reconnect
  <1>4. CASE Crash
    <2>1. GhostOK'
      BY <1>4, HappensType DEF Crash, GhostOK, Rare
    <2>2. ServerOK' /\ lastTick \in 0 .. published
      BY <1>4 DEF Crash, ServerOK
    <2>3. HolderOK' /\ CallbackOK' /\ resetTimeout' \in BOOLEAN /\ pc' = "idle"
      BY <1>4, <2>2, NewHolderType DEF Crash
    <2> QED
      BY <1>4, <2>1, <2>2, <2>3 DEF Crash
  <1> QED
    BY <1>1, <1>2, <1>3, <1>4

\* Types are kept: a message is received.
LEMMA ReceiveType ==
    ASSUME TypeInv, NEW m \in Msgs, processEventSourceMsg(m)
    PROVE  TypeInv'
  <1> USE MaxMsgsNat DEF TypeInv, TypeOK, Control, holder, callback, history
  <1>1. CASE discard(m)
    <2>1. /\ consumer' \in [Msgs -> {"none", "new", "out", "ready", "acked", "expired"}]
          /\ \A k \in Msgs : consumer'[k] # "none" => k <= published
          /\ budget' \in [Bounded -> Nat] /\ happened' \subseteq Rare
      BY <1>1, AckType, DeliverableIsPublished DEF discard
    <2>2. ServerOK' /\ HolderOK'
      BY <1>1, <2>1 DEF discard, ServerOK, HolderOK
    <2> QED
      BY <1>1, <2>1, <2>2 DEF discard, CallbackOK, GhostOK
  <1>2. ASSUME NEW d \in Deps, beforeReset(m, d) PROVE TypeInv'
    <2>1. m <= published /\ consumer[m] # "none"
      BY <1>2, DeliverableIsPublished DEF beforeReset, wanted
    <2>2. /\ consumer' \in [Msgs -> {"none", "new", "out", "ready", "acked", "expired"}]
          /\ \A k \in Msgs : consumer'[k] # "none" => k <= published
          /\ budget' \in [Bounded -> Nat] /\ happened' \subseteq Rare
      BY <1>2, <2>1, AckType DEF beforeReset, ackAndCache
    <2>3. ServerOK'
      BY <1>2, <2>2 DEF beforeReset, ServerOK
    <2>4. HolderOK'
      BY <1>2, <2>1 DEF beforeReset, HolderOK, ackAndCache, reset, Msgs, ServerOK
    <2>5. CallbackOK' /\ GhostOK' /\ Control'
      BY <1>2, <2>2 DEF beforeReset, CallbackOK, GhostOK
    <2>6. resetTimeout' \in BOOLEAN
      BY <1>2 DEF beforeReset, reset
    <2> QED
      BY <2>3, <2>4, <2>5, <2>6
  <1>3. ASSUME NEW d \in Deps, afterReset(m, d) PROVE TypeInv'
    <2>1. m <= published /\ consumer[m] # "none" /\ d \in content[m].matches
      BY <1>3, DeliverableIsPublished DEF afterReset, wanted
    <2>2. budget' \in [Bounded -> Nat] /\ happened' \subseteq Rare
      BY <1>3, HappensType DEF afterReset, Usual, Rare, GhostOK
    <2>3. ServerOK' /\ Control'
      BY <1>3, <2>1 DEF afterReset, ServerOK
    <2>4. HolderOK'
      BY <1>3 DEF afterReset, HolderOK, reset, ServerOK
    <2>5. CallbackOK' /\ GhostOK'
      BY <1>3, <2>1, <2>2 DEF afterReset, CallbackOK, GhostOK
    <2>6. resetTimeout' \in BOOLEAN
      BY <1>3 DEF afterReset, reset
    <2> QED
      BY <2>3, <2>4, <2>5, <2>6
  <1> QED
    BY <1>1, <1>2, <1>3 DEF processEventSourceMsg

\* Types are kept: the rest of the callback.
LEMMA CallbackType ==
    ASSUME TypeInv, Callback
    PROVE  TypeInv'
  <1> USE MaxMsgsNat DEF TypeInv, TypeOK, Control, server, holder, history, Return
  <1>0. cur \in Msgs /\ cur <= published /\ depName \subseteq content[cur].matches
    BY DEF Callback, redelivered, superseded, hold, fire, fired, isNew, CallbackOK
  <1>1. CASE redelivered
    BY <1>1 DEF redelivered, ServerOK, HolderOK, CallbackOK, GhostOK
  <1>2. CASE superseded
    <2>1. /\ consumer' \in [Msgs -> {"none", "new", "out", "ready", "acked", "expired"}]
          /\ \A k \in Msgs : consumer'[k] # "none" => k <= published
          /\ budget' \in [Bounded -> Nat] /\ happened' \subseteq Rare
      BY <1>0, <1>2, AckType DEF superseded, ackAndCache
    <2>2. ServerOK' /\ Control'
      BY <1>2, <2>1 DEF superseded, ServerOK
    <2>3. HolderOK'
      BY <1>0, <1>2 DEF superseded, HolderOK, ackAndCache, Msgs, ServerOK
    <2>4. CallbackOK' /\ GhostOK' /\ resetTimeout' \in BOOLEAN
      BY <1>2, <2>1 DEF superseded, CallbackOK, GhostOK
    <2> QED
      BY <2>2, <2>3, <2>4
  <1>3. ASSUME NEW S \in SUBSET Stale PROVE Held(S) \in [Deps -> 0 .. published]
    BY <1>0 DEF Held, HolderOK, ServerOK, Msgs
  <1>4. CASE hold
    <2>1. HolderOK'
      BY <1>3, <1>4 DEF hold, HolderOK
    <2>2. ServerOK' /\ Control'
      BY <1>4 DEF hold, ServerOK
    <2>3. CallbackOK' /\ GhostOK' /\ resetTimeout' \in BOOLEAN
      BY <1>4 DEF hold, CallbackOK, GhostOK
    <2> QED
      BY <2>1, <2>2, <2>3
  <1>5. CASE fire
    <2>1. HolderOK'
      BY <1>0, <1>3, <1>5 DEF fire, HolderOK, Msgs, ServerOK
    <2>2. ServerOK' /\ Control'
      BY <1>0, <1>5 DEF fire, ServerOK
    <2>3. CallbackOK' /\ resetTimeout' \in BOOLEAN
      BY <1>0, <1>5 DEF fire, CallbackOK
    <2>4. GhostOK'
      BY <1>0, <1>5 DEF fire, GhostOK
    <2> QED
      BY <2>1, <2>2, <2>3, <2>4
  <1>6. CASE fired
    <2>1. /\ consumer' \in [Msgs -> {"none", "new", "out", "ready", "acked", "expired"}]
          /\ \A k \in Msgs : consumer'[k] # "none" => k <= published
          /\ budget' \in [Bounded -> Nat] /\ happened' \subseteq Rare
      BY <1>0, <1>6, AckType DEF fired, ackAndCache
    <2>2. ServerOK' /\ Control'
      BY <1>6, <2>1 DEF fired, ServerOK
    <2>3. HolderOK'
      BY <1>0, <1>6 DEF fired, HolderOK, ackAndCache, reset, Msgs, ServerOK
    <2>4. CallbackOK' /\ GhostOK'
      BY <1>6, <2>1 DEF fired, CallbackOK, GhostOK
    <2>5. resetTimeout' \in BOOLEAN
      BY <1>6 DEF fired, reset
    <2> QED
      BY <2>2, <2>3, <2>4, <2>5
  <1> QED
    BY <1>1, <1>2, <1>4, <1>5, <1>6 DEF Callback

\* Types are kept by every step.
LEMMA TypeStep == TypeInv /\ [Next]_vars => TypeInv'
  <1> SUFFICES ASSUME TypeInv, [Next]_vars PROVE TypeInv'
    OBVIOUS
  <1>1. CASE Publish
    <2>1. PICK m \in Msgs : TRUE
      BY <1>1, MaxMsgsNat DEF Publish, Msgs, TypeInv, TypeOK, ServerOK
    <2> QED
      BY <1>1, <2>1, ServerType
  <1>2. CASE resetConditions \/ evictCache \/ Reconnect \/ Crash
    BY <1>2, DaemonType
  <1>3. ASSUME NEW m \in Msgs, AckWaitExpires(m) \/ LoseDelivery(m) \/ Expire(m)
        PROVE TypeInv'
    BY <1>3, ServerType
  <1>4. ASSUME NEW m \in Msgs, processEventSourceMsg(m) PROVE TypeInv'
    BY <1>4, ReceiveType
  <1>5. CASE Callback
    BY <1>5, CallbackType
  <1>6. CASE UNCHANGED vars
    BY <1>6 DEF vars, server, holder, callback, history, TypeInv, TypeOK, Control, ServerOK,
                HolderOK, CallbackOK, GhostOK
  <1> QED
    BY <1>1, <1>2, <1>3, <1>4, <1>5, <1>6 DEF Next
-----------------------------------------------------------------------------
\* The conditions never change.
LEMMA ExpressionFixed == [Next]_vars => expression' = expression
  <1> USE DEF server, holder, callback, history
  <1>1. Publish \/ resetConditions \/ evictCache \/ Reconnect \/ Crash \/ UNCHANGED vars
          => expression' = expression
    BY DEF Publish, resetConditions, evictCache, Reconnect, Crash, vars
  <1>2. ASSUME NEW m \in Msgs
        PROVE  AckWaitExpires(m) \/ LoseDelivery(m) \/ Expire(m) \/ processEventSourceMsg(m)
                 => expression' = expression
    BY DEF AckWaitExpires, LoseDelivery, Expire, processEventSourceMsg, discard, beforeReset,
           afterReset
  <1>3. Callback => expression' = expression
    BY DEF Callback, redelivered, superseded, hold, fire, fired
  <1> QED
    BY <1>1, <1>2, <1>3 DEF Next

\* Every step but hold only takes from what stays held.
LEMMA KeptShrinks ==
    ASSUME TypeInv, [Next]_vars, ~hold
    PROVE  Kept' \subseteq Kept
  <1> USE DEF Kept, server, holder, callback, history
  <1>1. CASE Publish \/ resetConditions \/ evictCache \/ UNCHANGED vars
    BY <1>1 DEF Publish, resetConditions, evictCache, vars
  <1>2. CASE Reconnect \/ Crash
    BY <1>2 DEF Reconnect, Crash, newEventSourceMessageHolder
  <1>3. ASSUME NEW m \in Msgs, AckWaitExpires(m) \/ LoseDelivery(m) \/ Expire(m)
        PROVE Kept' \subseteq Kept
    BY <1>3 DEF AckWaitExpires, LoseDelivery, Expire
  <1>4. ASSUME NEW m \in Msgs, discard(m) PROVE Kept' \subseteq Kept
    BY <1>4 DEF discard
  <1>5. ASSUME NEW m \in Msgs, NEW d \in Deps, beforeReset(m, d) PROVE Kept' \subseteq Kept
    BY <1>5 DEF beforeReset, wanted, reset
  <1>6. ASSUME NEW m \in Msgs, NEW d \in Deps, afterReset(m, d) PROVE Kept' \subseteq Kept
    BY <1>6 DEF afterReset, wanted, reset
  <1>7. CASE redelivered \/ superseded
    BY <1>7 DEF redelivered, superseded, Return
  <1>8. CASE fire
    BY <1>8 DEF fire, isNew, Held
  <1>9. CASE fired
    BY <1>9 DEF fired, reset, Return
  <1> QED
    BY <1>1, <1>2, <1>3, <1>4, <1>5, <1>6, <1>7, <1>8, <1>9
       DEF Next, Callback, processEventSourceMsg

\* The conditions stay monotone, and what stays held incomplete.
LEMMA KeptStep ==
    TypeInv /\ Monotone /\ KeptIncomplete /\ [Next]_vars => Monotone' /\ KeptIncomplete'
  <1> SUFFICES ASSUME TypeInv, Monotone, KeptIncomplete, [Next]_vars
               PROVE  Monotone' /\ KeptIncomplete'
    OBVIOUS
  <1>1. Monotone'
    BY ExpressionFixed DEF Monotone
  <1>2. CASE hold
    <2>1. Kept' = {d \in Deps : msgs'[d] # 0}
      BY <1>2 DEF hold, Return, Kept
    <2>2. {d \in Deps : msgs'[d] # 0} \notin expression
      BY <1>2 DEF hold, Satisfied
    <2> QED
      BY <1>1, <2>1, <2>2, ExpressionFixed DEF KeptIncomplete
  <1>3. CASE ~hold
    <2>1. Kept' \subseteq Kept /\ Kept \in SUBSET Deps
      BY <1>3, KeptShrinks DEF Kept
    <2>2. Kept' \notin expression
      BY <2>1 DEF KeptIncomplete, Monotone
    <2> QED
      BY <1>1, <2>2, ExpressionFixed DEF KeptIncomplete
  <1> QED
    BY <1>2, <1>3

\* However events are redelivered, dropped, reset and lost, what a holder holds
\* between two callbacks never satisfies the conditions.
THEOREM HeldNeverComplete == Spec => []HeldIncomplete
  <1>1. KeptIncomplete => HeldIncomplete
    BY DEF KeptIncomplete, HeldIncomplete, Kept, Satisfied
  <1> QED
    BY <1>1, InitInv, TypeStep, KeptStep, PTL DEF Spec
-----------------------------------------------------------------------------
\* Faults are not forgotten.
LEMMA HappenedGrows ==
    ASSUME TypeInv, [Next]_vars
    PROVE  happened \subseteq happened'
  <1> USE DEF server, holder, callback, history, Happens, Spend, Usual, Ack, ackAndCache
  <1>1. CASE Publish \/ resetConditions \/ evictCache \/ Reconnect \/ Crash \/ UNCHANGED vars
    BY <1>1 DEF Publish, resetConditions, evictCache, Reconnect, Crash, vars
  <1>2. ASSUME NEW m \in Msgs,
               AckWaitExpires(m) \/ LoseDelivery(m) \/ Expire(m) \/ processEventSourceMsg(m)
        PROVE happened \subseteq happened'
    BY <1>2 DEF AckWaitExpires, LoseDelivery, Expire, processEventSourceMsg, discard,
                beforeReset, afterReset
  <1>3. CASE Callback
    BY <1>3 DEF Callback, redelivered, superseded, hold, fire, fired
  <1> QED
    BY <1>1, <1>2, <1>3 DEF Next

\* A message that fired stays behind the reset time: resets only move it to now or
\* to the message that fires, which is later than all that fired before.
LEMMA CompletedStep ==
    TypeInv /\ CompletedPassed /\ [Next]_vars => CompletedPassed'
  <1> SUFFICES ASSUME TypeInv, CompletedPassed, [Next]_vars,
                      happened' \cap {"crash", "reconnect"} = {}
               PROVE  CompletedPassed'
    BY DEF CompletedPassed
  <1>0. /\ published \in Nat /\ lastResetTime \in Nat /\ lastResetTime <= published
        /\ completed \in [Msgs -> Nat] /\ Msgs \subseteq Nat /\ cur \in Nat
    BY MaxMsgsNat DEF TypeInv, TypeOK, ServerOK, HolderOK, GhostOK, CallbackOK, Msgs
  <1>1. \A k \in Msgs : /\ completed[k] <= 1
                        /\ completed[k] = 1 => /\ k <= lastResetTime
                                               /\ pc = "evaluate" => k < cur
    BY HappenedGrows DEF CompletedPassed
  <1> DEFINE Passed(k) == /\ completed[k] <= 1
                          /\ completed[k] = 1 => /\ k <= lastResetTime
                                                 /\ pc = "evaluate" => k < cur
  <1>2. SUFFICES ASSUME NEW k \in Msgs PROVE Passed(k)'
    BY DEF CompletedPassed
  <1>3. ~Reconnect /\ ~Crash
    BY DEF Reconnect, Crash, Happens
  <1> USE <1>0, <1>1 DEF server, holder, callback, history
  <1>4. CASE Publish \/ evictCache \/ UNCHANGED vars
    BY <1>4 DEF Publish, evictCache, vars
  <1>5. CASE resetConditions
    BY <1>5 DEF resetConditions
  <1>6. ASSUME NEW m \in Msgs, AckWaitExpires(m) \/ LoseDelivery(m) \/ Expire(m)
        PROVE Passed(k)'
    BY <1>6 DEF AckWaitExpires, LoseDelivery, Expire
  <1>7. ASSUME NEW m \in Msgs, discard(m) PROVE Passed(k)'
    BY <1>7 DEF discard
  <1>8. ASSUME NEW m \in Msgs, NEW d \in Deps, beforeReset(m, d) PROVE Passed(k)'
    BY <1>8 DEF beforeReset
  <1>9. ASSUME NEW m \in Msgs, NEW d \in Deps, afterReset(m, d) PROVE Passed(k)'
    BY <1>9 DEF afterReset
  <1>10. CASE redelivered \/ superseded \/ hold \/ fired
    BY <1>10 DEF redelivered, superseded, hold, fired, Return
  <1>11. CASE fire
    <2>1. completed[cur] # 1 /\ cur \in Msgs
      BY <1>11 DEF fire, isNew, TypeInv, TypeOK, CallbackOK
    <2>2. completed[cur] = 0
      BY <2>1
    <2> QED
      BY <1>11, <2>1, <2>2 DEF fire, isNew
  <1> QED
    BY <1>3, <1>4, <1>5, <1>6, <1>7, <1>8, <1>9, <1>10, <1>11
       DEF Next, Callback, processEventSourceMsg

\* In the life of a holder no message makes the conditions true twice, however
\* often it comes again and whatever resets and evictions come in between.
THEOREM NeverCompletesTwice == Spec => []CompletesOnce
  <1>1. CompletedPassed => CompletesOnce
    BY DEF CompletedPassed, CompletesOnce
  <1> QED
    BY <1>1, InitInv, TypeStep, CompletedStep, PTL DEF Spec
=============================================================================
