---------------------------- MODULE StanTrigger ----------------------------
(***************************************************************************)
(* One trigger of a sensor on the NATS Streaming event bus                 *)
(* (pkg/eventbus/stan/sensor/trigger_conn.go).  The messages of all        *)
(* dependencies come through one durable queue subscription, one callback  *)
(* at a time; what has been received is held in memory and is not          *)
(* acknowledged, so that the server redelivers it every second.            *)
(*                                                                         *)
(* The Timestamp of a message is its sequence number, and the time is the  *)
(* number of messages published.  How long a minute is nobody knows: that  *)
(* the cache is evicted or the reset timeout is over are events of their   *)
(* own, as rare as the instance says.                                      *)
(***************************************************************************)
EXTENDS Integers, FiniteSets

CONSTANTS
    Deps,        \* the dependencies of the trigger
    MaxMsgs,     \* bound: messages published
    Scenarios    \* expression, messages and what may go wrong how often

Msgs == 1 .. MaxMsgs

\* What a message can be: the dependencies whose source and subject globs match
\* it, and whether it is an event that passes transformation and filter.
Contents == [matches : SUBSET Deps, passes : BOOLEAN]

\* delivery: the server or the client loses a delivery; ack: an
\* acknowledgement is lost; evict: five minutes pass; timeout: sixty seconds
\* pass after a reset; expire: the server drops a message by its age; crash:
\* the pod dies; reconnect: the connection does; reset: conditions reset.
Rare == {"delivery", "ack", "evict", "timeout", "expire", "crash", "reconnect", "reset"}
Bounded == Rare \cup {"publish"}

ASSUME StanAssumption ==
    /\ IsFiniteSet(Deps) /\ MaxMsgs \in Nat
    /\ \A sc \in Scenarios :
          /\ sc.expression \in SUBSET SUBSET Deps /\ {} \notin sc.expression
          /\ \A S \in sc.expression : \A T \in SUBSET Deps :
                S \subseteq T => T \in sc.expression
          /\ sc.streams \subseteq [Msgs -> Contents]
          /\ sc.budget \in [Bounded -> Nat]

VARIABLES
    expression,    \* sets of dependencies that make the expression true
    \* The server
    content, published,
    consumer,      \* consumer[m]: state of m at the durable subscription
    lastTick,      \* when the reset schedule last came due
    \* eventSourceMessageHolder
    msgs,          \* msgs[d]: message held for d, 0 for none; parameters follows it
    smap,          \* messages whose IDs are cached
    lastResetTime,
    resetTimeout,  \* resetTimeout # 0
    \* The callback
    pc, cur, depName,
    podReset,      \* lastResetTime as listenEvents computed it
    \* History and environment
    budget, happened,
    completed      \* completed[m]: firings that message m caused

server == <<content, published, consumer, lastTick>>
holder == <<msgs, smap, lastResetTime, resetTimeout>>
callback == <<pc, cur, depName>>
history == <<completed>>
vars == <<expression, server, holder, callback, podReset, budget, happened, history>>

ServerOK ==
    /\ expression \in SUBSET SUBSET Deps
    /\ content \in [Msgs -> Contents] /\ published \in 0 .. MaxMsgs
    /\ consumer \in [Msgs -> {"none", "new", "out", "ready", "acked", "expired"}]
    /\ lastTick \in 0 .. published /\ podReset \in 0 .. lastTick

HolderOK ==
    /\ msgs \in [Deps -> 0 .. published] /\ smap \in SUBSET (1 .. published)
    /\ lastResetTime \in 0 .. published

CallbackOK ==
    \/ pc = "idle" /\ cur = 0 /\ depName = {}
    \/ pc \in {"evaluate", "acting"} /\ cur \in Msgs /\ depName \subseteq content[cur].matches

GhostOK ==
    /\ budget \in [Bounded -> Nat] /\ happened \subseteq Rare
    /\ completed \in [Msgs -> Nat]

\* Types; in particular the callback is never without a message, and what is
\* held was published before.
TypeOK == ServerOK /\ HolderOK /\ CallbackOK /\ GhostOK /\ resetTimeout \in BOOLEAN

Init ==
    /\ \E sc \in Scenarios : /\ expression = sc.expression
                             /\ content \in sc.streams
                             /\ budget = sc.budget
    /\ published = 0 /\ consumer = [m \in Msgs |-> "none"] /\ lastTick = 0
    /\ msgs = [d \in Deps |-> 0] /\ smap = {}
    /\ lastResetTime = 0 /\ resetTimeout = FALSE
    /\ pc = "idle" /\ cur = 0 /\ depName = {} /\ podReset = 0
    /\ happened = {}
    /\ completed = [m \in Msgs |-> 0]
-----------------------------------------------------------------------------
(* What happens rarely *)

Spend(k) == budget[k] > 0 /\ budget' = [budget EXCEPT ![k] = @ - 1]
Happens(k) == Spend(k) /\ happened' = happened \cup {k}
Usual == UNCHANGED <<budget, happened>>
-----------------------------------------------------------------------------
(* The event sources and the NATS Streaming server *)

\* The subscription is durable: what is published while nobody is connected
\* is delivered later.
Publish ==
    /\ published < MaxMsgs /\ Spend("publish")
    /\ published' = published + 1
    /\ consumer' = [consumer EXCEPT ![published + 1] = "new"]
    /\ UNCHANGED <<expression, content, lastTick, holder, callback, podReset,
                   happened, history>>

InFlight == {m \in Msgs : consumer[m] \in {"out", "ready"}}
MaxInflight == Cardinality(Deps) + 2

\* New messages come in order, as long as fewer than MaxInflight wait for an
\* acknowledgement; those that wait come again after AckWait.
Deliverable(m) ==
    \/ consumer[m] = "ready"
    \/ /\ consumer[m] = "new" /\ Cardinality(InFlight) < MaxInflight
       /\ \A k \in 1 .. m - 1 : consumer[k] # "new"

AckWaitExpires(m) ==
    /\ consumer[m] = "out"
    /\ consumer' = [consumer EXCEPT ![m] = "ready"]
    /\ UNCHANGED <<expression, content, published, lastTick, holder, callback, podReset,
                   budget, happened, history>>

LoseDelivery(m) ==
    /\ Deliverable(m) /\ Happens("delivery")
    /\ consumer' = [consumer EXCEPT ![m] = "out"]
    /\ UNCHANGED <<expression, content, published, lastTick, holder, callback, podReset,
                   history>>

Expire(m) ==
    /\ consumer[m] \in {"out", "ready"} /\ Happens("expire")
    /\ consumer' = [consumer EXCEPT ![m] = "expired"]
    /\ UNCHANGED <<expression, content, published, lastTick, holder, callback, podReset,
                   history>>
-----------------------------------------------------------------------------
(* The daemon of Subscribe: conditions reset and eviction of cached IDs *)

resetConditions ==
    /\ Happens("reset")
    /\ lastTick' = published
    /\ lastResetTime' = published /\ resetTimeout' = TRUE
    /\ UNCHANGED <<expression, content, published, consumer, msgs, smap, callback, podReset,
                   history>>

evictCache ==
    /\ \E S \in SUBSET smap : S # {} /\ smap' = smap \ S
    /\ Happens("evict")
    /\ UNCHANGED <<expression, server, msgs, lastResetTime, resetTimeout, callback, podReset,
                   history>>
-----------------------------------------------------------------------------
(* Subscriptions: a new one has an empty eventSourceMessageHolder *)

newEventSourceMessageHolder(reset) ==
    /\ msgs' = [d \in Deps |-> 0] /\ smap' = {}
    /\ lastResetTime' = reset /\ resetTimeout' = FALSE
    /\ pc' = "idle" /\ cur' = 0 /\ depName' = {}

\* The listener's daemon closes the subscription and subscribes again, with the
\* lastResetTime that was computed when the pod started.
Reconnect ==
    /\ pc = "idle" /\ Happens("reconnect")
    /\ newEventSourceMessageHolder(podReset)
    /\ UNCHANGED <<expression, server, podReset, history>>

\* The pod dies wherever it is; the next one computes the previous cron time.
Crash ==
    /\ Happens("crash")
    /\ podReset' = lastTick
    /\ newEventSourceMessageHolder(lastTick)
    /\ UNCHANGED <<expression, server, history>>
-----------------------------------------------------------------------------
(* processEventSourceMsg *)

\* m.Ack(): its error is ignored.
Ack(m) ==
    \/ Usual /\ consumer' = [consumer EXCEPT ![m] =
                                 IF @ = "expired" THEN @ ELSE "acked"]
    \/ Happens("ack") /\ consumer' = [consumer EXCEPT ![m] =
                                 IF @ = "expired" THEN @ ELSE "out"]

ackAndCache(m) == Ack(m) /\ smap' = smap \cup {m}

\* The holder after reset(depName) in state f; the timeout is off once nothing
\* is held.
reset(f, D) ==
    /\ msgs' = [d \in Deps |-> IF d \in D THEN 0 ELSE f[d]]
    /\ resetTimeout' = (resetTimeout /\ \E d \in Deps \ D : f[d] # 0)

\* Not an event, of no dependency, rejected by transformation or filter, or a
\* duplicate: acknowledged and forgotten.
discard(m) ==
    /\ pc = "idle" /\ Deliverable(m)
    /\ content[m].matches = {} \/ ~content[m].passes \/ m \in smap
    /\ Ack(m)
    /\ UNCHANGED <<expression, content, published, lastTick, holder, callback, podReset,
                   history>>

\* getDependencyName takes the first match of a Go map, so any of them.
wanted(m, d) == /\ pc = "idle" /\ Deliverable(m)
                /\ content[m].passes /\ m \notin smap /\ d \in content[m].matches

\* An event of before the last reset: the dependency is cleared with it.
beforeReset(m, d) ==
    /\ wanted(m, d) /\ m <= lastResetTime
    /\ reset(msgs, {d})
    /\ ackAndCache(m)
    /\ UNCHANGED <<expression, content, published, lastTick, lastResetTime, callback,
                   podReset, history>>

\* fullResetTimeout: sixty seconds after a reset everything held is dropped.
afterReset(m, d) ==
    /\ wanted(m, d) /\ m > lastResetTime
    /\ \/ Usual /\ UNCHANGED <<msgs, resetTimeout>>
       \/ resetTimeout /\ Happens("timeout") /\ reset(msgs, Deps)
    /\ consumer' = [consumer EXCEPT ![m] = "out"]
    /\ pc' = "evaluate" /\ cur' = m /\ depName' = {d}
    /\ UNCHANGED <<expression, content, published, lastTick, smap, lastResetTime, podReset,
                   history>>

Return == pc' = "idle" /\ cur' = 0 /\ depName' = {}

\* The message held already: only its delivery time changes.
redelivered ==
    /\ pc = "evaluate" /\ \E d \in depName : msgs[d] = cur
    /\ Return
    /\ UNCHANGED <<expression, server, holder, podReset, budget, happened, history>>

\* Mutant: a superseded message is never acknowledged.
supersededUnacked ==
    /\ pc = "evaluate" /\ \E d \in depName : cur < msgs[d]
    /\ Return
    /\ UNCHANGED <<expression, server, holder, podReset, budget, happened, history>>

superseded ==
    /\ pc = "evaluate" /\ \E d \in depName : cur < msgs[d]
    /\ ackAndCache(cur)
    /\ Return
    /\ UNCHANGED <<expression, content, published, lastTick, msgs, lastResetTime, resetTimeout,
                   podReset, history>>

\* A held message that was not redelivered for ten minutes is dropped; only
\* those the server no longer has are not redelivered.
Stale == {d \in Deps : msgs[d] # 0 /\ d \notin depName /\ consumer[msgs[d]] = "expired"}
Held(S) == [d \in Deps |-> IF d \in depName THEN cur ELSE IF d \in S THEN 0 ELSE msgs[d]]
Satisfied(f) == {d \in Deps : f[d] # 0} \in expression

isNew == pc = "evaluate" /\ \A d \in depName : cur > msgs[d]

\* Mutant: the expression is evaluated before the message is set.
holdUnevaluated ==
    /\ isNew
    /\ \E S \in SUBSET Stale : ~Satisfied(msgs) /\ msgs' = Held(S)
    /\ Return
    /\ UNCHANGED <<expression, server, smap, lastResetTime, resetTimeout, podReset,
                   budget, happened, history>>

\* The conditions are not met: the message is held and not acknowledged.
hold ==
    /\ isNew
    /\ \E S \in SUBSET Stale : ~Satisfied(Held(S)) /\ msgs' = Held(S)
    /\ Return
    /\ UNCHANGED <<expression, server, smap, lastResetTime, resetTimeout, podReset,
                   budget, happened, history>>

\* Mutant: an action does not move the reset time.
fireNoReset ==
    /\ isNew
    /\ \E S \in SUBSET Stale : Satisfied(Held(S)) /\ msgs' = Held(S)
    /\ completed' = [completed EXCEPT ![cur] = @ + 1]
    /\ pc' = "acting"
    /\ UNCHANGED <<expression, server, smap, lastResetTime, resetTimeout, cur, depName,
                   podReset, budget, happened>>

\* The conditions are met: the reset time is that of this message, and the
\* action is called with everything held.
fire ==
    /\ isNew
    /\ \E S \in SUBSET Stale : Satisfied(Held(S)) /\ msgs' = Held(S)
    /\ completed' = [completed EXCEPT ![cur] = @ + 1]
    /\ lastResetTime' = cur /\ resetTimeout' = TRUE
    /\ pc' = "acting"
    /\ UNCHANGED <<expression, server, smap, cur, depName, podReset, budget, happened>>

\* The action has returned: only the dependency of this message is cleared, the
\* others are when their messages come again.
fired ==
    /\ pc = "acting"
    /\ reset(msgs, depName)
    /\ ackAndCache(cur)
    /\ Return
    /\ UNCHANGED <<expression, content, published, lastTick, lastResetTime, podReset, history>>
-----------------------------------------------------------------------------
Callback ==
    \/ redelivered \/ superseded \/ hold \/ fire \/ fired

processEventSourceMsg(m) ==
    \/ discard(m)
    \/ \E d \in Deps : beforeReset(m, d) \/ afterReset(m, d)

Next ==
    \/ Publish \/ resetConditions \/ evictCache \/ Reconnect \/ Crash
    \/ \E m \in Msgs : \/ AckWaitExpires(m) \/ LoseDelivery(m) \/ Expire(m)
                       \/ processEventSourceMsg(m)
    \/ Callback

Spec == Init /\ [][Next]_vars

\* Fairness: callbacks run to their end, and the server goes on sending: what
\* may be delivered is delivered, each message in its turn.
Fairness ==
    /\ WF_vars(Callback)
    /\ \A m \in Msgs : /\ WF_vars(AckWaitExpires(m))
                       /\ SF_vars(processEventSourceMsg(m))

FairSpec == Spec /\ Fairness
-----------------------------------------------------------------------------
(* Properties *)

\* Between two callbacks the held events never satisfy the expression: no
\* complete set waits for another event, although only one dependency is
\* cleared after an action, resets come from another goroutine, stale messages
\* are dropped and messages of before a reset clear newer ones.
HeldIncomplete == pc # "acting" => ~Satisfied(msgs)

\* No message fires the trigger twice in the life of a holder: redelivered, its
\* acknowledgement lost, its ID evicted from the cache, its conditions reset by
\* the daemon while the action runs, it completes one action at most.
CompletesOnce ==
    \/ happened \cap {"crash", "reconnect"} # {}
    \/ \A m \in Msgs : completed[m] <= 1

\* MaxInflight never shuts the subscription off, however many superseded
\* messages wait for their redelivery: everything published is delivered.
EverythingDelivered ==
    \A m \in Msgs : published >= m ~> consumer[m] # "new"
=============================================================================
