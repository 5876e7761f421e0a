-------------------------- MODULE JetStreamTrigger --------------------------
(***************************************************************************)
(* One trigger of a sensor on the JetStream event bus: what happens to the *)
(* messages of its dependencies between the stream and the trigger's       *)
(* action (pkg/eventbus/jetstream/sensor/trigger_conn.go).                 *)
(*                                                                         *)
(* One pullSubscribe goroutine per subject fetches messages one by one and *)
(* hands them over an unbuffered channel to the single processMsgs         *)
(* goroutine, which evaluates the trigger's condition against the events   *)
(* saved in the sensor's K/V store, runs the action or saves the event,    *)
(* remembers the event ID and starts an asynchronous AckSync.  The server  *)
(* (stream, durable consumers, K/V bucket) outlives connections and pods.  *)
(*                                                                         *)
(* Time is measured in stream sequence numbers: a message's timestamp is   *)
(* its sequence number, a cron tick happens after so many messages.        *)
(***************************************************************************)
EXTENDS Integers, Sequences, FiniteSets

CONSTANTS
    NumDeps,    \* conn.deps has this many elements, in this order
    Subjects,   \* the event-source/event-name pairs
    MaxMsgs,    \* bound: messages in the stream
    Scenarios   \* what the trigger is, what is published, what may go wrong

Deps == 1 .. NumDeps
Msgs == 1 .. MaxMsgs

\* What an event source may publish: passes are the dependencies whose
\* transformation and filters let the event through.
Contents == [subject : Subjects, valid : BOOLEAN, passes : SUBSET Deps]

\* A trigger: the subject of each dependency, the sets of received dependencies
\* that make its expression TRUE, and strings.Contains(expression, "&").
TriggerSpecs == [subject : [Deps -> Subjects], expression : SUBSET SUBSET Deps,
                 requiresAND : BOOLEAN]

\* Everything that goes wrong: the pod dies, the connection drops, a K/V
\* request or an AckSync fails, a minute passes and the cache is purged.
Faults == {"crash", "disconnect", "get", "put", "delete", "ack", "evict"}
\* A scenario bounds faults, messages and ticks of the conditions-reset job.
Bounded == Faults \cup {"publish", "tick"}

ASSUME ConstantsAssumption ==
    /\ NumDeps \in Nat /\ MaxMsgs \in Nat
    /\ \A sc \in Scenarios : /\ sc.trigger \in TriggerSpecs
                              /\ sc.streams \subseteq [Msgs -> Contents]
                              /\ sc.budget \in [Bounded -> Nat]

\* No conjunction is true of no event at all, and the trigger conditions
\* have no negation: more received dependencies never make one false.  One
\* without "&" is a disjunction of the trigger's dependencies.
ASSUME ExpressionAssumption ==
    \A sc \in Scenarios :
        /\ {} \notin sc.trigger.expression
        /\ \A S \in sc.trigger.expression : \A T \in SUBSET Deps :
              S \subseteq T => T \in sc.trigger.expression
        /\ ~sc.trigger.requiresAND => \A d \in Deps : {d} \in sc.trigger.expression

VARIABLES
    trigger,    \* the trigger's specification, which never changes
    \* The server
    content,    \* content[m]: what the m-th message of the stream carries
    published,  \* number of messages in the stream so far
    consumer,   \* consumer[m]: state of message m at its durable consumer
    durable,    \* the durable consumers exist
    kv,         \* kv[d]: message saved for dependency d, 0 for none
    lastTick,   \* when the reset schedule last came due
    ticks,      \* how often it has come due
    \* The sensor pod
    pc,         \* where the Subscribe/processMsgs goroutine is
    conn,       \* the NATS connection is up
    held,       \* held[s]: message pullSubscribe blocks on, 0 for none
    recent,     \* IDs in recentMsgsByTime, oldest first
    cur,        \* message in processMsg
    dep,        \* index of the processMsg loop over dependencies
    key,        \* index of the clearAllDependencies loop
    acking,     \* messages whose AckSync is under way
    pending,    \* cron goroutines blocked on resetConditionsCh
    podReset,   \* lastResetTime, computed when the pod starts
    \* History and environment
    budget,     \* budget[k]: how often k may still happen
    happened,   \* kinds of faults that have happened
    used,       \* used[m][d]: firings that had message m for dependency d
    settled,    \* <<m, d>> that took part in a firing or were saved
    savedTick,  \* savedTick[d]: ticks when kv[d] was written
    resetLost   \* a conditions reset was abandoned half way

server == <<trigger, content, published, consumer, durable, kv, lastTick, ticks>>
pod    == <<pc, conn, held, recent, cur, dep, key, acking, pending, podReset>>
ghost  == <<budget, happened, used, settled, savedTick, resetLost>>
vars   == <<server, pod, ghost>>

PCs == {"dead",       \* no pod holds the leadership
        "none",       \* the pod runs, no subscription
        "subscribe",  \* Subscribe clears entries older than lastResetTime
        "idle",       \* processMsgs blocks in its select
        "dep",        \* processDependency(cur, dep)
        "clear",      \* clearAllDependencies(nil) after the action
        "reset",      \* clearAllDependencies(nil) for a conditions reset
        "stuck"}      \* no subscription, and the daemon cannot make one

Triggers == {sc.trigger : sc \in Scenarios}

ServerOK ==
    /\ trigger \in Triggers
    /\ content \in [Msgs -> Contents]
    /\ published \in 0 .. MaxMsgs
    /\ consumer \in [Msgs -> {"none", "missed", "new", "out", "ready", "acked"}]
    /\ kv \in [Deps -> 0 .. MaxMsgs]
    /\ lastTick \in 0 .. MaxMsgs
    /\ ticks \in Nat

PodOK ==
    /\ pc \in PCs
    /\ held \in [Subjects -> 0 .. MaxMsgs]
    /\ recent \in Seq(Msgs)
    /\ cur \in 0 .. MaxMsgs
    /\ dep \in 0 .. NumDeps + 1
    /\ key \in 0 .. NumDeps + 1
    /\ acking \in SUBSET Msgs
    /\ pending \in Nat
    /\ podReset \in 0 .. MaxMsgs

GhostOK ==
    /\ budget \in [Bounded -> Nat]
    /\ happened \subseteq Faults
    /\ used \in [Msgs -> [Deps -> Nat]]
    /\ settled \in SUBSET (Msgs \X Deps)
    /\ savedTick \in [Deps -> Nat]

FlagsOK == durable \in BOOLEAN /\ conn \in BOOLEAN /\ resetLost \in BOOLEAN

\* Types, and that a reset is taken from resetConditionsCh only after a cron
\* goroutine has sent it (pending never falls below 0).
TypeOK == ServerOK /\ PodOK /\ GhostOK /\ FlagsOK
-----------------------------------------------------------------------------
Init ==
    /\ \E sc \in Scenarios : /\ trigger = sc.trigger
                             /\ content \in sc.streams
                             /\ budget = sc.budget
    /\ published = 0
    /\ consumer = [m \in Msgs |-> "none"]
    /\ durable = FALSE
    /\ kv = [d \in Deps |-> 0]
    /\ lastTick = 0 /\ ticks = 0
    /\ pc = "none" /\ conn = FALSE
    /\ held = [s \in Subjects |-> 0]
    /\ recent = <<>>
    /\ cur = 0 /\ dep = 0 /\ key = 0
    /\ acking = {} /\ pending = 0 /\ podReset = 0
    /\ happened = {}
    /\ used = [m \in Msgs |-> [d \in Deps |-> 0]]
    /\ settled = {}
    /\ savedTick = [d \in Deps |-> 0]
    /\ resetLost = FALSE
-----------------------------------------------------------------------------
(* Faults *)

Spend(k) == budget[k] > 0 /\ budget' = [budget EXCEPT ![k] = @ - 1]
Fault(k) == Spend(k) /\ happened' = happened \cup {k}
NoFault  == UNCHANGED <<budget, happened>>

\* A request to the server fails when the connection is gone (connections are
\* made with NoReconnect) or when the server does not answer it.
RequestFails(k) ==
    \/ ~conn /\ NoFault
    \/ conn /\ Fault(k)
-----------------------------------------------------------------------------
(* The event sources and the JetStream server *)

Publish ==
    /\ published < MaxMsgs /\ Spend("publish")
    /\ published' = published + 1
    /\ consumer' = [consumer EXCEPT ![published + 1] =
                        IF durable THEN "new" ELSE "missed"]
    /\ UNCHANGED <<trigger, content, durable, kv, lastTick, ticks, pod,
                   happened, used, settled, savedTick, resetLost>>

\* The acknowledgement wait of a delivered message runs out.  InProgress
\* keeps pushing it back while the message is in processMsg, on a live
\* connection; nothing does so while pullSubscribe holds the message.
AckWaitExpires(m) ==
    /\ consumer[m] = "out"
    /\ ~(conn /\ cur = m /\ pc \in {"dep", "clear"})
    /\ consumer' = [consumer EXCEPT ![m] = "ready"]
    /\ UNCHANGED <<trigger, content, published, durable, kv, lastTick, ticks, pod, ghost>>

\* The conditions-reset schedule comes due.  In a running pod cron starts a
\* goroutine that blocks on resetConditionsCh.
CronTick ==
    /\ Spend("tick")
    /\ ticks' = ticks + 1
    /\ lastTick' = published
    /\ pending' = IF pc = "dead" THEN 0 ELSE pending + 1
    /\ UNCHANGED <<trigger, content, published, consumer, durable, kv,
                   happened, used, settled, savedTick, resetLost,
                   pc, conn, held, recent, cur, dep, key, acking, podReset>>
-----------------------------------------------------------------------------
(* Pod, connection and subscription *)

Crash ==
    /\ pc # "dead"
    /\ Fault("crash")
    /\ pc' = "dead" /\ conn' = FALSE
    /\ held' = [s \in Subjects |-> 0]
    /\ recent' = <<>>
    /\ cur' = 0 /\ dep' = 0 /\ key' = 0
    /\ acking' = {} /\ pending' = 0
    /\ UNCHANGED <<server, podReset, used, settled, savedTick, resetLost>>

\* listenEvents in a new pod: lastResetTime is the previous cron time.
StartPod ==
    /\ pc = "dead"
    /\ pc' = "none"
    /\ podReset' = lastTick
    /\ UNCHANGED <<server, ghost, conn, held, recent, cur, dep, key, acking, pending>>

Disconnect ==
    /\ conn
    /\ Fault("disconnect")
    /\ conn' = FALSE
    /\ UNCHANGED <<server, pc, held, recent, cur, dep, key, acking, pending,
                   podReset, used, settled, savedTick, resetLost>>

\* The listener's daemon finds the connection closed, makes another one and
\* ends the old subscription, which it can only while processMsgs is in its
\* select; AckSyncs left over from the old connection can only fail.  When a
\* pullSubscribe blocks on the channel that processMsgs no longer reads, the
\* shutdown never ends (module SensorListener).
Shutdown ==
    /\ pc = "idle" /\ ~conn
    /\ pc' = IF \E s \in Subjects : held[s] # 0 THEN "stuck" ELSE "none"
    /\ acking' = {}
    /\ UNCHANGED <<server, ghost, conn, held, recent, cur, dep, key, pending, podReset>>

\* Connect makes a JetstreamTriggerConn with an empty message cache, then
\* Subscribe starts to clear what was saved before lastResetTime.
Subscribe ==
    /\ pc = "none"
    /\ pc' = "subscribe" /\ conn' = TRUE
    /\ recent' = <<>>
    /\ key' = IF podReset = 0 THEN NumDeps + 1 ELSE 1
    /\ UNCHANGED <<server, ghost, held, cur, dep, acking, pending, podReset>>

\* Mutant: an event from just before the reset is kept.
keepBoundary ==
    /\ pc = "subscribe" /\ key <= NumDeps /\ conn
    /\ kv' = IF kv[key] < podReset THEN [kv EXCEPT ![key] = 0] ELSE kv
    /\ key' = key + 1
    /\ UNCHANGED <<trigger, content, published, consumer, durable, lastTick, ticks, ghost,
                   pc, conn, held, recent, cur, dep, acking, pending, podReset>>

clearDependencyIfExistsBeforeTime ==
    /\ pc = "subscribe" /\ key <= NumDeps /\ conn
    /\ kv' = IF kv[key] <= podReset THEN [kv EXCEPT ![key] = 0] ELSE kv
    /\ key' = key + 1
    /\ UNCHANGED <<trigger, content, published, consumer, durable, lastTick, ticks, ghost,
                   pc, conn, held, recent, cur, dep, acking, pending, podReset>>

\* An error ends clearAllDependencies; Subscribe logs it and goes on.
ClearBeforeTimeFails ==
    /\ pc = "subscribe" /\ key <= NumDeps
    /\ RequestFails("get") \/ (kv[key] # 0 /\ kv[key] <= podReset /\ RequestFails("delete"))
    /\ key' = NumDeps + 1
    /\ resetLost' = TRUE
    /\ UNCHANGED <<server, used, settled, savedTick,
                   pc, conn, held, recent, cur, dep, acking, pending, podReset>>

\* PullSubscribe creates or finds the durable consumers (DeliverNew) and the
\* goroutines start; on a dead connection it fails and Subscribe returns, maybe
\* just when the daemon has decided to send on closeSubCh, which nobody reads.
Subscribed ==
    /\ pc = "subscribe" /\ key = NumDeps + 1
    /\ IF conn THEN pc' = "idle" /\ durable' = TRUE
               ELSE pc' \in {"none", "stuck"} /\ UNCHANGED durable
    /\ key' = 0
    /\ UNCHANGED <<trigger, content, published, consumer, kv, lastTick, ticks, ghost,
                   conn, held, recent, cur, dep, acking, pending, podReset>>
-----------------------------------------------------------------------------
(* pullSubscribe *)

Redelivery(m) == consumer[m] = "ready"
NextNew(m) == /\ consumer[m] = "new"
              /\ \A k \in 1 .. m - 1 : content[k].subject = content[m].subject
                                          => consumer[k] # "new"

pullSubscribe(s) ==
    /\ pc \in {"idle", "dep", "clear", "reset"} /\ conn
    /\ \E d \in Deps : trigger.subject[d] = s
    /\ held[s] = 0
    /\ \E m \in Msgs :
          /\ content[m].subject = s
          /\ Redelivery(m) \/ NextNew(m)
          /\ consumer' = [consumer EXCEPT ![m] = "out"]
          /\ held' = [held EXCEPT ![s] = m]
    /\ UNCHANGED <<trigger, content, published, durable, kv, lastTick, ticks, ghost,
                   pc, conn, recent, cur, dep, key, acking, pending, podReset>>
-----------------------------------------------------------------------------
(* processMsgs and processMsg *)

\* Mutant: no de-duplication.
neverReceived(m) == FALSE

alreadyReceived(m) == \E i \in 1 .. Len(recent) : recent[i] = m

\* Mutant: a discarded message is not acknowledged.
discardUnacked(s) ==
    /\ pc = "idle" /\ held[s] # 0
    /\ ~content[held[s]].valid \/ alreadyReceived(held[s])
    /\ held' = [held EXCEPT ![s] = 0]
    /\ UNCHANGED <<server, ghost, pc, conn, recent, cur, dep, key, acking, pending,
                   podReset>>

\* A message that is no cloud event, or one whose ID is in the cache, is
\* acknowledged and nothing else is done with it.
discardMsg(s) ==
    /\ pc = "idle" /\ held[s] # 0
    /\ ~content[held[s]].valid \/ alreadyReceived(held[s])
    /\ acking' = acking \cup {held[s]}
    /\ held' = [held EXCEPT ![s] = 0]
    /\ UNCHANGED <<server, ghost, pc, conn, recent, cur, dep, key, pending, podReset>>

\* Mutant: the message is acknowledged before it is processed.
ackFirst(s) ==
    /\ pc = "idle" /\ held[s] # 0
    /\ content[held[s]].valid /\ ~alreadyReceived(held[s])
    /\ pc' = "dep" /\ cur' = held[s] /\ dep' = 1
    /\ held' = [held EXCEPT ![s] = 0]
    /\ acking' = acking \cup {held[s]}
    /\ UNCHANGED <<server, ghost, conn, recent, key, pending, podReset>>

acceptMsg(s) ==
    /\ pc = "idle" /\ held[s] # 0
    /\ content[held[s]].valid /\ ~alreadyReceived(held[s])
    /\ pc' = "dep" /\ cur' = held[s] /\ dep' = 1
    /\ held' = [held EXCEPT ![s] = 0]
    /\ UNCHANGED <<server, ghost, conn, recent, key, acking, pending, podReset>>

\* storeMessageID, purgeOldMsgs, and the deferred send that makes the ack
\* goroutine call AckSync.  Purging drops a prefix: what is over a minute old.
finishMsg ==
    /\ pc = "dep" /\ dep = NumDeps + 1
    /\ \E n \in 0 .. Len(recent) :
          /\ recent' = Append(SubSeq(recent, n + 1, Len(recent)), cur)
          /\ IF n > 0 THEN Fault("evict") ELSE NoFault
    /\ acking' = acking \cup {cur}
    /\ pc' = "idle" /\ cur' = 0 /\ dep' = 0
    /\ UNCHANGED <<server, used, settled, savedTick, resetLost,
                   conn, held, key, pending, podReset>>

AckSync(m) ==
    /\ m \in acking /\ conn
    /\ consumer' = [consumer EXCEPT ![m] = "acked"]
    /\ acking' = acking \ {m}
    /\ UNCHANGED <<trigger, content, published, durable, kv, lastTick, ticks, ghost,
                   pc, conn, held, recent, cur, dep, key, pending, podReset>>

AckSyncFails(m) ==
    /\ m \in acking
    /\ RequestFails("ack")
    /\ acking' = acking \ {m}
    /\ UNCHANGED <<server, used, settled, savedTick, resetLost,
                   pc, conn, held, recent, cur, dep, key, pending, podReset>>

\* Mutant: the reset does not wait for a cron goroutine.
resetUnasked ==
    /\ pc = "idle"
    /\ pending' = pending - 1
    /\ pc' = "reset" /\ key' = 1
    /\ UNCHANGED <<server, ghost, conn, held, recent, cur, dep, acking, podReset>>

resetConditions ==
    /\ pc = "idle" /\ pending > 0
    /\ pending' = pending - 1
    /\ pc' = "reset" /\ key' = 1
    /\ UNCHANGED <<server, ghost, conn, held, recent, cur, dep, acking, podReset>>
-----------------------------------------------------------------------------
(* processDependency *)

\* processMsg calls processDependency for the dependencies of the message's
\* subject; one whose transformation fails or whose filter rejects returns.
interested(m, d) == trigger.subject[d] = content[m].subject /\ d \in content[m].passes

savedDeps == {d \in Deps : kv[d] # 0}

skipDependency ==
    /\ pc = "dep" /\ dep <= NumDeps
    /\ ~interested(cur, dep)
    /\ dep' = dep + 1
    /\ UNCHANGED <<server, ghost, pc, conn, held, recent, cur, key, acking,
                   pending, podReset>>

\* Without an AND in the expression the action runs for this event alone.
triggerSingle ==
    /\ pc = "dep" /\ dep <= NumDeps
    /\ interested(cur, dep) /\ ~trigger.requiresAND
    /\ used' = [used EXCEPT ![cur][dep] = @ + 1]
    /\ settled' = settled \cup {<<cur, dep>>}
    /\ dep' = dep + 1
    /\ UNCHANGED <<server, budget, happened, savedTick, resetLost,
                   pc, conn, held, recent, cur, key, acking, pending, podReset>>

\* messages: the saved events, and this one in place of any saved for dep.
messages == [d \in savedDeps \cup {dep} |-> IF d = dep THEN cur ELSE kv[d]]

triggerAll ==
    /\ pc = "dep" /\ dep <= NumDeps /\ conn
    /\ interested(cur, dep) /\ trigger.requiresAND
    /\ savedDeps \cup {dep} \in trigger.expression
    /\ used' = [m \in Msgs |-> [d \in Deps |->
                  IF d \in DOMAIN messages /\ messages[d] = m
                    THEN used[m][d] + 1 ELSE used[m][d]]]
    /\ settled' = settled \cup {<<cur, dep>>}
    /\ pc' = "clear" /\ key' = 1
    /\ UNCHANGED <<server, budget, happened, savedTick, resetLost,
                   conn, held, recent, cur, dep, acking, pending, podReset>>

\* Mutant: the condition is evaluated without the event just received.
saveBlindly ==
    /\ pc = "dep" /\ dep <= NumDeps /\ conn
    /\ interested(cur, dep) /\ trigger.requiresAND
    /\ savedDeps \notin trigger.expression
    /\ kv' = [kv EXCEPT ![dep] = cur]
    /\ savedTick' = [savedTick EXCEPT ![dep] = ticks]
    /\ settled' = settled \cup {<<cur, dep>>}
    /\ dep' = dep + 1
    /\ UNCHANGED <<trigger, content, published, consumer, durable, lastTick, ticks,
                   budget, happened, used, resetLost,
                   pc, conn, held, recent, cur, key, acking, pending, podReset>>

\* Mutant: an event saved earlier for the dependency is kept.
keepSaved ==
    /\ pc = "dep" /\ dep <= NumDeps /\ conn
    /\ interested(cur, dep) /\ trigger.requiresAND
    /\ savedDeps \cup {dep} \notin trigger.expression
    /\ kv' = [kv EXCEPT ![dep] = IF @ = 0 THEN cur ELSE @]
    /\ savedTick' = [savedTick EXCEPT ![dep] = IF kv[dep] = 0 THEN ticks ELSE @]
    /\ settled' = settled \cup {<<cur, dep>>}
    /\ dep' = dep + 1
    /\ UNCHANGED <<trigger, content, published, consumer, durable, lastTick, ticks,
                   budget, happened, used, resetLost,
                   pc, conn, held, recent, cur, key, acking, pending, podReset>>

saveDependency ==
    /\ pc = "dep" /\ dep <= NumDeps /\ conn
    /\ interested(cur, dep) /\ trigger.requiresAND
    /\ savedDeps \cup {dep} \notin trigger.expression
    /\ kv' = [kv EXCEPT ![dep] = cur]
    /\ savedTick' = [savedTick EXCEPT ![dep] = ticks]
    /\ settled' = settled \cup {<<cur, dep>>}
    /\ dep' = dep + 1
    /\ UNCHANGED <<trigger, content, published, consumer, durable, lastTick, ticks,
                   budget, happened, used, resetLost,
                   pc, conn, held, recent, cur, key, acking, pending, podReset>>

\* getSavedDependencies or saveDependency fails: processDependency returns
\* and processMsg carries on as if the event had been dealt with.
dependencyError ==
    /\ pc = "dep" /\ dep <= NumDeps
    /\ interested(cur, dep) /\ trigger.requiresAND
    /\ \/ RequestFails("get")
       \/ savedDeps \cup {dep} \notin trigger.expression /\ RequestFails("put")
    /\ dep' = dep + 1
    /\ UNCHANGED <<server, used, settled, savedTick, resetLost,
                   pc, conn, held, recent, cur, key, acking, pending, podReset>>
-----------------------------------------------------------------------------
(* clearAllDependencies(nil), after an action or for a conditions reset *)

AfterClear ==
    /\ key' = 0
    /\ IF pc = "clear" THEN pc' = "dep" /\ dep' = dep + 1
                       ELSE pc' = "idle" /\ UNCHANGED dep

clearDependencyIfExists ==
    /\ pc \in {"clear", "reset"} /\ key <= NumDeps /\ conn
    /\ kv' = [kv EXCEPT ![key] = 0]
    /\ key' = key + 1
    /\ UNCHANGED <<trigger, content, published, consumer, durable, lastTick, ticks, ghost,
                   pc, conn, held, recent, cur, dep, acking, pending, podReset>>

clearDone ==
    /\ pc \in {"clear", "reset"} /\ key = NumDeps + 1
    /\ AfterClear
    /\ UNCHANGED <<server, ghost, conn, held, recent, cur, acking, pending, podReset>>

\* The first key that cannot be deleted ends the loop; the error is dropped.
clearFails ==
    /\ pc \in {"clear", "reset"} /\ key <= NumDeps
    /\ RequestFails("delete")
    /\ resetLost' = (resetLost \/ pc = "reset")
    /\ AfterClear
    /\ UNCHANGED <<server, used, settled, savedTick,
                   conn, held, recent, cur, acking, pending, podReset>>
-----------------------------------------------------------------------------
processMsgs ==
    \/ \E s \in Subjects : discardMsg(s) \/ acceptMsg(s)
    \/ finishMsg
    \/ skipDependency \/ triggerSingle \/ triggerAll \/ saveDependency
    \/ dependencyError
    \/ resetConditions \/ clearDependencyIfExists \/ clearDone \/ clearFails

Next ==
    \/ Publish \/ CronTick
    \/ \E m \in Msgs : AckWaitExpires(m) \/ AckSync(m) \/ AckSyncFails(m)
    \/ Crash \/ StartPod \/ Disconnect \/ Shutdown
    \/ Subscribe \/ clearDependencyIfExistsBeforeTime
    \/ ClearBeforeTimeFails \/ Subscribed
    \/ \E s \in Subjects : pullSubscribe(s)
    \/ processMsgs

Spec == Init /\ [][Next]_vars

\* Fairness.  The goroutines of a running pod keep running, the daemon looks
\* at the connection every 5 s, Kubernetes restarts a dead pod, and the server
\* redelivers what nobody acknowledged.  Faults, events and cron are not fair.
Fairness ==
    /\ WF_vars(StartPod) /\ WF_vars(Shutdown)
    /\ WF_vars(Subscribe \/ clearDependencyIfExistsBeforeTime
                 \/ ClearBeforeTimeFails \/ Subscribed)
    /\ WF_vars(processMsgs)
    /\ \A s \in Subjects : WF_vars(pullSubscribe(s))
    /\ \A m \in Msgs : /\ WF_vars(AckWaitExpires(m))
                       /\ WF_vars(AckSync(m) \/ AckSyncFails(m))

FairSpec == Spec /\ Fairness
-----------------------------------------------------------------------------
(* Properties *)

\* No event is lost between its acknowledgement and the trigger: a message the
\* server considers done was, for every dependency it is meant for, part of a
\* firing or saved in the K/V store, unless a K/V request failed on a live
\* connection (processDependency returns, processMsg still acknowledges).
AckedEventsSettled ==
    \A m \in Msgs : \A d \in Deps :
        consumer[m] = "acked" /\ content[m].valid /\ interested(m, d)
          => <<m, d>> \in settled \/ "get" \in happened \/ "put" \in happened

\* An event takes part in at most one firing per dependency as long as the
\* pod and its connection live, cached IDs are not purged and K/V deletions
\* succeed; failed acknowledgements and expired ack waits are absorbed.
AtMostOncePerConnection ==
    \/ happened \cap {"crash", "disconnect", "evict", "delete"} # {}
    \/ \A m \in Msgs : \A d \in Deps : used[m][d] <= 1

\* Whatever fails, the saved events alone never satisfy the condition: no
\* trigger sits on a complete set of events without having run its action.
SavedEventsIncomplete == savedDeps \notin trigger.expression

\* Once a reset of the conditions is through, no event saved before it is
\* left, also when the pod died in between and its successor has only the
\* previous cron time, unless a deletion of a reset failed.
ResetForgetsSaved ==
    pc \in {"idle", "dep"} /\ pending = 0 /\ ~resetLost
      => \A d \in Deps : kv[d] # 0 => savedTick[d] = ticks

\* Every message given to the durable consumers is acknowledged in the end,
\* whatever finite number of faults happens (pullSubscribe, processMsg, the
\* daemon's reconnection and the server's redelivery together), unless the
\* shutdown of a subscription blocks for good.
EventuallyAcked ==
    \A m \in Msgs : consumer[m] = "new" ~> consumer[m] = "acked" \/ [](pc = "stuck")
=============================================================================
