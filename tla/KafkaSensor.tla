---------------------------- MODULE KafkaSensor ----------------------------
(***************************************************************************)
(* A sensor on the Kafka event bus (pkg/eventbus/kafka/sensor).            *)
(*                                                                         *)
(* Every pod of the sensor consumes, in one consumer group, partitions of  *)
(* three topics.  An event is turned into one trigger-topic message per    *)
(* interested trigger and dependency (or straight into an action-topic     *)
(* message when the trigger needs no other event); trigger-topic messages  *)
(* are held in memory until the trigger's condition is true and then       *)
(* become one action-topic message; action-topic messages run the action.  *)
(* A batch of messages, the offset and the checkpoints that go with it are *)
(* committed in one Kafka transaction.  What a pod holds in memory is      *)
(* rebuilt from the committed offset after a crash or a rebalance.         *)
(* The triggers modelled have no conditions reset: lastResetTime is zero.  *)
(*                                                                         *)
(* Offsets count from 0: the message at offset o of log l is l[o + 1].     *)
(***************************************************************************)
EXTENDS Integers, Sequences, FiniteSets

CONSTANTS
    Pods,
    TriggerParts,  \* partitions of the trigger topic (one of the other two)
    Triggers,
    DepsOf,        \* DepsOf[t]: dependencies in the expression of trigger t
    SourceOf,      \* SourceOf[d]: the event source and name d listens to
    Contents,      \* what may be published: a source, and the dependencies
                   \* whose transformation and filters let the event pass
    Expression,    \* Expression[t]: sets of dependencies that satisfy t
    HasAnd,        \* HasAnd[t]: there is an && among the expression's tokens
    Partitions,    \* Partitions[t]: where messages with key t may end up
    AtLeastOnce,   \* AtLeastOnce[t]: trigger.AtLeastOnce of trigger t
    Settings,      \* values of consumerGroup.oldest to consider
    MaxInputs,     \* bound: events published, and calls of BeginTxn and of
                   \* session.Commit that fail, together
    MaxCrashes,    \* bound: pods that die
    MaxRebalances  \* bound: rebalances without a crash

Event == "event"
Action == "action"
Outputs == {Action} \cup TriggerParts
Parts == {Event} \cup Outputs
Deps == UNION {DepsOf[t] : t \in Triggers}

ASSUME KafkaAssumption ==
    /\ Pods # {} /\ TriggerParts # {} /\ {Event, Action} \cap TriggerParts = {}
    /\ IsFiniteSet(Triggers) /\ IsFiniteSet(Deps)
    /\ \A t \in Triggers : /\ Partitions[t] \subseteq TriggerParts /\ Partitions[t] # {}
                           /\ Expression[t] \subseteq SUBSET DepsOf[t]
    /\ \A c \in Contents : c.passes \subseteq Deps
    /\ HasAnd \in [Triggers -> BOOLEAN]
    /\ AtLeastOnce \in [Triggers -> BOOLEAN] /\ Settings \subseteq BOOLEAN
    /\ MaxInputs \in Nat /\ MaxCrashes \in Nat /\ MaxRebalances \in Nat

VARIABLES
    log,         \* log[p]: messages of partition p visible to ReadCommitted
    committed,   \* committed[p]: the group's offset, -1 if it has none
    metadata,    \* metadata[p][t]: checkpoints stored with that offset
    owner,       \* owner[p]: pod that has claimed p
    stage,       \* stage[p]: "off" (no session), "idle", "first" (Init is
                 \* cleared, the message not handled yet) or "batch"
    pos,         \* pos[p]: next offset ConsumeClaim gets
    mark,        \* mark[p]: offset marked or fetched in this session
    dirty,       \* dirty[p]: the metadata marked, until a commit of the mark
                 \* is answered; {} if there is no such mark
    first,       \* first[p]: checkpoint.Init, mark the first message
    checkpoint,  \* checkpoint[p][t]: checkpoint.Offsets in memory
    batch,       \* batch[p]: messages for each partition, offset and
                 \* functions collected
    events,      \* events[w][t]: what trigger t holds in pod w
    running,     \* running[w]: go fn() not yet executed
    actions,     \* history: calls of the trigger's action
    unsure,      \* history: offsets of actions released without the commit
    rolledBack,  \* history: a late commit put an offset or checkpoint back
    oldest,      \* consumerGroup.oldest, which never changes
    crashes, rebalances, txnErrors, commitErrors

bus     == <<log, committed, metadata>>
marks   == <<mark, dirty>>
session == <<owner, stage, pos, marks, first, checkpoint, batch, events>>
faults  == <<unsure, rolledBack, commitErrors>>
bounds  == <<oldest, crashes, rebalances, txnErrors>>
vars    == <<bus, session, running, actions, faults, bounds>>

NoOffset == -1
NoMessages == [q \in Outputs |-> <<>>]
EmptyBatch == [out |-> NoMessages, offset |-> 0, fns |-> {}]
NoCheckpoint == [t \in Triggers |-> 0]
NoEvents == [t \in Triggers |-> {}]
-----------------------------------------------------------------------------
\* All partitions are claimed and their first session begins.
Init ==
    /\ oldest \in Settings
    /\ log = [p \in Parts |-> <<>>]
    /\ committed = [p \in Parts |-> NoOffset]
    /\ metadata = [p \in Parts |-> NoCheckpoint]
    /\ owner \in [Parts -> Pods]
    /\ stage = [p \in Parts |-> "idle"]
    /\ pos = [p \in Parts |-> 0]
    /\ mark = [p \in Parts |-> NoOffset] /\ dirty = [p \in Parts |-> {}]
    /\ first = [p \in Parts |-> ~oldest]
    /\ checkpoint = [p \in Parts |-> NoCheckpoint]
    /\ batch = [p \in Parts |-> EmptyBatch]
    /\ events = [w \in Pods |-> NoEvents]
    /\ running = [w \in Pods |-> {}]
    /\ actions = <<>> /\ unsure = {} /\ rolledBack = FALSE
    /\ crashes = 0 /\ rebalances = 0 /\ txnErrors = 0 /\ commitErrors = 0
-----------------------------------------------------------------------------
(* Event sources, pods and the group coordinator *)

MoreInput == Len(log[Event]) + txnErrors + commitErrors < MaxInputs

Publish ==
    /\ MoreInput
    /\ \E c \in Contents : log' = [log EXCEPT ![Event] = Append(@, c)]
    /\ UNCHANGED <<committed, metadata, session, running, actions, faults, bounds>>

\* A pod dies with all it holds, functions it had yet to run included.
Crash(w) ==
    /\ crashes < MaxCrashes
    /\ crashes' = crashes + 1
    /\ stage' = [p \in Parts |-> IF owner[p] = w THEN "off" ELSE stage[p]]
    /\ batch' = [p \in Parts |-> IF owner[p] = w THEN EmptyBatch ELSE batch[p]]
    /\ events' = [events EXCEPT ![w] = NoEvents]
    /\ running' = [running EXCEPT ![w] = {}]
    /\ UNCHANGED <<bus, owner, pos, marks, first, checkpoint, actions, faults,
                   oldest, rebalances, txnErrors>>

\* The members of the group leave their ConsumeClaim loops between batches,
\* Cleanup resets the triggers, partitions are assigned anew and Setup reads
\* the checkpoints; consumption resumes at the committed offset.  Without one
\* NextOffset answers the configured start: Init is set for newest (-1) only.
\* Marks not committed go with the session: auto-commit is off.
Rebalance ==
    /\ \A p \in Parts : stage[p] \in {"off", "idle"}
    /\ IF \E p \in Parts : stage[p] = "off"
         THEN UNCHANGED rebalances
         ELSE rebalances < MaxRebalances /\ rebalances' = rebalances + 1
    /\ owner' \in [Parts -> Pods]
    /\ stage' = [p \in Parts |-> "idle"]
    /\ pos' = [p \in Parts |->
                 CASE committed[p] # NoOffset -> committed[p]
                   [] committed[p] = NoOffset /\ oldest -> 0
                   [] OTHER -> Len(log[p])]
    /\ mark' = committed /\ dirty' = [p \in Parts |-> {}]
    /\ first' = [p \in Parts |-> committed[p] = NoOffset /\ ~oldest]
    /\ checkpoint' = metadata
    /\ events' = [w \in Pods |-> NoEvents]
    /\ UNCHANGED <<bus, batch, running, actions, faults, oldest, crashes, txnErrors>>
-----------------------------------------------------------------------------
(* session.MarkOffset and session.Commit *)

\* A mark never goes back within a session.  Commit sends every mark of the pod
\* that no commit has confirmed, once, and returns nothing: a partition's
\* commit may fail, or be applied and its answer lost.
SessionCommit(p, offset, meta) ==
    LET moves == offset > mark[p]
        marked == [mark EXCEPT ![p] = IF moves THEN offset ELSE @]
        unsent == [dirty EXCEPT ![p] = IF moves THEN {meta} ELSE @]
        sent == {q \in Parts : owner[q] = owner[p] /\ unsent[q] # {}}
        stored(q) == CHOOSE m \in unsent[q] : TRUE
    IN  /\ mark' = marked
        /\ \E applied \in SUBSET sent : \E answered \in SUBSET applied :
              /\ committed' = [q \in Parts |-> IF q \in applied THEN marked[q] ELSE committed[q]]
              /\ metadata' = [q \in Parts |-> IF q \in applied THEN stored(q) ELSE metadata[q]]
              /\ dirty' = [q \in Parts |-> IF q \in answered THEN {} ELSE unsent[q]]
              /\ IF answered = sent
                   THEN UNCHANGED commitErrors
                   ELSE MoreInput /\ commitErrors' = commitErrors + 1
        /\ rolledBack' = (rolledBack \/ \E q \in Parts :
                            \/ committed'[q] < committed[q]
                            \/ \E t \in Triggers : metadata'[q][t] < metadata[q][t])
-----------------------------------------------------------------------------
(* ConsumeClaim, up to the call of the handler *)

Waiting(p) == stage[p] # "off" /\ pos[p] < Len(log[p])
Available(p) == Waiting(p) /\ ~first[p]
Msg(p) == log[p][pos[p] + 1]

\* The first message ever: mark and commit its offset, to restart from it.
\* Init is cleared whether or not the commit succeeds.
MarkFirst(p) ==
    /\ Waiting(p) /\ first[p]
    /\ SessionCommit(p, pos[p], NoCheckpoint)
    /\ first' = [first EXCEPT ![p] = FALSE]
    /\ stage' = [stage EXCEPT ![p] = "first"]
    /\ UNCHANGED <<log, owner, pos, checkpoint, batch, events, running, actions,
                   unsure, bounds>>

\* The messages and functions so far, and the offset of the last one handled.
Collect(p, out, offset, fns) ==
    /\ stage' = [stage EXCEPT ![p] = "batch"]
    /\ pos' = [pos EXCEPT ![p] = @ + 1]
    /\ batch' = [batch EXCEPT ![p] = [out |-> out, offset |-> offset,
                                      fns |-> @.fns \cup fns]]
    /\ UNCHANGED <<bus, owner, marks, first, faults, bounds>>
-----------------------------------------------------------------------------
(* KafkaSensor.Event *)

\* Triggers.List, Transform and Filter: every trigger and dependency the event
\* is meant for.
Wanted(e) == {w \in Triggers \X Deps :
                 /\ w[2] \in DepsOf[w[1]] /\ SourceOf[w[2]] = e.source
                 /\ w[2] \in e.passes}

OneAndDone(t) == ~HasAnd[t]

\* One message per pair, in any order (Go ranges over a map) and in any of
\* the partitions the partitioner may choose for its key.
Message(o, w) == [key |-> w[1], dep |-> w[2], evs |-> {[dep |-> w[2], id |-> o]}]

Destinations(e) ==
    {to \in [Wanted(e) -> Outputs] :
        \A w \in Wanted(e) :
            IF OneAndDone(w[1]) THEN to[w] = Action ELSE to[w] \in Partitions[w[1]]}

Orders(S) == {s \in [1 .. Cardinality(S) -> S] : \A i, j \in DOMAIN s : i # j => s[i] # s[j]}

EventOutputs(o, e) ==
    LET sent(to, p) == {Message(o, w) : w \in {x \in Wanted(e) : to[x] = p}}
    IN  UNION {{out \in [Outputs -> UNION {Orders(sent(to, p)) : p \in Outputs}] :
                  \A p \in Outputs : out[p] \in Orders(sent(to, p))} : to \in Destinations(e)}

HandleEvent ==
    /\ Available(Event)
    /\ \E out \in EventOutputs(pos[Event], Msg(Event)) :
          Collect(Event, [q \in Outputs |-> batch[Event].out[q] \o out[q]],
                  pos[Event] + 1, {})
    /\ UNCHANGED <<checkpoint, events, running, actions>>
-----------------------------------------------------------------------------
(* KafkaSensor.Trigger, KafkaTriggerConnection.Update and Offset *)

\* Mutant: an earlier event of the same dependency is kept.
UpdateKeeps(held, p, m) ==
    held \cup
    {[dep |-> m.dep, part |-> p, offset |-> pos[p], id |-> (CHOOSE v \in m.evs : TRUE).id]}

\* Update: the new event replaces one of the same dependency.
Update(held, p, m) ==
    {e \in held : e.dep # m.dep} \cup
    {[dep |-> m.dep, part |-> p, offset |-> pos[p], id |-> (CHOOSE v \in m.evs : TRUE).id]}

Satisfied(t, held) == {e.dep : e \in held} \in Expression[t]

\* Mutant: the offset moves on whatever the triggers hold.
NextOffset(p, next, held) == next

\* Offset: the smallest offset on this partition that any trigger still holds.
Lowest(p, next, held) ==
    LET low == {next} \cup {e.offset : e \in {x \in UNION {held[t] : t \in Triggers} :
                                                x.part = p}}
    IN  CHOOSE o \in low : \A x \in low : o <= x

\* Mutant: the checkpoint does not cover the message that fired.
SkipShort(p) == pos[p] + 1 < checkpoint[p][Msg(p).key]

Skip(p) == pos[p] < checkpoint[p][Msg(p).key]

SkipTrigger(p) ==
    /\ Available(p) /\ Skip(p)
    /\ Collect(p, batch[p].out, batch[p].offset, {})
    /\ UNCHANGED <<checkpoint, events, running, actions>>

HandleTrigger(p) ==
    /\ Available(p) /\ ~Skip(p)
    /\ LET w == owner[p]
           m == Msg(p)
           t == m.key
           held == Update(events[w][t], p, m)
           fire == Satisfied(t, held)
           after == [events[w] EXCEPT ![t] = IF fire THEN {} ELSE held]
       IN  /\ events' = [events EXCEPT ![w] = after]
           /\ checkpoint' = IF fire THEN [checkpoint EXCEPT ![p][t] = pos[p] + 1]
                                    ELSE checkpoint
           /\ Collect(p,
                IF fire THEN [batch[p].out EXCEPT ![Action] = Append(@,
                                [key |-> t, dep |-> m.dep,
                                 evs |-> {[dep |-> e.dep, id |-> e.id] : e \in held}])]
                        ELSE batch[p].out,
                Lowest(p, pos[p] + 1, after), {})
    /\ UNCHANGED <<running, actions>>
-----------------------------------------------------------------------------
(* KafkaSensor.Action *)

\* KafkaTriggerConnection.Action: the event map has one entry, the event of the
\* dependency named in the message's header (the last of its source).
ActionCall(p) ==
    [offset |-> pos[p], trigger |-> Msg(p).key,
     given |-> {e \in Msg(p).evs : e.dep = Msg(p).dep}]

\* Mutant: the action always runs before the commit.
ActBeforeCommit ==
    /\ Available(Action)
    /\ actions' = Append(actions, ActionCall(Action))
    /\ Collect(Action, batch[Action].out, pos[Action] + 1, {})
    /\ UNCHANGED <<checkpoint, events, running>>

\* Mutant: the action always runs after the commit.
ActAfterCommit ==
    /\ Available(Action)
    /\ Collect(Action, batch[Action].out, pos[Action] + 1, {ActionCall(Action)})
    /\ UNCHANGED <<checkpoint, events, running, actions>>

HandleAction ==
    /\ Available(Action)
    /\ LET call == ActionCall(Action)
       IN  IF AtLeastOnce[call.trigger]
           THEN /\ actions' = Append(actions, call)
                /\ Collect(Action, batch[Action].out, pos[Action] + 1, {})
           ELSE /\ Collect(Action, batch[Action].out, pos[Action] + 1, {call})
                /\ UNCHANGED actions
    /\ UNCHANGED <<checkpoint, events, running>>
-----------------------------------------------------------------------------
(* KafkaTransaction.Commit, then the functions *)

EndBatch(p) ==
    /\ stage' = [stage EXCEPT ![p] = "idle"]
    /\ batch' = [batch EXCEPT ![p] = EmptyBatch]
    /\ running' = [running EXCEPT ![owner[p]] = @ \cup batch[p].fns]
    /\ UNCHANGED <<owner, pos, first, checkpoint, events, actions, oldest, crashes,
                   rebalances>>

\* Without messages only the offset is marked and committed; the functions run
\* even if that failed.
CommitOffset(p) ==
    /\ stage[p] = "batch" /\ batch[p].out = NoMessages
    /\ SessionCommit(p, batch[p].offset, checkpoint[p])
    /\ EndBatch(p)
    /\ unsure' = unsure \cup {f.offset : f \in {g \in batch[p].fns : committed'[p] <= g.offset}}
    /\ UNCHANGED <<log, txnErrors>>

\* Messages, offset and checkpoints become visible together or not at all;
\* an error from AddOffsetsToTxn or CommitTxn is retried or ends the pod.
CommitTxn(p) ==
    /\ stage[p] = "batch" /\ batch[p].out # NoMessages
    /\ log' = [q \in Parts |-> IF q = Event THEN log[q] ELSE log[q] \o batch[p].out[q]]
    /\ committed' = [committed EXCEPT ![p] = batch[p].offset]
    /\ metadata' = [metadata EXCEPT ![p] = checkpoint[p]]
    /\ EndBatch(p)
    /\ UNCHANGED <<marks, faults, txnErrors>>

\* The error of BeginTxn is logged and the batch is over: what the handlers did
\* to the checkpoints and the held events stays done.
BeginTxnFails(p) ==
    /\ stage[p] = "batch" /\ batch[p].out # NoMessages
    /\ MoreInput
    /\ txnErrors' = txnErrors + 1
    /\ EndBatch(p)
    /\ UNCHANGED <<bus, marks, faults>>

RunAction(w) ==
    /\ \E call \in running[w] :
          /\ actions' = Append(actions, call)
          /\ running' = [running EXCEPT ![w] = @ \ {call}]
    /\ UNCHANGED <<bus, session, faults, bounds>>
-----------------------------------------------------------------------------
Next ==
    \/ Publish \/ Rebalance \/ HandleEvent \/ HandleAction
    \/ \E w \in Pods : Crash(w) \/ RunAction(w)
    \/ \E p \in TriggerParts : SkipTrigger(p) \/ HandleTrigger(p)
    \/ \E p \in Parts : MarkFirst(p) \/ CommitOffset(p) \/ CommitTxn(p) \/ BeginTxnFails(p)

Spec == Init /\ [][Next]_vars
-----------------------------------------------------------------------------
(* Properties *)

Uses == [dep : Deps, id : Nat]
Messages == [key : Triggers, dep : Deps, evs : SUBSET Uses]
Calls == [offset : Nat, trigger : Triggers, given : SUBSET Uses]
Held == [dep : Deps, part : TriggerParts, offset : Nat, id : Nat]
Batches == [out : [Outputs -> Seq(Messages)], offset : Nat, fns : SUBSET Calls]

\* Types: what is marked or committed has been consumed, and is logged; a mark
\* that is ahead of the committed offset is one that Commit will send again;
\* and a trigger holds at most one event per dependency, from its own partitions.
TypeOK ==
    /\ owner \in [Parts -> Pods] /\ stage \in [Parts -> {"off", "idle", "first", "batch"}]
    /\ log \in [Parts -> Seq(Contents \cup Messages)]
    /\ committed \in [Parts -> Int] /\ mark \in [Parts -> Int] /\ pos \in [Parts -> Nat]
    /\ \A p \in Parts : /\ pos[p] <= Len(log[p])
                        /\ NoOffset <= mark[p] /\ mark[p] <= pos[p]
                        /\ NoOffset <= committed[p] /\ committed[p] <= pos[p]
                        /\ mark[p] > committed[p] => dirty[p] # {}
    /\ dirty \in [Parts -> SUBSET [Triggers -> Nat]]
    /\ metadata \in [Parts -> [Triggers -> Nat]] /\ checkpoint \in [Parts -> [Triggers -> Nat]]
    /\ first \in [Parts -> BOOLEAN] /\ oldest \in BOOLEAN
    /\ batch \in [Parts -> Batches]
    /\ events \in [Pods -> [Triggers -> SUBSET Held]]
    /\ \A w \in Pods, t \in Triggers : \A e, f \in events[w][t] :
          /\ e.dep \in DepsOf[t] /\ e.part \in Partitions[t]
          /\ e.dep = f.dep => e = f
    /\ running \in [Pods -> SUBSET Calls] /\ actions \in Seq(Calls)
    /\ unsure \subseteq Nat /\ rolledBack \in BOOLEAN
    /\ crashes \in Nat /\ rebalances \in Nat /\ txnErrors \in Nat /\ commitErrors \in Nat

\* The conjunctions' use of events: pairs of trigger-topic log positions cannot
\* be seen in an action message, but the event and its dependency can.
UsedIn(i) == {<<log[Action][i].key, e>> : e \in log[Action][i].evs}

\* Where a trigger's messages share a partition (the hash partitioner), the
\* trigger is not evaluated to true twice with the same event, whatever crashes,
\* rebalances and failed commits happen between the handler and the commit: the
\* transaction moves the offset and the checkpoint together with the message.
\* It may be once a mark left by a failed commit was sent after a transaction
\* and put the partition's offset or checkpoints back.
EvaluatedOnce ==
    ~rolledBack => \A i, j \in 1 .. Len(log[Action]) : i # j => UsedIn(i) \cap UsedIn(j) = {}

\* A trigger-topic message that is neither part of an action message nor
\* superseded by a later one of the same dependency will be read again: the
\* committed offset has not passed it and no checkpoint skips it (unless the
\* transaction of a batch could not even begin).
Used(t, e) == \E i \in 1 .. Len(log[Action]) : <<t, e>> \in UsedIn(i)
Superseded(p, i) == \E j \in i + 1 .. Len(log[p]) :
                       log[p][j].key = log[p][i].key /\ log[p][j].dep = log[p][i].dep
PendingKept ==
    oldest /\ txnErrors = 0 => \A p \in TriggerParts : \A i \in 1 .. Len(log[p]) :
        LET m == log[p][i] IN
        \/ \A e \in m.evs : Used(m.key, e)
        \/ Superseded(p, i)
        \/ committed[p] < i /\ metadata[p][m.key] < i

\* Unless its trigger asks for AtLeastOnce, an action runs at most once per
\* message of the action topic, except for messages whose action was started
\* although the commit of their offset had failed.
ActionAtMostOnce ==
    \A i, j \in 1 .. Len(actions) :
        i # j /\ ~AtLeastOnce[actions[i].trigger] /\ actions[i].offset = actions[j].offset
        => actions[i].offset \in unsure

\* With AtLeastOnce, an action message whose offset is committed has run.
ActionAtLeastOnce ==
    \A i \in 1 .. Len(log[Action]) :
        oldest /\ AtLeastOnce[log[Action][i].key] /\ committed[Action] >= i
        => \E k \in 1 .. Len(actions) : actions[k].offset = i - 1
=============================================================================
