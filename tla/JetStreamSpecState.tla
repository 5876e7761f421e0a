------------------------- MODULE JetStreamSpecState -------------------------
(***************************************************************************)
(* The K/V bucket of a sensor on the JetStream event bus across changes of *)
(* the sensor's specification (setStateToSpec in                           *)
(* pkg/eventbus/jetstream/sensor/sensor_jetstream.go): what a pod that     *)
(* becomes leader purges of the events an earlier pod saved, and the       *)
(* specification it stores for its successor.  Every K/V request is a step *)
(* of its own, so the pod may die between any two of them.                 *)
(***************************************************************************)
EXTENDS Integers, FiniteSets

CONSTANTS
    Triggers, DepNames,
    Defs,        \* definitions a dependency may have (what Hash tells apart)
    Conditions,  \* values of Template.Conditions, NoConditions if left out
    NoConditions,
    VarsOf,      \* VarsOf[c]: dependencies that conditions c mention
    Considered(_), \* bound: the specifications to consider
    MaxEdits,    \* bound: changes of the specification by its owner
    MaxErrors    \* bound: K/V requests that fail

None == "none"

ASSUME SpecStateAssumption ==
    /\ None \notin Defs /\ None \notin Conditions
    /\ VarsOf \in [Conditions -> SUBSET DepNames]
    /\ NoConditions \in Conditions => VarsOf[NoConditions] = {}
    /\ MaxEdits \in Nat /\ MaxErrors \in Nat

\* deps[d] and conds[t] of a specification; None where it has no d or no t.
Specs == [deps : [DepNames -> Defs \cup {None}],
          conds : [Triggers -> Conditions \cup {None}]]

DepsIn(sp)     == {d \in DepNames : sp.deps[d] # None}
TriggersIn(sp) == {t \in Triggers : sp.conds[t] # None}

\* getDependencyExpression: no conditions mean && over all dependencies.
ExprDeps(sp, t) == IF sp.conds[t] = NoConditions THEN DepsIn(sp)
                                                 ELSE VarsOf[sp.conds[t]]

\* Validation refuses a sensor without triggers or without dependencies.
ValidSpecs == {sp \in Specs : DepsIn(sp) # {} /\ TriggersIn(sp) # {} /\ Considered(sp)}

\* Conditions may name a dependency that is not defined: validation lets them
\* pass, and listenEvents leaves such a trigger without a connection.
Listening(sp) == {t \in TriggersIn(sp) : ExprDeps(sp, t) \subseteq DepsIn(sp)}

VARIABLES
    spec,       \* the sensor's specification in the cluster
    podSpec,    \* the one the leading pod was started with
    saved,      \* saved[t][d]: {} or the tag of the event saved for d
    consumers,  \* <<t, d>> with a durable consumer on the server
    defs,       \* stored: DependencyDefsKey
    list,       \* stored: TriggersKey
    exprs,      \* stored: <trigger>/Expression, None when there is no key
    pc,         \* step of the pod
    work,       \* dependencies still to purge
    half,       \* purged from the K/V store, consumer still to delete
    removed,    \* triggers whose expression is still to delete
    unsaved,    \* triggers whose expression is still to store
    edits, errors,
    failed      \* requests whose error setStateToSpec dropped

kvs   == <<saved, defs, list, exprs>>
loops == <<work, half, removed, unsaved>>
vars  == <<spec, podSpec, consumers, kvs, pc, loops, edits, errors, failed>>

\* What the events saved for trigger t and dependency d depend on: the
\* definition of d and the expression of t.
Tag(sp, t, d) == [def |-> sp.deps[d], conds |-> sp.conds[t],
                  over |-> ExprDeps(sp, t)]

\* Types: what is stored is a specification that passed validation, and each
\* trigger keeps at most one event per dependency, of its own expression.
TypeOK ==
    /\ spec \in ValidSpecs /\ podSpec \in ValidSpecs
    /\ \A t \in Triggers : \A d \in DepNames :
          /\ Cardinality(saved[t][d]) <= 1
          /\ \A e \in saved[t][d] : e.def \in Defs /\ d \in e.over
    /\ consumers \subseteq Triggers \X DepNames
    /\ defs \in [DepNames -> Defs \cup {None}]
    /\ list \subseteq Triggers
    /\ exprs \in [Triggers -> Conditions \cup {None}]
    /\ pc \in {"down", "compare", "purge", "delete", "triggers", "exprs", "run"}
    /\ work \subseteq Triggers \X DepNames /\ half \subseteq Triggers \X DepNames
    /\ removed \subseteq Triggers /\ unsaved \subseteq Triggers
    /\ edits \in 0 .. MaxEdits /\ errors \in 0 .. MaxErrors
    /\ failed \subseteq {"purge", "consumer"}
-----------------------------------------------------------------------------
\* A new sensor: nothing is in the bucket yet.
Init ==
    /\ spec \in ValidSpecs /\ podSpec = spec
    /\ saved = [t \in Triggers |-> [d \in DepNames |-> {}]]
    /\ consumers = {}
    /\ defs = [d \in DepNames |-> None]
    /\ list = {}
    /\ exprs = [t \in Triggers |-> None]
    /\ pc = "down"
    /\ work = {} /\ half = {} /\ removed = {} /\ unsaved = {}
    /\ edits = 0 /\ errors = 0 /\ failed = {}
-----------------------------------------------------------------------------
(* The owner of the sensor, and the pods *)

EditSpec ==
    /\ edits < MaxEdits
    /\ edits' = edits + 1
    /\ spec' \in ValidSpecs \ {spec}
    /\ UNCHANGED <<podSpec, consumers, kvs, pc, loops, errors, failed>>

\* The leading pod dies, or the deployment replaces it.
PodDies ==
    /\ pc # "down"
    /\ pc' = "down"
    /\ work' = {} /\ half' = {} /\ removed' = {} /\ unsaved' = {}
    /\ UNCHANGED <<spec, podSpec, consumers, kvs, edits, errors, failed>>

\* Another pod becomes leader; Initialize finds or creates the bucket.
Initialize ==
    /\ pc = "down"
    /\ podSpec' = spec
    /\ pc' = "compare"
    /\ UNCHANGED <<spec, consumers, kvs, loops, edits, errors, failed>>

Error == errors < MaxErrors /\ errors' = errors + 1
-----------------------------------------------------------------------------
(* setStateToSpec *)

\* Mutant: only removed dependencies count as changed.
removedDeps == {d \in DepNames : defs[d] # None /\ podSpec.deps[d] = None}

changedDeps == {d \in DepNames : defs[d] # None /\ podSpec.deps[d] # defs[d]}

\* getTriggerExpression answers "" for a key that does not exist.
getTriggerExpression(t) == IF exprs[t] = None THEN NoConditions ELSE exprs[t]

removedTriggers == list \ TriggersIn(podSpec)
validTriggers == {t \in list \cap TriggersIn(podSpec) :
                     getTriggerExpression(t) = podSpec.conds[t]}
changedTriggers == (list \cap TriggersIn(podSpec)) \ validTriggers

\* The dependencies named in the stored expression.
purgeAllDepsForTrigger(t) ==
    LET c == getTriggerExpression(t)
    IN  {t} \X (IF c = NoConditions THEN {} ELSE VarsOf[c])

\* getChangedDeps and getChangedTriggers, and what follows from them.
Compare ==
    /\ pc = "compare"
    /\ pc' = "purge"
    /\ work' = (validTriggers \X changedDeps) \cup
               UNION {purgeAllDepsForTrigger(t) : t \in changedTriggers \cup removedTriggers}
    /\ removed' = removedTriggers
    /\ UNCHANGED <<spec, podSpec, consumers, kvs, half, unsaved, edits, errors,
                   failed>>

\* purgeDependency: the K/V entry first ...
purgeDependency(t, d) ==
    /\ pc = "purge" /\ half = {} /\ <<t, d>> \in work
    /\ saved' = [saved EXCEPT ![t][d] = {}]
    /\ work' = work \ {<<t, d>>}
    /\ half' = {<<t, d>>}
    /\ UNCHANGED <<spec, podSpec, consumers, defs, list, exprs, pc, removed,
                   unsaved, edits, errors, failed>>

\* Mutant: the durable consumer is forgotten.
KeepConsumer ==
    /\ pc = "purge" /\ half # {}
    /\ half' = {}
    /\ UNCHANGED <<spec, podSpec, consumers, kvs, pc, work, removed, unsaved, edits,
                   errors, failed>>

\* ... then the durable consumer.
DeleteConsumer ==
    /\ pc = "purge" /\ half # {}
    /\ consumers' = consumers \ half
    /\ half' = {}
    /\ UNCHANGED <<spec, podSpec, kvs, pc, work, removed, unsaved, edits, errors,
                   failed>>

\* An error of DeleteConsumer is dropped on the spot.
DeleteConsumerFails ==
    /\ pc = "purge" /\ half # {}
    /\ Error
    /\ half' = {}
    /\ failed' = failed \cup {"consumer"}
    /\ UNCHANGED <<spec, podSpec, consumers, kvs, pc, work, removed, unsaved, edits>>

\* An error ends the purge of this trigger and is ignored by setStateToSpec.
PurgeFails(t) ==
    /\ pc = "purge" /\ half = {}
    /\ \E d \in DepNames : <<t, d>> \in work
    /\ Error
    /\ work' = {w \in work : w[1] # t}
    /\ failed' = failed \cup {"purge"}
    /\ UNCHANGED <<spec, podSpec, consumers, kvs, pc, half, removed, unsaved, edits>>

Purged ==
    /\ pc = "purge" /\ work = {} /\ half = {}
    /\ pc' = "delete"
    /\ UNCHANGED <<spec, podSpec, consumers, kvs, loops, edits, errors, failed>>

\* saveSpec: drop the expressions of removed triggers, store the dependency
\* definitions, the trigger list, and the expression of each trigger.
deleteTriggerExpression(t) ==
    /\ pc = "delete" /\ t \in removed
    /\ exprs' = [exprs EXCEPT ![t] = None]
    /\ removed' = removed \ {t}
    /\ UNCHANGED <<spec, podSpec, consumers, saved, defs, list, pc, work, half,
                   unsaved, edits, errors, failed>>

storeDependencyDefinitions ==
    /\ pc = "delete" /\ removed = {}
    /\ defs' = podSpec.deps
    /\ pc' = "triggers"
    /\ UNCHANGED <<spec, podSpec, consumers, saved, list, exprs, loops, edits,
                   errors, failed>>

storeTriggerList ==
    /\ pc = "triggers"
    /\ list' = TriggersIn(podSpec)
    /\ unsaved' = TriggersIn(podSpec)
    /\ pc' = "exprs"
    /\ UNCHANGED <<spec, podSpec, consumers, saved, defs, exprs, work, half,
                   removed, edits, errors, failed>>

storeTriggerExpression(t) ==
    /\ pc = "exprs" /\ t \in unsaved
    /\ exprs' = [exprs EXCEPT ![t] = podSpec.conds[t]]
    /\ unsaved' = unsaved \ {t}
    /\ UNCHANGED <<spec, podSpec, consumers, saved, defs, list, pc, work, half,
                   removed, edits, errors, failed>>

\* Any error while comparing or saving is returned: Initialize is retried
\* from the start, on the same connection and specification.
InitializeFails ==
    /\ pc \in {"compare", "delete", "triggers", "exprs"}
    /\ Error
    /\ pc' = "compare"
    /\ work' = {} /\ half' = {} /\ removed' = {} /\ unsaved' = {}
    /\ UNCHANGED <<spec, podSpec, consumers, kvs, edits, failed>>

\* The triggers that can connect and subscribe to each dependency of their
\* expression.
Run ==
    /\ pc = "exprs" /\ unsaved = {}
    /\ consumers' = consumers \cup
          UNION {{t} \X ExprDeps(podSpec, t) : t \in Listening(podSpec)}
    /\ pc' = "run"
    /\ UNCHANGED <<spec, podSpec, kvs, loops, edits, errors, failed>>
-----------------------------------------------------------------------------
(* The running triggers (module JetStreamTrigger) *)

\* Only conjunctions keep events: Conditions over several names stand for one.
SaveEvent(t, d) ==
    /\ pc = "run" /\ t \in Listening(podSpec) /\ d \in ExprDeps(podSpec, t)
    /\ Cardinality(ExprDeps(podSpec, t)) > 1
    /\ saved' = [saved EXCEPT ![t][d] = {Tag(podSpec, t, d)}]
    /\ UNCHANGED <<spec, podSpec, consumers, defs, list, exprs, pc, loops, edits,
                   errors, failed>>

ClearEvents(t) ==
    /\ pc = "run" /\ t \in Listening(podSpec)
    /\ saved' = [saved EXCEPT ![t] =
          [d \in DepNames |-> IF d \in ExprDeps(podSpec, t) THEN {} ELSE @[d]]]
    /\ UNCHANGED <<spec, podSpec, consumers, defs, list, exprs, pc, loops, edits,
                   errors, failed>>
-----------------------------------------------------------------------------
Next ==
    \/ EditSpec \/ PodDies \/ Initialize \/ Compare \/ DeleteConsumer
    \/ DeleteConsumerFails \/ Purged
    \/ storeDependencyDefinitions \/ storeTriggerList \/ InitializeFails \/ Run
    \/ \E t \in Triggers :
          \/ PurgeFails(t) \/ deleteTriggerExpression(t)
          \/ storeTriggerExpression(t) \/ ClearEvents(t)
          \/ \E d \in DepNames : purgeDependency(t, d) \/ SaveEvent(t, d)

Spec == Init /\ [][Next]_vars
-----------------------------------------------------------------------------
(* Properties *)

\* Step 2 of the comment on setStateToSpec: nothing is left of the events saved
\* for a trigger that no longer exists.
RemovedTriggersPurged ==
    pc = "run" => \A t \in Triggers \ TriggersIn(podSpec) :
                     \A d \in DepNames : saved[t][d] = {}

\* A trigger that runs sees no event that was saved under another definition
\* of its dependency or another expression, and nothing waits for a trigger to
\* come back, wherever earlier pods died on the way, unless a purge failed
\* (setStateToSpec ignores its errors).
NoStaleEvents ==
    pc = "run" /\ "purge" \notin failed =>
        /\ RemovedTriggersPurged
        /\ \A t \in TriggersIn(podSpec) : \A d \in DepNames :
              saved[t][d] \subseteq {Tag(podSpec, t, d)}

\* No durable consumer is left for a trigger that is gone, or for a dependency
\* its trigger no longer uses: nobody would acknowledge what it gets.
NoOrphanConsumers ==
    pc = "run" /\ failed = {} =>
        \A c \in consumers : c[1] \in TriggersIn(podSpec) /\ c[2] \in ExprDeps(podSpec, c[1])
=============================================================================
