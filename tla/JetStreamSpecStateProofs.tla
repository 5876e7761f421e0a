---------------------- MODULE JetStreamSpecStateProofs ----------------------
(***************************************************************************)
(* What setStateToSpec leaves in the bucket and on the server, for any     *)
(* triggers, dependencies and conditions, any number of edits of the       *)
(* specification, failed requests and pods that die between two requests.  *)
(***************************************************************************)
EXTENDS JetStreamSpecState, TLAPS

\* Every trigger has conditions.  The stored expression of one without names no
\* dependency, so that nothing is purged for it.
ExplicitConditions == NoConditions \notin Conditions

Tags == {[def |-> f, conds |-> c, over |-> VarsOf[c]] : f \in Defs, c \in Conditions}

\* What the steps index by.
StateOK ==
    /\ podSpec \in Specs /\ spec \in Specs
    /\ saved \in [Triggers -> [DepNames -> SUBSET Tags]]
    /\ consumers \subseteq Triggers \X DepNames
    /\ defs \in [DepNames -> Defs \cup {None}]
    /\ list \subseteq Triggers
    /\ exprs \in [Triggers -> Conditions \cup {None}]

\* How far saveSpec has got.
StoreInv ==
    /\ pc \in {"purge", "delete"} => removed \cap TriggersIn(podSpec) = {}
    /\ pc \in {"triggers", "exprs", "run"} => defs = podSpec.deps
    /\ pc \in {"exprs", "run"} =>
          /\ list = TriggersIn(podSpec)
          /\ \A t \in TriggersIn(podSpec) \ unsaved : exprs[t] = podSpec.conds[t]
    /\ pc = "run" => unsaved = {}

\* The purge is over.
Clean == pc \in {"delete", "triggers", "exprs", "run"}

\* An event is in the bucket only with the definition and the expression under which it was
\* saved, whichever request the pod died at: the next one will see whether they have changed.
SavedInv ==
    "purge" \notin failed =>
        \A t \in Triggers, d \in DepNames, e \in Tags : e \in saved[t][d] =>
            /\ t \in list /\ exprs[t] = e.conds /\ defs[d] = e.def
            /\ d \in VarsOf[e.conds]

\* Once the purge is past it, they are those of the pod's specification.
PurgedInv ==
    "purge" \notin failed =>
        \A t \in Triggers, d \in DepNames, e \in Tags : e \in saved[t][d] =>
            (Clean \/ (pc = "purge" /\ <<t, d>> \notin work) =>
                podSpec.conds[t] = e.conds /\ podSpec.deps[d] = e.def)

\* The same of the durable consumers.
ConsumerInv ==
    failed = {} =>
        \A t \in Triggers, d \in DepNames : <<t, d>> \in consumers =>
            /\ t \in list /\ exprs[t] # None /\ d \in VarsOf[exprs[t]]
            /\ Clean \/ (pc = "purge" /\ <<t, d>> \notin work \cup half) =>
                  podSpec.conds[t] = exprs[t]

Inv == StateOK /\ StoreInv /\ SavedInv /\ PurgedInv /\ ConsumerInv
-----------------------------------------------------------------------------
\* A trigger of a specification has conditions, whose names are its dependencies.
LEMMA ExplicitDeps ==
    ASSUME ExplicitConditions, NEW sp \in Specs, NEW t \in TriggersIn(sp)
    PROVE  /\ t \in Triggers /\ sp.conds[t] \in Conditions
           /\ ExprDeps(sp, t) = VarsOf[sp.conds[t]] /\ VarsOf[sp.conds[t]] \in SUBSET DepNames
  <1>1. t \in Triggers /\ sp.conds[t] \in Conditions
    BY DEF TriggersIn, Specs
  <1> QED
    BY <1>1, SpecStateAssumption DEF SpecStateAssumption, ExprDeps, ExplicitConditions

\* A new sensor has nothing in its bucket.
LEMMA InvInit == Init => Inv
  <1> SUFFICES ASSUME Init PROVE Inv
    OBVIOUS
  <1>1. StateOK
    BY DEF Init, StateOK, ValidSpecs
  <1>2. StoreInv /\ SavedInv /\ PurgedInv /\ ConsumerInv
    BY DEF Init, StoreInv, SavedInv, PurgedInv, ConsumerInv
  <1> QED
    BY <1>1, <1>2 DEF Inv

\* An edit of the specification, which the running pod does not see.
LEMMA EditStep ==
    ASSUME Inv, EditSpec
    PROVE  Inv'
  <1>1. StateOK'
    BY DEF EditSpec, Inv, StateOK, kvs, ValidSpecs
  <1>2. StoreInv'
    BY DEF EditSpec, Inv, StoreInv, kvs, loops
  <1>3. SavedInv' /\ PurgedInv'
    BY DEF EditSpec, Inv, SavedInv, PurgedInv, Clean, kvs, loops
  <1>4. ConsumerInv'
    BY DEF EditSpec, Inv, ConsumerInv, Clean, kvs, loops
  <1> QED
    BY <1>1, <1>2, <1>3, <1>4 DEF Inv

\* The pod dies, or starts from the beginning: what is stored stays as it is.
LEMMA RestartStep ==
    ASSUME Inv, PodDies \/ Initialize \/ InitializeFails
    PROVE  Inv'
  <1>1. /\ pc' \in {"down", "compare"} /\ podSpec' \in {podSpec, spec}
        /\ UNCHANGED <<spec, saved, defs, list, exprs, consumers, failed>>
    BY DEF PodDies, Initialize, InitializeFails, kvs
  <1>2. StateOK'
    BY <1>1 DEF Inv, StateOK
  <1>3. StoreInv'
    BY <1>1 DEF StoreInv
  <1>4. SavedInv' /\ PurgedInv'
    BY <1>1 DEF Inv, SavedInv, PurgedInv, Clean
  <1>5. ConsumerInv'
    BY <1>1 DEF Inv, ConsumerInv, Clean
  <1> QED
    BY <1>2, <1>3, <1>4, <1>5 DEF Inv

\* The definition and the expression stored with an event are the ones it was saved under.
LEMMA SavedUnder ==
    ASSUME Inv, "purge" \notin failed, NEW t \in Triggers, NEW d \in DepNames,
           NEW e \in Tags, e \in saved[t][d]
    PROVE  /\ t \in list /\ exprs[t] = e.conds /\ defs[d] = e.def
           /\ d \in VarsOf[e.conds]
  <1>1. SavedInv
    BY DEF Inv
  <1> QED
    BY <1>1 DEF SavedInv

\* Compare finds what is saved under a definition or an expression that has changed.
LEMMA CompareStep ==
    ASSUME ExplicitConditions, Inv, Compare
    PROVE  Inv'
  <1>0. /\ pc' = "purge" /\ removed' = removedTriggers /\ half' = half
        /\ UNCHANGED <<spec, podSpec, saved, defs, list, exprs, consumers, failed>>
    BY DEF Compare, kvs
  <1>1. StateOK'
    BY <1>0 DEF Inv, StateOK
  <1>2. StoreInv'
    BY <1>0 DEF StoreInv, removedTriggers, TriggersIn
  <1>3. ASSUME NEW t \in Triggers, NEW d \in DepNames,
               t \in list, exprs[t] \in Conditions, d \in VarsOf[exprs[t]], <<t, d>> \notin work'
        PROVE  /\ podSpec.conds[t] = exprs[t]
               /\ defs[d] # None => podSpec.deps[d] = defs[d]
    <2>1. getTriggerExpression(t) = exprs[t] /\ exprs[t] # NoConditions
      BY <1>3, SpecStateAssumption DEF SpecStateAssumption, getTriggerExpression, ExplicitConditions
    <2>2. <<t, d>> \in purgeAllDepsForTrigger(t)
      BY <1>3, <2>1 DEF purgeAllDepsForTrigger
    <2>3. t \notin changedTriggers \cup removedTriggers
      BY <1>3, <2>2 DEF Compare
    <2>4. t \in validTriggers
      BY <1>3, <2>3 DEF changedTriggers, removedTriggers
    <2>5. d \notin changedDeps
      BY <1>3, <2>4 DEF Compare
    <2> QED
      BY <2>1, <2>4, <2>5 DEF validTriggers, changedDeps
  <1>4. SavedInv'
    BY <1>0 DEF Inv, SavedInv
  <1>5. PurgedInv'
    <2> SUFFICES ASSUME "purge" \notin failed, NEW t \in Triggers, NEW d \in DepNames,
                        NEW e \in Tags, e \in saved[t][d], <<t, d>> \notin work'
                 PROVE  podSpec.conds[t] = e.conds /\ podSpec.deps[d] = e.def
      BY <1>0 DEF PurgedInv, Clean
    <2>1. /\ t \in list /\ exprs[t] = e.conds /\ defs[d] = e.def
          /\ d \in VarsOf[e.conds]
      BY SavedUnder
    <2>2. e.conds \in Conditions /\ e.def \in Defs
      BY DEF Tags
    <2>3. defs[d] # None
      BY <2>1, <2>2, SpecStateAssumption DEF SpecStateAssumption
    <2> QED
      BY <1>3, <2>1, <2>2, <2>3
  <1>6. ConsumerInv'
    <2> SUFFICES ASSUME failed = {}, NEW t \in Triggers, NEW d \in DepNames,
                        <<t, d>> \in consumers
                 PROVE  /\ t \in list /\ exprs[t] # None /\ d \in VarsOf[exprs[t]]
                        /\ <<t, d>> \notin work' \cup half' => podSpec.conds[t] = exprs[t]
      BY <1>0 DEF ConsumerInv, Clean
    <2>1. t \in list /\ exprs[t] # None /\ d \in VarsOf[exprs[t]]
      BY DEF Inv, ConsumerInv
    <2>2. exprs[t] \in Conditions
      BY <2>1 DEF Inv, StateOK
    <2> QED
      BY <1>3, <2>1, <2>2
  <1> QED
    BY <1>1, <1>2, <1>4, <1>5, <1>6 DEF Inv

\* The purge takes away, and what it has passed is as specified.
LEMMA PurgeStep ==
    ASSUME Inv, NEW t \in Triggers, NEW d \in DepNames, purgeDependency(t, d)
    PROVE  Inv'
  <1>0. /\ pc = "purge" /\ pc' = pc /\ half = {} /\ half' = {<<t, d>>} /\ work' = work \ {<<t, d>>}
        /\ UNCHANGED <<spec, podSpec, defs, list, exprs, consumers, failed, removed, unsaved>>
    BY DEF purgeDependency
  <1>1. /\ saved' \in [Triggers -> [DepNames -> SUBSET Tags]]
        /\ saved'[t][d] = {}
        /\ \A u \in Triggers, c \in DepNames : <<u, c>> # <<t, d>> => saved'[u][c] = saved[u][c]
    BY DEF Inv, StateOK, purgeDependency
  <1>2. StateOK'
    BY <1>0, <1>1 DEF Inv, StateOK
  <1>3. StoreInv'
    BY <1>0 DEF Inv, StoreInv
  <1>4. SavedInv'
    <2> SUFFICES ASSUME "purge" \notin failed, NEW u \in Triggers, NEW c \in DepNames,
                        NEW e \in Tags, e \in saved'[u][c]
                 PROVE  /\ u \in list /\ exprs[u] = e.conds /\ defs[c] = e.def
                        /\ c \in VarsOf[e.conds]
      BY <1>0 DEF SavedInv
    <2> QED
      BY <1>1, SavedUnder
  <1>5. PurgedInv'
    <2> SUFFICES ASSUME "purge" \notin failed, NEW u \in Triggers, NEW c \in DepNames,
                        NEW e \in Tags, e \in saved'[u][c], <<u, c>> \notin work'
                 PROVE  podSpec.conds[u] = e.conds /\ podSpec.deps[c] = e.def
      BY <1>0 DEF PurgedInv, Clean
    <2>1. <<u, c>> # <<t, d>> /\ e \in saved[u][c]
      BY <1>1
    <2> QED
      BY <1>0, <2>1 DEF Inv, PurgedInv
  <1>6. ConsumerInv'
    BY <1>0 DEF Inv, ConsumerInv, Clean
  <1> QED
    BY <1>2, <1>3, <1>4, <1>5, <1>6 DEF Inv

\* The consumer of what was purged is deleted; errors are remembered as such.
LEMMA ConsumerStep ==
    ASSUME Inv, DeleteConsumer \/ DeleteConsumerFails \/ \E t \in Triggers : PurgeFails(t)
    PROVE  Inv'
  <1>0. /\ pc = "purge" /\ pc' = pc
        /\ UNCHANGED <<spec, podSpec, saved, defs, list, exprs, removed, unsaved>>
    BY DEF DeleteConsumer, DeleteConsumerFails, PurgeFails, kvs
  <1>1. \/ /\ work' = work /\ half' = {} /\ consumers' = consumers \ half /\ failed' = failed
        \/ /\ work' = work /\ consumers' = consumers /\ failed' = failed \cup {"consumer"}
        \/ consumers' = consumers /\ failed' = failed \cup {"purge"}
    BY DEF DeleteConsumer, DeleteConsumerFails, PurgeFails, kvs
  <1>2. StateOK'
    BY <1>0, <1>1 DEF Inv, StateOK
  <1>3. StoreInv'
    BY <1>0 DEF Inv, StoreInv
  <1>4. SavedInv' /\ PurgedInv'
    BY <1>0, <1>1 DEF Inv, SavedInv, PurgedInv, Clean
  <1>5. ConsumerInv'
    BY <1>0, <1>1 DEF Inv, ConsumerInv, Clean
  <1> QED
    BY <1>2, <1>3, <1>4, <1>5 DEF Inv

\* The purge is over, and everything left is as specified.
LEMMA PurgedStep ==
    ASSUME Inv, Purged
    PROVE  Inv'
  <1>0. /\ pc = "purge" /\ pc' = "delete" /\ work = {} /\ half = {}
        /\ UNCHANGED <<spec, podSpec, saved, defs, list, exprs, consumers, removed, unsaved, failed>>
    BY DEF Purged, kvs, loops
  <1>1. StateOK' /\ StoreInv'
    BY <1>0 DEF Inv, StateOK, StoreInv
  <1>2. SavedInv' /\ PurgedInv'
    BY <1>0 DEF Inv, SavedInv, PurgedInv, Clean
  <1>3. ConsumerInv'
    BY <1>0 DEF Inv, ConsumerInv, Clean
  <1> QED
    BY <1>1, <1>2, <1>3 DEF Inv

\* saveSpec goes on to the pod's specification; events and consumers are those of it already.
LEMMA DeleteStep ==
    ASSUME Inv, NEW t \in Triggers, deleteTriggerExpression(t)
    PROVE  Inv'
  <1>0. /\ pc = "delete" /\ pc' = pc /\ t \in removed /\ removed' = removed \ {t}
        /\ UNCHANGED <<spec, podSpec, saved, defs, list, consumers, work, half, unsaved, failed>>
    BY DEF deleteTriggerExpression
  <1>1. t \notin TriggersIn(podSpec) /\ podSpec.conds[t] = None
    BY <1>0 DEF Inv, StoreInv, TriggersIn
  <1>2. /\ exprs' \in [Triggers -> Conditions \cup {None}]
        /\ \A u \in Triggers \ {t} : exprs'[u] = exprs[u]
    BY DEF Inv, StateOK, deleteTriggerExpression
  <1>3. StateOK'
    BY <1>0, <1>2 DEF Inv, StateOK
  <1>4. StoreInv'
    BY <1>0 DEF Inv, StoreInv
  <1>5. SavedInv' /\ PurgedInv'
    <2>1. ASSUME "purge" \notin failed, NEW u \in Triggers, NEW d \in DepNames, NEW e \in Tags,
                 e \in saved[u][d]
          PROVE  /\ u \in list /\ exprs[u] = e.conds /\ defs[d] = e.def
                 /\ d \in VarsOf[e.conds]
                 /\ podSpec.conds[u] = e.conds /\ podSpec.deps[d] = e.def
      BY <1>0, <2>1 DEF Inv, SavedInv, PurgedInv, Clean
    <2>2. \A e \in Tags : e.conds # None
      BY SpecStateAssumption DEF SpecStateAssumption, Tags
    <2> QED
      BY <1>0, <1>1, <1>2, <2>1, <2>2 DEF SavedInv, PurgedInv
  <1>6. ConsumerInv'
    <2>1. ASSUME failed = {}, NEW u \in Triggers, NEW d \in DepNames, <<u, d>> \in consumers
          PROVE  /\ u \in list /\ exprs[u] # None /\ d \in VarsOf[exprs[u]]
                 /\ podSpec.conds[u] = exprs[u]
      BY <1>0, <2>1 DEF Inv, ConsumerInv, Clean
    <2> QED
      BY <1>0, <1>1, <1>2, <2>1 DEF ConsumerInv
  <1> QED
    BY <1>3, <1>4, <1>5, <1>6 DEF Inv

\* The definitions and the list of triggers are stored.
LEMMA StoreStep ==
    ASSUME Inv, storeDependencyDefinitions \/ storeTriggerList
    PROVE  Inv'
  <1>0. /\ Clean /\ Clean' /\ UNCHANGED <<spec, podSpec, saved, exprs, consumers, work, half, failed>>
        /\ defs' = podSpec.deps /\ list' \in {list, TriggersIn(podSpec)}
    BY DEF storeDependencyDefinitions, storeTriggerList, Clean, loops, Inv, StoreInv
  <1>1. podSpec.deps \in [DepNames -> Defs \cup {None}] /\ TriggersIn(podSpec) \subseteq Triggers
    BY DEF Inv, StateOK, Specs, TriggersIn
  <1>2. StateOK'
    BY <1>0, <1>1 DEF Inv, StateOK
  <1>3. StoreInv'
    BY DEF Inv, StoreInv, storeDependencyDefinitions, storeTriggerList, loops
  <1>4. SavedInv' /\ PurgedInv'
    <2>1. ASSUME "purge" \notin failed, NEW t \in Triggers, NEW d \in DepNames, NEW e \in Tags,
                 e \in saved[t][d]
          PROVE  /\ t \in list /\ exprs[t] = e.conds /\ d \in VarsOf[e.conds]
                 /\ podSpec.conds[t] = e.conds /\ podSpec.deps[d] = e.def
      BY <1>0, <2>1 DEF Inv, SavedInv, PurgedInv
    <2>2. \A e \in Tags : e.conds # None
      BY SpecStateAssumption DEF SpecStateAssumption, Tags
    <2>3. ASSUME "purge" \notin failed, NEW t \in Triggers, NEW d \in DepNames, NEW e \in Tags,
                 e \in saved[t][d]
          PROVE  t \in list'
      BY <1>0, <2>1, <2>2, <2>3 DEF TriggersIn
    <2> QED
      BY <1>0, <2>1, <2>3 DEF SavedInv, PurgedInv
  <1>5. ConsumerInv'
    <2>1. ASSUME failed = {}, NEW t \in Triggers, NEW d \in DepNames, <<t, d>> \in consumers
          PROVE  /\ t \in list /\ exprs[t] # None /\ d \in VarsOf[exprs[t]]
                 /\ podSpec.conds[t] = exprs[t] /\ t \in list'
      <3> USE <2>1
      <3>1. /\ t \in list /\ exprs[t] # None /\ d \in VarsOf[exprs[t]]
            /\ podSpec.conds[t] = exprs[t]
        BY <1>0 DEF Inv, ConsumerInv
      <3> QED
        BY <1>0, <3>1 DEF TriggersIn
    <2> QED
      BY <1>0, <2>1 DEF ConsumerInv
  <1> QED
    BY <1>2, <1>3, <1>4, <1>5 DEF Inv

\* The expression of a trigger is stored.
LEMMA ExpressionStep ==
    ASSUME Inv, NEW t \in Triggers, storeTriggerExpression(t)
    PROVE  Inv'
  <1>0. /\ pc = "exprs" /\ pc' = pc /\ t \in unsaved /\ unsaved' = unsaved \ {t}
        /\ UNCHANGED <<spec, podSpec, saved, defs, list, consumers, work, half, removed, failed>>
    BY DEF storeTriggerExpression
  <1>1. /\ exprs' \in [Triggers -> Conditions \cup {None}] /\ exprs'[t] = podSpec.conds[t]
        /\ \A u \in Triggers \ {t} : exprs'[u] = exprs[u]
    BY DEF Inv, StateOK, Specs, storeTriggerExpression
  <1>2. StateOK'
    BY <1>0, <1>1 DEF Inv, StateOK
  <1>3. StoreInv'
    <2>1. TriggersIn(podSpec) \subseteq Triggers
      BY DEF TriggersIn
    <2> QED
      BY <1>0, <1>1, <2>1 DEF Inv, StoreInv
  <1>4. SavedInv' /\ PurgedInv'
    <2>1. ASSUME "purge" \notin failed, NEW u \in Triggers, NEW d \in DepNames, NEW e \in Tags,
                 e \in saved[u][d]
          PROVE  /\ u \in list /\ exprs[u] = e.conds /\ defs[d] = e.def
                 /\ d \in VarsOf[e.conds]
                 /\ podSpec.conds[u] = e.conds /\ podSpec.deps[d] = e.def
      BY <1>0, <2>1 DEF Inv, SavedInv, PurgedInv, Clean
    <2> QED
      BY <1>0, <1>1, <2>1 DEF SavedInv, PurgedInv
  <1>5. ConsumerInv'
    <2>1. ASSUME failed = {}, NEW u \in Triggers, NEW d \in DepNames, <<u, d>> \in consumers
          PROVE  /\ u \in list /\ exprs[u] # None /\ d \in VarsOf[exprs[u]]
                 /\ podSpec.conds[u] = exprs[u]
      BY <1>0, <2>1 DEF Inv, ConsumerInv, Clean
    <2> QED
      BY <1>0, <1>1, <2>1 DEF ConsumerInv
  <1> QED
    BY <1>2, <1>3, <1>4, <1>5 DEF Inv

\* The triggers subscribe to the dependencies of their conditions.
LEMMA RunStep ==
    ASSUME ExplicitConditions, Inv, Run
    PROVE  Inv'
  <1>0. /\ pc = "exprs" /\ pc' = "run" /\ unsaved = {} /\ list = TriggersIn(podSpec)
        /\ UNCHANGED <<spec, podSpec, saved, defs, list, exprs, work, half, removed, unsaved, failed>>
    BY DEF Run, kvs, loops, Inv, StoreInv
  <1>1. podSpec \in Specs /\ \A t \in TriggersIn(podSpec) : exprs[t] = podSpec.conds[t]
    BY <1>0 DEF Inv, StateOK, StoreInv
  <1>2. ASSUME NEW c \in consumers', c \notin consumers
        PROVE  \E t \in TriggersIn(podSpec) : \E d \in VarsOf[podSpec.conds[t]] : c = <<t, d>>
    <2>1. PICK t \in Listening(podSpec) : c \in {t} \X ExprDeps(podSpec, t)
      BY <1>2 DEF Run
    <2>2. t \in TriggersIn(podSpec)
      BY DEF Listening
    <2> QED
      BY <1>1, <2>1, <2>2, ExplicitDeps
  <1>3. StateOK'
    <2>1. \A t \in TriggersIn(podSpec) : t \in Triggers /\ VarsOf[podSpec.conds[t]] \in SUBSET DepNames
      BY <1>1, ExplicitDeps
    <2>2. consumers' \subseteq Triggers \X DepNames
      BY <1>2, <2>1 DEF Inv, StateOK
    <2> QED
      BY <1>0, <2>2 DEF Inv, StateOK
  <1>4. StoreInv'
    BY <1>0 DEF Inv, StoreInv
  <1>5. SavedInv' /\ PurgedInv'
    BY <1>0 DEF Inv, SavedInv, PurgedInv, Clean
  <1>6. ConsumerInv'
    <2> SUFFICES ASSUME failed = {}, NEW t \in Triggers, NEW d \in DepNames,
                        <<t, d>> \in consumers'
                 PROVE  /\ t \in list /\ exprs[t] # None /\ d \in VarsOf[exprs[t]]
                        /\ podSpec.conds[t] = exprs[t]
      BY <1>0 DEF ConsumerInv
    <2>1. CASE <<t, d>> \in consumers
      BY <1>0, <2>1 DEF Inv, ConsumerInv, Clean
    <2>2. CASE <<t, d>> \notin consumers
      <3>1. t \in TriggersIn(podSpec) /\ d \in VarsOf[podSpec.conds[t]]
        BY <1>2, <2>2
      <3> QED
        BY <1>0, <1>1, <3>1 DEF TriggersIn
    <2> QED
      BY <2>1, <2>2
  <1> QED
    BY <1>3, <1>4, <1>5, <1>6 DEF Inv

\* A trigger saves an event under the pod's specification, which is the stored one.
LEMMA SaveStep ==
    ASSUME ExplicitConditions, Inv, NEW t \in Triggers, NEW d \in DepNames, SaveEvent(t, d)
    PROVE  Inv'
  <1> DEFINE tag == Tag(podSpec, t, d)
  <1>0. /\ pc = "run" /\ t \in TriggersIn(podSpec) /\ d \in ExprDeps(podSpec, t)
        /\ ExprDeps(podSpec, t) \subseteq DepsIn(podSpec)
        /\ saved' = [saved EXCEPT ![t][d] = {tag}]
        /\ UNCHANGED <<spec, podSpec, defs, list, exprs, consumers, pc, work, half, removed,
                       unsaved, failed>>
    BY DEF SaveEvent, Listening, loops
  <1>1. podSpec \in Specs
    BY DEF Inv, StateOK
  <1>2. /\ podSpec.conds[t] \in Conditions /\ ExprDeps(podSpec, t) = VarsOf[podSpec.conds[t]]
        /\ VarsOf[podSpec.conds[t]] \in SUBSET DepNames
    BY <1>0, <1>1, ExplicitDeps
  <1>3. podSpec.deps[d] \in Defs
    BY <1>0, <1>1 DEF DepsIn, Specs
  <1>4. /\ tag \in Tags /\ tag.conds = podSpec.conds[t] /\ tag.def = podSpec.deps[d]
        /\ d \in VarsOf[podSpec.conds[t]]
    BY <1>0, <1>2, <1>3 DEF Tag, Tags
  <1>5. t \in list /\ exprs[t] = podSpec.conds[t] /\ defs[d] = podSpec.deps[d]
    BY <1>0 DEF Inv, StoreInv
  <1> HIDE DEF tag
  <1>6. /\ saved' \in [Triggers -> [DepNames -> SUBSET Tags]]
        /\ saved'[t][d] = {tag}
        /\ \A u \in Triggers, c \in DepNames : <<u, c>> # <<t, d>> => saved'[u][c] = saved[u][c]
    BY <1>0, <1>4 DEF Inv, StateOK
  <1>7. StateOK'
    BY <1>0, <1>6 DEF Inv, StateOK
  <1>8. StoreInv'
    BY <1>0 DEF Inv, StoreInv
  <1>9. SavedInv' /\ PurgedInv'
    <2> SUFFICES ASSUME "purge" \notin failed, NEW u \in Triggers, NEW c \in DepNames,
                        NEW e \in Tags, e \in saved'[u][c]
                 PROVE  /\ u \in list /\ exprs[u] = e.conds /\ defs[c] = e.def
                        /\ c \in VarsOf[e.conds]
                        /\ podSpec.conds[u] = e.conds /\ podSpec.deps[c] = e.def
      BY <1>0 DEF SavedInv, PurgedInv
    <2>1. CASE u = t /\ c = d
      BY <1>4, <1>5, <1>6, <2>1
    <2>2. CASE <<u, c>> # <<t, d>>
      <3>1. e \in saved[u][c] /\ SavedInv /\ PurgedInv
        BY <1>6, <2>2 DEF Inv
      <3> QED
        BY <1>0, <3>1 DEF SavedInv, PurgedInv, Clean
    <2> QED
      BY <2>1, <2>2
  <1>10. ConsumerInv'
    BY <1>0 DEF Inv, ConsumerInv, Clean
  <1> QED
    BY <1>7, <1>8, <1>9, <1>10 DEF Inv

\* Events that were used are cleared.
LEMMA ClearStep ==
    ASSUME Inv, NEW t \in Triggers, ClearEvents(t)
    PROVE  Inv'
  <1>0. UNCHANGED <<spec, podSpec, defs, list, exprs, consumers, pc, work, half, removed,
                    unsaved, failed>>
    BY DEF ClearEvents, loops
  <1>1. /\ saved' \in [Triggers -> [DepNames -> SUBSET Tags]]
        /\ \A u \in Triggers, c \in DepNames : saved'[u][c] \subseteq saved[u][c]
    BY DEF Inv, StateOK, ClearEvents
  <1>2. StateOK'
    BY <1>0, <1>1 DEF Inv, StateOK
  <1>3. StoreInv'
    BY <1>0 DEF Inv, StoreInv
  <1>4. SavedInv' /\ PurgedInv'
    BY <1>0, <1>1 DEF Inv, SavedInv, PurgedInv, Clean
  <1>5. ConsumerInv'
    BY <1>0 DEF Inv, ConsumerInv, Clean
  <1> QED
    BY <1>2, <1>3, <1>4, <1>5 DEF Inv

\* Every step keeps the invariant.
LEMMA InvNext ==
    ASSUME ExplicitConditions, Inv, [Next]_vars
    PROVE  Inv'
  <1>1. CASE UNCHANGED vars
    <2>1. StateOK' /\ StoreInv'
      BY <1>1 DEF Inv, StateOK, StoreInv, vars, kvs, loops
    <2>2. SavedInv' /\ PurgedInv'
      BY <1>1 DEF Inv, SavedInv, PurgedInv, Clean, vars, kvs, loops
    <2>3. ConsumerInv'
      BY <1>1 DEF Inv, ConsumerInv, Clean, vars, kvs, loops
    <2> QED
      BY <2>1, <2>2, <2>3 DEF Inv
  <1>2. CASE Next
    BY <1>2, EditStep, RestartStep, CompareStep, PurgeStep, ConsumerStep, PurgedStep, DeleteStep,
       StoreStep, ExpressionStep, RunStep, SaveStep, ClearStep DEF Next
  <1> QED
    BY <1>1, <1>2

\* When setStateToSpec is done, no event is left that was saved under another definition of its
\* dependency or other conditions of its trigger, or for a trigger that is gone, wherever
\* earlier pods died or failed to save the specification, unless a purge failed.
THEOREM NothingStale ==
    ASSUME ExplicitConditions
    PROVE  Spec => []NoStaleEvents
  <1>1. Inv => NoStaleEvents
    <2> SUFFICES ASSUME Inv, pc = "run", "purge" \notin failed
                 PROVE  /\ RemovedTriggersPurged
                        /\ \A t \in TriggersIn(podSpec), d \in DepNames :
                              saved[t][d] \subseteq {Tag(podSpec, t, d)}
      BY DEF NoStaleEvents
    <2>1. ASSUME NEW t \in Triggers, NEW d \in DepNames, NEW e \in saved[t][d]
          PROVE  t \in TriggersIn(podSpec) /\ e = Tag(podSpec, t, d)
      <3>0. e \in Tags /\ podSpec \in Specs /\ SavedInv /\ PurgedInv
        BY DEF Inv, StateOK
      <3>1. e.conds = podSpec.conds[t] /\ e.def = podSpec.deps[d]
        BY <3>0 DEF SavedInv, PurgedInv, Clean
      <3>2. t \in TriggersIn(podSpec)
        BY <3>0, <3>1, SpecStateAssumption DEF SpecStateAssumption, TriggersIn, Tags
      <3>3. ExprDeps(podSpec, t) = VarsOf[e.conds]
        BY <3>0, <3>1, <3>2, ExplicitDeps
      <3>4. e = [def |-> e.def, conds |-> e.conds, over |-> VarsOf[e.conds]]
        BY <3>0 DEF Tags
      <3> QED
        BY <3>1, <3>2, <3>3, <3>4 DEF Tag
    <2>2. TriggersIn(podSpec) \subseteq Triggers
      BY DEF TriggersIn
    <2> QED
      BY <2>1, <2>2 DEF RemovedTriggersPurged
  <1> QED
    BY <1>1, InvInit, InvNext, PTL DEF Spec

\* When setStateToSpec is done, every durable consumer belongs to a trigger of the specification
\* and to a dependency of its conditions, unless a purge or the deletion of a consumer failed.
THEOREM NothingOrphaned ==
    ASSUME ExplicitConditions
    PROVE  Spec => []NoOrphanConsumers
  <1>1. Inv => NoOrphanConsumers
    <2> SUFFICES ASSUME Inv, pc = "run", failed = {}, NEW c \in consumers
                 PROVE  c[1] \in TriggersIn(podSpec) /\ c[2] \in ExprDeps(podSpec, c[1])
      BY DEF NoOrphanConsumers
    <2>1. PICK t \in Triggers, d \in DepNames : c = <<t, d>>
      BY DEF Inv, StateOK
    <2>2. podSpec \in Specs /\ ConsumerInv
      BY DEF Inv, StateOK
    <2>3. exprs[t] # None /\ d \in VarsOf[exprs[t]] /\ podSpec.conds[t] = exprs[t]
      BY <2>1, <2>2 DEF ConsumerInv, Clean
    <2>4. t \in TriggersIn(podSpec)
      BY <2>3 DEF TriggersIn
    <2> QED
      BY <2>1, <2>2, <2>3, <2>4, ExplicitDeps
  <1> QED
    BY <1>1, InvInit, InvNext, PTL DEF Spec
=============================================================================
