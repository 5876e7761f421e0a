------------------------- MODULE KafkaSensorProofs -------------------------
(***************************************************************************)
(* The Kafka sensor: offsets stay in order, and the actions run at most or *)
(* at least once for each message of the action topic as the trigger asks, *)
(* for any number of pods, partitions, triggers, events, crashes,          *)
(* rebalances and failed commits.  When the messages of a trigger go to    *)
(* one partition, no event is used twice by a trigger, and none is         *)
(* forgotten before it is used or superseded.                              *)
(***************************************************************************)
EXTENDS KafkaSensor, FiniteSetTheorems, WellFoundedInduction, TLAPS

\* What partition q may contain: on the trigger topic one event of a dependency of the trigger
\* whose key it has.
Content(q) ==
    {m \in Messages : q \in TriggerParts =>
        m.dep \in DepsOf[m.key] /\ q \in Partitions[m.key] /\ m.evs # {}}

ContentInv ==
    \A q \in Outputs : /\ log[q] \in Seq(Content(q))
                       /\ \A p \in Parts : batch[p].out[q] \in Seq(Content(q))

\* What the pod that has claimed p holds of it.
KeptOf(p, held) == {e \in UNION {held[t] : t \in Triggers} : e.part = p}
HeldOf(p) == KeptOf(p, events[owner[p]])

\* The offset of a batch, and what is held of the partition, are not behind what was marked.
Behind(p) ==
    /\ stage[p] # "batch" => batch[p] = EmptyBatch
    /\ batch[p].offset <= pos[p]
    /\ batch[p].out # NoMessages => mark[p] <= batch[p].offset
    /\ first[p] => /\ committed[p] = NoOffset /\ mark[p] = NoOffset /\ dirty[p] = {}
                   /\ stage[p] # "batch" /\ HeldOf(p) = {}
    /\ \A e \in HeldOf(p) : mark[p] <= e.offset /\ batch[p].offset <= e.offset

OffsetInv == \A p \in Parts : Behind(p)

\* The offsets of a partition, in TypeOK.
Ordered(p) ==
    /\ pos[p] <= Len(log[p])
    /\ NoOffset <= mark[p] /\ mark[p] <= pos[p]
    /\ NoOffset <= committed[p] /\ committed[p] <= pos[p]
    /\ mark[p] > committed[p] => dirty[p] # {}

\* The call was made for the message at its offset.
Genuine(c) == c.offset < Len(log[Action]) /\ c.trigger = log[Action][c.offset + 1].key

\* What the handler of the action topic leaves for after the commit.  The committed offset does
\* not go back: a mark that is not confirmed is ahead of it.
CollectInv ==
    /\ batch[Action].out = NoMessages
    /\ stage[Action] = "batch" => batch[Action].offset = pos[Action] /\ mark[Action] < pos[Action]
    /\ dirty[Action] # {} => committed[Action] <= mark[Action]
    /\ \A p \in Parts \ {Action} : batch[p].fns = {}
    /\ \A c \in batch[Action].fns : /\ committed[Action] <= c.offset /\ mark[Action] <= c.offset
                                    /\ c.offset < pos[Action]
                                    /\ ~AtLeastOnce[c.trigger] /\ Genuine(c)
    /\ \A c, d \in batch[Action].fns : c.offset = d.offset => c = d

\* The call may be made: the offset is committed, or its commit failed.
Released(c) == c.offset < committed[Action] \/ c.offset \in unsure

\* What was released and has yet to run, in all pods.
RunningInv ==
    /\ \A w \in Pods : \A c \in running[w] :
          Released(c) /\ ~AtLeastOnce[c.trigger] /\ Genuine(c)
    /\ \A w, v \in Pods : \A c \in running[w], d \in running[v] :
          c.offset = d.offset => (w = v /\ c = d) \/ c.offset \in unsure

\* What ran was released before, unless its trigger asks for AtLeastOnce, and does not wait to
\* be run again, unless its commit failed.
RanInv ==
    /\ \A i \in 1 .. Len(actions) : Genuine(actions[i])
    /\ \A i \in 1 .. Len(actions) : ~AtLeastOnce[actions[i].trigger] =>
          /\ Released(actions[i])
          /\ \A w \in Pods : \A c \in running[w] :
                c.offset = actions[i].offset => c.offset \in unsure
    /\ ActionAtMostOnce

\* Everything the handler has passed has run, if its trigger asks for AtLeastOnce.
PassedInv ==
    /\ oldest => ~first[Action]
    /\ oldest => \A i \in 1 .. pos[Action] :
          AtLeastOnce[log[Action][i].key] => \E k \in 1 .. Len(actions) : actions[k].offset = i - 1

-----------------------------------------------------------------------------
(* Operators                                                               *)

\* The partitions are distinct, and nothing is sent to the event topic.
LEMMA PartsAre ==
    /\ Event # Action /\ Event \notin TriggerParts /\ Action \notin TriggerParts
    /\ Event \notin Outputs /\ Action \in Outputs /\ TriggerParts \subseteq Outputs
    /\ Event \in Parts /\ Action \in Parts /\ TriggerParts \subseteq Parts /\ Outputs \subseteq Parts
    /\ Parts = {Event, Action} \cup TriggerParts
  BY KafkaAssumption DEF Event, Action, Parts, Outputs

\* A set of naturals has a least element.
LEMMA LeastElement ==
    ASSUME NEW T \in SUBSET Nat, T # {}
    PROVE  \E x \in T : \A y \in T : x <= y
  <1> DEFINE R == OpToRel(<, Nat)
  <1>1. IsWellFoundedOn(R, Nat)
    BY NatLessThanWellFounded
  <1>2. R = {ss \in Nat \X Nat : ss[1] < ss[2]}
    BY Zenon DEF OpToRel
  <1> HIDE DEF R
  <1>3. PICK x \in T : \A y \in T : ~(<<y, x>> \in R)
    BY <1>1, WFMin
  <1>4. ASSUME NEW y \in T
        PROVE  x <= y
    <2>1. <<y, x>> \notin R /\ <<y, x>> \in Nat \X Nat
      BY <1>3
    <2>2. ~(y < x)
      BY <1>2, <2>1
    <2> QED
      BY <2>2
  <1> QED
    BY <1>4

\* KafkaTriggerConnection.Offset: no later than the next offset and than anything held of the
\* partition, and one of them.
LEMMA LowestOffset ==
    ASSUME NEW p, NEW next \in Nat, NEW held \in [Triggers -> SUBSET Held]
    PROVE  /\ Lowest(p, next, held) \in Nat
           /\ Lowest(p, next, held) <= next
           /\ \A e \in KeptOf(p, held) : Lowest(p, next, held) <= e.offset
           /\ Lowest(p, next, held) = next
              \/ \E e \in KeptOf(p, held) : Lowest(p, next, held) = e.offset
  <1> DEFINE kept == {x \in UNION {held[t] : t \in Triggers} : x.part = p}
             low == {next} \cup {e.offset : e \in kept}
  <1>1. \A e \in kept : e.offset \in Nat
    BY DEF Held
  <1>2. low \in SUBSET Nat /\ low # {}
    BY <1>1
  <1>3. \E o \in low : \A x \in low : o <= x
    <2> HIDE DEF low
    <2> QED
      BY <1>2, LeastElement
  <1>4. Lowest(p, next, held) = CHOOSE o \in low : \A x \in low : o <= x
    BY DEF Lowest
  <1>5. Lowest(p, next, held) \in low /\ \A x \in low : Lowest(p, next, held) <= x
    <2> HIDE DEF low
    <2> QED
      BY <1>3, <1>4
  <1> QED
    BY <1>2, <1>5 DEF KeptOf

\* The messages of a partition are messages.
LEMMA ContentTypes ==
    ASSUME NEW q \in Outputs
    PROVE  Content(q) \subseteq Messages /\ \A s \in Seq(Content(q)) : s \in Seq(Messages)
  <1>1. Content(q) \subseteq Messages
    BY DEF Content
  <1> QED
    BY <1>1

\* Sets that are sent in some order make sequences.
LEMMA OrdersAreSequences ==
    ASSUME NEW S, IsFiniteSet(S), NEW s \in Orders(S)
    PROVE  s \in Seq(S)
  BY FS_CardinalityType DEF Orders

\* KafkaSensor.Event: what an event is turned into.
LEMMA OutputTypes ==
    ASSUME NEW o \in Nat, NEW e, NEW out \in EventOutputs(o, e)
    PROVE  /\ out \in [Outputs -> Seq(Messages)]
           /\ \A q \in Outputs : out[q] \in Seq(Content(q))
  <1> DEFINE sent(to, q) == {Message(o, w) : w \in {x \in Wanted(e) : to[x] = q}}
  <1>1. PICK to \in Destinations(e) :
           out \in {f \in [Outputs -> UNION {Orders(sent(to, q)) : q \in Outputs}] :
                       \A q \in Outputs : f[q] \in Orders(sent(to, q))}
    BY DEF EventOutputs
  <1>2. \A q \in Outputs : out[q] \in Seq(Content(q))
    <2> SUFFICES ASSUME NEW q \in Outputs PROVE out[q] \in Seq(Content(q))
      OBVIOUS
    <2> DEFINE W == {x \in Wanted(e) : to[x] = q}
    <2>1. out[q] \in Orders(sent(to, q))
      BY <1>1
    <2>2. IsFiniteSet(W)
      <3>1. IsFiniteSet(Triggers \X Deps)
        BY KafkaAssumption, FS_Product
      <3>2. W \in SUBSET (Triggers \X Deps)
        BY DEF Wanted
      <3> HIDE DEF W
      <3> QED
        BY <3>1, <3>2, FS_Subset
    <2>3. IsFiniteSet(sent(to, q))
      <3> DEFINE f == [w \in W |-> Message(o, w)]
      <3>1. f \in Surjection(W, sent(to, q))
        BY DEF Surjection
      <3> HIDE DEF f, W, sent
      <3> QED
        BY <2>2, <3>1, FS_Surjection
    <2>4. sent(to, q) \subseteq Content(q)
      <3> SUFFICES ASSUME NEW w \in Wanted(e), to[w] = q PROVE Message(o, w) \in Content(q)
        OBVIOUS
      <3>1. /\ w \in Triggers \X Deps /\ w[2] \in DepsOf[w[1]]
            /\ IF OneAndDone(w[1]) THEN q = Action ELSE q \in Partitions[w[1]]
        BY <1>1 DEF Wanted, Destinations
      <3>2. Message(o, w) \in Messages
        BY <3>1 DEF Message, Messages, Uses
      <3> QED
        BY <3>1, <3>2, PartsAre DEF Content, Message
    <2>5. out[q] \in Seq(sent(to, q))
      <3> HIDE DEF sent
      <3> QED
        BY <2>1, <2>3, OrdersAreSequences
    <2> QED
      BY <2>4, <2>5
  <1>3. out \in [Outputs -> Seq(Messages)]
    <2>1. \A q \in Outputs : out[q] \in Seq(Messages)
      BY <1>2, ContentTypes
    <2>2. out = [q \in Outputs |-> out[q]]
      BY <1>1
    <2> QED
      BY <2>1, <2>2
  <1> QED
    BY <1>2, <1>3

-----------------------------------------------------------------------------
(* Types                                                                   *)

\* Nothing collected, nothing held.
LEMMA EmptyTypes ==
    /\ NoMessages \in [Outputs -> Seq(Messages)]
    /\ \A q \in Outputs : NoMessages[q] \in Seq(Content(q))
    /\ EmptyBatch \in Batches
    /\ EmptyBatch.out = NoMessages /\ EmptyBatch.offset = 0 /\ EmptyBatch.fns = {}
    /\ NoCheckpoint \in [Triggers -> Nat] /\ NoEvents \in [Triggers -> SUBSET Held]
  BY DEF NoMessages, EmptyBatch, Batches, NoCheckpoint, NoEvents

\* Messages are added at the end.
LEMMA Appended ==
    ASSUME NEW S, NEW s \in Seq(S), NEW t \in Seq(S)
    PROVE  /\ s \o t \in Seq(S) /\ Len(s) \in Nat /\ Len(s) <= Len(s \o t)
           /\ \A i \in 1 .. Len(s) : (s \o t)[i] = s[i]
  OBVIOUS

\* The message that the handler gets.
LEMMA MsgTypes ==
    ASSUME TypeOK, ContentInv, NEW p \in Parts, Available(p)
    PROVE  /\ pos[p] \in Nat /\ pos[p] + 1 <= Len(log[p])
           /\ p \in Outputs => Msg(p) \in Content(p) /\ Msg(p) \in Messages
  <1>1. pos[p] \in Nat /\ pos[p] < Len(log[p]) /\ Len(log[p]) \in Nat
    BY DEF TypeOK, Available, Waiting
  <1>2. ASSUME p \in Outputs PROVE Msg(p) \in Content(p) /\ Msg(p) \in Messages
    <2>1. log[p] \in Seq(Content(p))
      BY <1>2 DEF ContentInv
    <2>2. pos[p] + 1 \in 1 .. Len(log[p])
      BY <1>1
    <2>3. Msg(p) \in Content(p)
      BY <2>1, <2>2 DEF Msg
    <2> QED
      BY <1>2, <2>3, ContentTypes
  <1> QED
    BY <1>1, <1>2

\* What Collect leaves.
LEMMA CollectFields ==
    ASSUME TypeOK, NEW p \in Parts,
           NEW out \in [Outputs -> Seq(Messages)], NEW offset \in Nat, NEW fns \in SUBSET Calls,
           Collect(p, out, offset, fns)
    PROVE  /\ stage' \in [Parts -> {"off", "idle", "first", "batch"}] /\ stage'[p] = "batch"
           /\ pos' \in [Parts -> Nat] /\ pos'[p] = pos[p] + 1
           /\ batch' \in [Parts -> Batches]
           /\ batch'[p].out = out /\ batch'[p].offset = offset
           /\ batch'[p].fns = batch[p].fns \cup fns
           /\ \A q \in Parts \ {p} :
                 stage'[q] = stage[q] /\ pos'[q] = pos[q] /\ batch'[q] = batch[q]
  <1> USE DEF TypeOK
  <1>1. /\ stage' \in [Parts -> {"off", "idle", "first", "batch"}] /\ stage'[p] = "batch"
        /\ pos' \in [Parts -> Nat] /\ pos'[p] = pos[p] + 1
        /\ \A q \in Parts \ {p} : stage'[q] = stage[q] /\ pos'[q] = pos[q]
    BY DEF Collect
  <1>2. /\ batch' \in [Parts -> Batches]
        /\ batch'[p].out = out /\ batch'[p].offset = offset
        /\ batch'[p].fns = batch[p].fns \cup fns
        /\ \A q \in Parts \ {p} : batch'[q] = batch[q]
    <2> DEFINE b == [out |-> out, offset |-> offset, fns |-> batch[p].fns \cup fns]
    <2>1. b \in Batches /\ b.out = out /\ b.offset = offset /\ b.fns = batch[p].fns \cup fns
      BY DEF Batches
    <2>2. batch' = [batch EXCEPT ![p] = b]
      BY DEF Collect
    <2> HIDE DEF b
    <2> QED
      BY <2>1, <2>2
  <1> QED
    BY <1>1, <1>2

\* And what it leaves alone.
LEMMA CollectKeeps ==
    ASSUME NEW p, NEW out, NEW offset, NEW fns, Collect(p, out, offset, fns)
    PROVE  UNCHANGED <<log, committed, metadata, owner, mark, dirty, first, faults, bounds>>
  BY DEF Collect, bus, marks

\* What a call of session.Commit may do to partition q, of which the metadata unsent is dirty.
Flushed(q, unsent) ==
    \/ committed'[q] = committed[q] /\ metadata'[q] = metadata[q] /\ dirty'[q] = unsent
    \/ committed'[q] = mark'[q] /\ metadata'[q] \in unsent /\ dirty'[q] \in {unsent, {}}

\* MarkOffset and Commit: the mark moves forward only, and any partition of the pod may be committed.
LEMMA SessionFields ==
    ASSUME TypeOK, NEW p \in Parts, NEW offset \in Nat, NEW meta \in [Triggers -> Nat],
           SessionCommit(p, offset, meta)
    PROVE  /\ mark' \in [Parts -> Int] /\ committed' \in [Parts -> Int]
           /\ metadata' \in [Parts -> [Triggers -> Nat]]
           /\ dirty' \in [Parts -> SUBSET [Triggers -> Nat]]
           /\ commitErrors' \in Nat
           /\ mark[p] \in Int
           /\ offset > mark[p] => mark'[p] = offset /\ Flushed(p, {meta})
           /\ ~(offset > mark[p]) => mark'[p] = mark[p] /\ Flushed(p, dirty[p])
           /\ \A q \in Parts \ {p} : mark'[q] = mark[q] /\ Flushed(q, dirty[q])
  <1> DEFINE moves == offset > mark[p]
             marked == [mark EXCEPT ![p] = IF moves THEN offset ELSE @]
             unsent == [dirty EXCEPT ![p] = IF moves THEN {meta} ELSE @]
             sent == {q \in Parts : owner[q] = owner[p] /\ unsent[q] # {}}
             stored(q) == CHOOSE m \in unsent[q] : TRUE
  <1>0. PICK applied \in SUBSET sent : \E answered \in SUBSET applied :
           /\ committed' = [q \in Parts |-> IF q \in applied THEN marked[q] ELSE committed[q]]
           /\ metadata' = [q \in Parts |-> IF q \in applied THEN stored(q) ELSE metadata[q]]
           /\ dirty' = [q \in Parts |-> IF q \in answered THEN {} ELSE unsent[q]]
           /\ IF answered = sent THEN UNCHANGED commitErrors
              ELSE MoreInput /\ commitErrors' = commitErrors + 1
    BY DEF SessionCommit
  <1>1. PICK answered \in SUBSET applied :
           /\ committed' = [q \in Parts |-> IF q \in applied THEN marked[q] ELSE committed[q]]
           /\ metadata' = [q \in Parts |-> IF q \in applied THEN stored(q) ELSE metadata[q]]
           /\ dirty' = [q \in Parts |-> IF q \in answered THEN {} ELSE unsent[q]]
           /\ IF answered = sent THEN UNCHANGED commitErrors
              ELSE MoreInput /\ commitErrors' = commitErrors + 1
    BY <1>0
  <1>2. mark' = marked
    BY DEF SessionCommit
  <1>3. /\ mark \in [Parts -> Int] /\ dirty \in [Parts -> SUBSET [Triggers -> Nat]]
        /\ committed \in [Parts -> Int] /\ metadata \in [Parts -> [Triggers -> Nat]]
    BY DEF TypeOK
  <1>4. /\ marked \in [Parts -> Int] /\ marked[p] = IF moves THEN offset ELSE mark[p]
        /\ \A q \in Parts \ {p} : marked[q] = mark[q]
    BY <1>3
  <1>5. /\ unsent \in [Parts -> SUBSET [Triggers -> Nat]]
        /\ unsent[p] = IF moves THEN {meta} ELSE dirty[p]
        /\ \A q \in Parts \ {p} : unsent[q] = dirty[q]
    <2> HIDE DEF moves
    <2> QED
      BY <1>3
  <1>6. \A q \in sent : stored(q) \in unsent[q] /\ q \in Parts
    OBVIOUS
  <1> HIDE DEF moves, marked, unsent, stored
  <1>7. \A q \in sent : stored(q) \in [Triggers -> Nat]
    BY <1>5, <1>6
  <1>8. applied \in SUBSET Parts /\ answered \in SUBSET applied
    OBVIOUS
  <1>9. /\ committed' \in [Parts -> Int] /\ metadata' \in [Parts -> [Triggers -> Nat]]
        /\ dirty' \in [Parts -> SUBSET [Triggers -> Nat]]
    BY <1>1, <1>3, <1>4, <1>5, <1>7
  <1>10. commitErrors' \in Nat
    BY <1>1 DEF TypeOK
  <1>11. ASSUME NEW q \in Parts PROVE Flushed(q, unsent[q])
    <2>1. CASE q \in applied
      <3>1. committed'[q] = marked[q] /\ metadata'[q] = stored(q) /\ dirty'[q] \in {unsent[q], {}}
        BY <1>1, <2>1
      <3>2. stored(q) \in unsent[q]
        BY <1>1, <1>6, <2>1
      <3> QED
        BY <1>2, <3>1, <3>2 DEF Flushed
    <2>2. CASE q \notin applied
      <3>1. committed'[q] = committed[q] /\ metadata'[q] = metadata[q] /\ dirty'[q] = unsent[q]
        BY <1>1, <2>2
      <3> QED
        BY <3>1 DEF Flushed
    <2> QED
      BY <2>1, <2>2
  <1>12. /\ moves => mark'[p] = offset /\ Flushed(p, {meta})
         /\ ~moves => mark'[p] = mark[p] /\ Flushed(p, dirty[p])
         /\ \A q \in Parts \ {p} : mark'[q] = mark[q] /\ Flushed(q, dirty[q])
    BY <1>2, <1>4, <1>5, <1>11
  <1> QED
    BY <1>2, <1>3, <1>4, <1>9, <1>10, <1>12 DEF moves

\* A step that puts nothing back moves offsets and checkpoints forward.
LEMMA RolledForward ==
    ASSUME TypeOK, NEW p, NEW offset, NEW meta, SessionCommit(p, offset, meta)
    PROVE  /\ rolledBack' \in BOOLEAN
           /\ ~rolledBack' =>
                /\ ~rolledBack
                /\ \A q \in Parts : /\ ~(committed'[q] < committed[q])
                                     /\ \A t \in Triggers : ~(metadata'[q][t] < metadata[q][t])
  <1>1. rolledBack' = (rolledBack \/ \E q \in Parts :
                            \/ committed'[q] < committed[q]
                            \/ \E t \in Triggers : metadata'[q][t] < metadata[q][t])
    BY DEF SessionCommit
  <1> QED
    BY <1>1 DEF TypeOK

\* What EndBatch leaves.
LEMMA EndBatchFields ==
    ASSUME TypeOK, NEW p \in Parts, EndBatch(p)
    PROVE  /\ stage' \in [Parts -> {"off", "idle", "first", "batch"}] /\ stage'[p] = "idle"
           /\ batch' \in [Parts -> Batches] /\ batch'[p] = EmptyBatch
           /\ \A q \in Parts \ {p} : stage'[q] = stage[q] /\ batch'[q] = batch[q]
           /\ running' \in [Pods -> SUBSET Calls] /\ owner[p] \in Pods
           /\ running'[owner[p]] = running[owner[p]] \cup batch[p].fns
           /\ \A w \in Pods \ {owner[p]} : running'[w] = running[w]
           /\ UNCHANGED <<owner, pos, first, checkpoint, events, actions, oldest, crashes,
                          rebalances>>
  <1>1. batch[p].fns \in SUBSET Calls /\ owner[p] \in Pods
    BY DEF TypeOK, Batches
  <1> QED
    BY <1>1, EmptyTypes DEF EndBatch, TypeOK

\* KafkaTriggerConnection.Update: what trigger t then holds.
LEMMA UpdateTypes ==
    ASSUME TypeOK, ContentInv, NEW p \in TriggerParts, Available(p), NEW w \in Pods
    PROVE  LET m == Msg(p)
               held == Update(events[w][m.key], p, m)
           IN  /\ m \in Messages /\ m.key \in Triggers
               /\ held \in SUBSET Held
               /\ \A e \in held : \/ e \in events[w][m.key]
                                  \/ e.part = p /\ e.offset = pos[p]
               /\ \A e, f \in held : /\ e.dep \in DepsOf[m.key] /\ e.part \in Partitions[m.key]
                                     /\ e.dep = f.dep => e = f
  <1> DEFINE m == Msg(p)
             old == events[w][m.key]
             new == [dep |-> m.dep, part |-> p, offset |-> pos[p],
                     id |-> (CHOOSE v \in m.evs : TRUE).id]
             held == Update(old, p, m)
  <1>0. p \in Parts /\ p \in Outputs
    BY PartsAre
  <1>1. m \in Content(p) /\ m \in Messages /\ pos[p] \in Nat
    BY <1>0, MsgTypes
  <1>2. /\ m.key \in Triggers /\ m.dep \in Deps /\ m.dep \in DepsOf[m.key]
        /\ p \in Partitions[m.key] /\ m.evs # {} /\ m.evs \subseteq Uses
    BY <1>1 DEF Content, Messages
  <1>3. /\ old \in SUBSET Held
        /\ \A e, f \in old : /\ e.dep \in DepsOf[m.key] /\ e.part \in Partitions[m.key]
                             /\ e.dep = f.dep => e = f
    BY <1>2 DEF TypeOK
  <1> HIDE DEF m
  <1>4. (CHOOSE v \in m.evs : TRUE) \in Uses
    BY <1>2
  <1>5. new \in Held /\ new.dep = m.dep /\ new.part = p /\ new.offset = pos[p]
    BY <1>1, <1>2, <1>4 DEF Held, Uses
  <1>6. held = {e \in old : e.dep # m.dep} \cup {new}
    BY DEF Update
  <1> HIDE DEF new, old, held
  <1>7. /\ held \in SUBSET Held
        /\ \A e \in held : e \in old \/ (e.part = p /\ e.offset = pos[p])
        /\ \A e, f \in held : /\ e.dep \in DepsOf[m.key] /\ e.part \in Partitions[m.key]
                              /\ e.dep = f.dep => e = f
    BY <1>2, <1>3, <1>5, <1>6
  <1> QED
    BY <1>1, <1>2, <1>7 DEF m, old, held

\* KafkaSensor.Trigger: what it leaves held, and what it collects.
LEMMA TriggerFields ==
    ASSUME TypeOK, ContentInv, NEW p \in TriggerParts, HandleTrigger(p)
    PROVE  LET w == owner[p]
           IN  /\ Available(p) /\ w \in Pods /\ pos[p] \in Nat
               /\ UNCHANGED <<log, owner, running, actions>>
               /\ checkpoint' \in [Parts -> [Triggers -> Nat]]
               /\ events' \in [Pods -> [Triggers -> SUBSET Held]]
               /\ \A v \in Pods \ {w} : events'[v] = events[v]
               /\ \A t \in Triggers : \A e \in events'[w][t] :
                     e \in events[w][t] \/ (e.part = p /\ e.offset = pos[p])
               /\ \A t \in Triggers : \A e, f \in events'[w][t] :
                     /\ e.dep \in DepsOf[t] /\ e.part \in Partitions[t]
                     /\ e.dep = f.dep => e = f
               /\ \E out \in [Outputs -> Seq(Messages)] :
                     /\ \A q \in Outputs \ {Action} : out[q] = batch[p].out[q]
                     /\ Collect(p, out, Lowest(p, pos[p] + 1, events'[w]), {})
  <1> DEFINE w == owner[p]
             m == Msg(p)
             t == m.key
             held == Update(events[w][t], p, m)
             fire == Satisfied(t, held)
             kept == IF fire THEN {} ELSE held
             after == [events[w] EXCEPT ![t] = kept]
             msg == [key |-> t, dep |-> m.dep, evs |-> {[dep |-> e.dep, id |-> e.id] : e \in held}]
             out == IF fire THEN [batch[p].out EXCEPT ![Action] = Append(@, msg)]
                    ELSE batch[p].out
  <1>1. Available(p) /\ w \in Pods /\ p \in Parts /\ p \in Outputs
    BY PartsAre DEF HandleTrigger, TypeOK
  <1>2. /\ m \in Messages /\ t \in Triggers /\ held \in SUBSET Held
        /\ \A e \in held : e \in events[w][t] \/ (e.part = p /\ e.offset = pos[p])
        /\ \A e, f \in held : /\ e.dep \in DepsOf[t] /\ e.part \in Partitions[t]
                              /\ e.dep = f.dep => e = f
    BY <1>1, UpdateTypes
  <1>3. pos[p] \in Nat
    BY <1>1 DEF TypeOK
  <1>4. /\ events' = [events EXCEPT ![w] = after]
        /\ checkpoint' = IF fire THEN [checkpoint EXCEPT ![p][t] = pos[p] + 1] ELSE checkpoint
        /\ Collect(p, out, Lowest(p, pos[p] + 1, after), {})
        /\ UNCHANGED <<log, owner, running, actions>>
    BY DEF HandleTrigger, Collect, bus
  <1>5. msg \in Messages
    <2>1. m.dep \in Deps
      BY <1>2 DEF Messages
    <2>2. {[dep |-> e.dep, id |-> e.id] : e \in held} \in SUBSET Uses
      <3> HIDE DEF held
      <3> QED
        BY <1>2 DEF Held, Uses
    <2> HIDE DEF held, m
    <2> QED
      BY <1>2, <2>1, <2>2 DEF Messages
  <1>6. out \in [Outputs -> Seq(Messages)] /\ \A q \in Outputs \ {Action} : out[q] = batch[p].out[q]
    <2>1. batch[p].out \in [Outputs -> Seq(Messages)]
      BY <1>1 DEF TypeOK, Batches
    <2> HIDE DEF msg, fire
    <2> QED
      BY <1>5, <2>1, PartsAre
  <1> HIDE DEF held, out, m, msg
  <1>7. kept \in SUBSET held
    OBVIOUS
  <1> HIDE DEF kept
  <1>8. events[w] \in [Triggers -> SUBSET Held]
    BY <1>1 DEF TypeOK
  <1>9. /\ after \in [Triggers -> SUBSET Held]
        /\ \A u \in Triggers : after[u] = IF u = t THEN kept ELSE events[w][u]
    BY <1>2, <1>7, <1>8
  <1> HIDE DEF after, t, w
  <1>10. events' \in [Pods -> [Triggers -> SUBSET Held]] /\ events'[w] = after
         /\ \A v \in Pods \ {w} : events'[v] = events[v]
    BY <1>1, <1>4, <1>9 DEF TypeOK
  <1>11. \A u \in Triggers : \A e \in events'[w][u] :
            e \in events[w][u] \/ (e.part = p /\ e.offset = pos[p])
    BY <1>2, <1>7, <1>9, <1>10
  <1>12. \A u \in Triggers : \A e, f \in events'[w][u] :
            /\ e.dep \in DepsOf[u] /\ e.part \in Partitions[u]
            /\ e.dep = f.dep => e = f
    <2>1. \A u \in Triggers : \A e, f \in events[w][u] :
            /\ e.dep \in DepsOf[u] /\ e.part \in Partitions[u]
            /\ e.dep = f.dep => e = f
      BY <1>1 DEF TypeOK
    <2> QED
      BY <1>2, <1>7, <1>9, <1>10, <2>1
  <1>13. checkpoint' \in [Parts -> [Triggers -> Nat]]
    <2> HIDE DEF fire
    <2> QED
      BY <1>1, <1>2, <1>3, <1>4 DEF TypeOK
  <1> QED
    BY <1>1, <1>3, <1>4, <1>6, <1>10, <1>11, <1>12, <1>13 DEF w

\* A handler gets a message of partition p.
Handle(p) ==
    \/ p = Event /\ HandleEvent
    \/ p = Action /\ HandleAction
    \/ p \in TriggerParts /\ (SkipTrigger(p) \/ HandleTrigger(p))

\* What a trigger may hold.
Proper(t, held) ==
    \A e, f \in held : /\ e.dep \in DepsOf[t] /\ e.part \in Partitions[t]
                       /\ e.dep = f.dep => e = f

\* What is collected after the message: messages for the right partitions, and an offset that
\* covers neither what is held nor what was not consumed.
Collected(p, out, offset) ==
    /\ \A q \in Outputs : out[q] \in Seq(Content(q))
    /\ offset <= pos[p] + 1
    /\ \A e \in HeldOf(p)' : offset <= e.offset
    /\ out # NoMessages => mark'[p] <= offset

\* What is held of a partition is held by a trigger.
LEMMA HeldOfTypes ==
    ASSUME TypeOK, NEW p \in Parts
    PROVE  /\ owner[p] \in Pods
           /\ \A e \in HeldOf(p) : /\ e \in Held /\ e.part = p /\ e.offset \in Nat /\ p \in TriggerParts
                                   /\ \E t \in Triggers : e \in events[owner[p]][t]
           /\ \A t \in Triggers : \A e \in events[owner[p]][t] : e.part = p => e \in HeldOf(p)
  BY DEF TypeOK, HeldOf, KeptOf, Held

\* What is marked was consumed.
LEMMA MarkBehind ==
    ASSUME TypeOK, NEW p \in Parts,
           NEW out, NEW offset, NEW fns, Collect(p, out, offset, fns)
    PROVE  mark' = mark /\ mark'[p] \in Int /\ mark'[p] <= pos[p]
  <1>1. mark[p] \in Int /\ mark[p] <= pos[p]
    BY DEF TypeOK
  <1>2. mark' = mark
    BY CollectKeeps
  <1> QED
    BY <1>1, <1>2

\* KafkaSensor.Event.
LEMMA EventFields ==
    ASSUME TypeOK, ContentInv, OffsetInv, HandleEvent
    PROVE  /\ Available(Event)
           /\ UNCHANGED <<log, owner, checkpoint, events, running, actions>>
           /\ \E out \in [Outputs -> Seq(Messages)], offset \in Nat :
                 Collect(Event, out, offset, {}) /\ Collected(Event, out, offset)
  <1>1. PICK out \in EventOutputs(pos[Event], Msg(Event)) :
           Collect(Event, [q \in Outputs |-> batch[Event].out[q] \o out[q]], pos[Event] + 1, {})
    BY DEF HandleEvent
  <1> DEFINE all == [q \in Outputs |-> batch[Event].out[q] \o out[q]]
  <1>2. /\ Available(Event) /\ pos[Event] \in Nat /\ Event \in Parts
        /\ UNCHANGED <<log, owner, checkpoint, events, running, actions>>
    BY PartsAre DEF HandleEvent, TypeOK, Collect, bus
  <1>3. \A q \in Outputs : out[q] \in Seq(Content(q)) /\ batch[Event].out[q] \in Seq(Content(q))
    BY <1>2, OutputTypes DEF ContentInv
  <1>4. \A q \in Outputs : all[q] \in Seq(Content(q))
    BY <1>3
  <1>5. all \in [Outputs -> Seq(Messages)]
    <2>1. \A q \in Outputs : all[q] \in Seq(Messages)
      BY <1>4, ContentTypes
    <2> QED
      BY <2>1
  <1> HIDE DEF all
  <1>6. Collect(Event, all, pos[Event] + 1, {})
    BY <1>1 DEF all
  <1>7. HeldOf(Event)' = {}
    <2>1. HeldOf(Event)' = HeldOf(Event)
      BY <1>2 DEF HeldOf, KeptOf
    <2> QED
      BY <1>2, <2>1, HeldOfTypes, PartsAre
  <1>8. mark'[Event] \in Int /\ mark'[Event] <= pos[Event]
    BY <1>2, <1>6, MarkBehind
  <1>9. Collected(Event, all, pos[Event] + 1)
    BY <1>2, <1>4, <1>7, <1>8 DEF Collected
  <1> QED
    BY <1>2, <1>5, <1>6, <1>9

\* KafkaSensor.Action: the action runs at once or is left for after the commit.
LEMMA ActionFields ==
    ASSUME TypeOK, ContentInv, OffsetInv, HandleAction
    PROVE  /\ Available(Action) /\ ActionCall(Action) \in Calls
           /\ ActionCall(Action).offset = pos[Action]
           /\ ActionCall(Action).trigger = log[Action][pos[Action] + 1].key
           /\ UNCHANGED <<log, owner, checkpoint, events, running>>
           /\ \E fns \in SUBSET {ActionCall(Action)} :
                 /\ Collect(Action, batch[Action].out, pos[Action] + 1, fns)
                 /\ AtLeastOnce[ActionCall(Action).trigger] =>
                       fns = {} /\ actions' = Append(actions, ActionCall(Action))
                 /\ ~AtLeastOnce[ActionCall(Action).trigger] =>
                       fns = {ActionCall(Action)} /\ actions' = actions
           /\ Collected(Action, batch[Action].out, pos[Action] + 1)
  <1>1. /\ Available(Action) /\ pos[Action] \in Nat /\ Action \in Parts
        /\ UNCHANGED <<log, owner, checkpoint, events, running>>
    BY PartsAre DEF HandleAction, TypeOK, Collect, bus
  <1>2. Msg(Action) \in Messages
    BY <1>1, MsgTypes, PartsAre
  <1>3. /\ ActionCall(Action) \in Calls /\ ActionCall(Action).offset = pos[Action]
        /\ ActionCall(Action).trigger = log[Action][pos[Action] + 1].key
    <2> DEFINE m == Msg(Action)
    <2>1. m \in Messages /\ {e \in m.evs : e.dep = m.dep} \in SUBSET Uses /\ m.key \in Triggers
      BY <1>2 DEF Messages
    <2>2. ActionCall(Action) = [offset |-> pos[Action], trigger |-> m.key,
                                given |-> {e \in m.evs : e.dep = m.dep}]
      BY DEF ActionCall
    <2>3. m = log[Action][pos[Action] + 1]
      BY DEF Msg
    <2> HIDE DEF m
    <2> QED
      BY <1>1, <2>1, <2>2, <2>3 DEF Calls
  <1>4. PICK fns \in SUBSET {ActionCall(Action)} :
           /\ Collect(Action, batch[Action].out, pos[Action] + 1, fns)
           /\ AtLeastOnce[ActionCall(Action).trigger] =>
                 fns = {} /\ actions' = Append(actions, ActionCall(Action))
           /\ ~AtLeastOnce[ActionCall(Action).trigger] =>
                 fns = {ActionCall(Action)} /\ actions' = actions
    <2>1. CASE AtLeastOnce[ActionCall(Action).trigger]
      <3>1. /\ actions' = Append(actions, ActionCall(Action))
            /\ Collect(Action, batch[Action].out, pos[Action] + 1, {})
        BY <2>1 DEF HandleAction
      <3> QED
        BY <2>1, <3>1
    <2>2. CASE ~AtLeastOnce[ActionCall(Action).trigger]
      <3>1. /\ actions' = actions
            /\ Collect(Action, batch[Action].out, pos[Action] + 1, {ActionCall(Action)})
        BY <2>2 DEF HandleAction
      <3> QED
        BY <2>2, <3>1
    <2> QED
      BY <2>1, <2>2
  <1>5. HeldOf(Action)' = {}
    <2>1. HeldOf(Action)' = HeldOf(Action)
      BY <1>1 DEF HeldOf, KeptOf
    <2> QED
      BY <1>1, <2>1, HeldOfTypes, PartsAre
  <1>7. mark'[Action] \in Int /\ mark'[Action] <= pos[Action]
    BY <1>1, <1>4, MarkBehind
  <1>8. Collected(Action, batch[Action].out, pos[Action] + 1)
    BY <1>1, <1>5, <1>7 DEF Collected, ContentInv
  <1> QED
    BY <1>1, <1>3, <1>4, <1>8

\* KafkaSensor.Trigger: the offset stays at what is held.
LEMMA TriggerCollects ==
    ASSUME TypeOK, ContentInv, OffsetInv, NEW p \in TriggerParts, HandleTrigger(p)
    PROVE  \E out \in [Outputs -> Seq(Messages)], offset \in Nat :
              Collect(p, out, offset, {}) /\ Collected(p, out, offset)
  <1> DEFINE w == owner[p]
             now == events'[w]
             offset == Lowest(p, pos[p] + 1, now)
  <1>0. p \in Parts /\ p \in Outputs
    BY PartsAre
  <1>1. /\ Available(p) /\ w \in Pods /\ pos[p] \in Nat /\ owner' = owner
        /\ now \in [Triggers -> SUBSET Held]
        /\ \A t \in Triggers : \A e \in now[t] :
              e \in events[w][t] \/ (e.part = p /\ e.offset = pos[p])
    BY TriggerFields
  <1>2. PICK out \in [Outputs -> Seq(Messages)] :
           /\ \A q \in Outputs \ {Action} : out[q] = batch[p].out[q]
           /\ Collect(p, out, offset, {})
    BY TriggerFields
  <1>3. HeldOf(p)' = KeptOf(p, now)
    BY <1>1 DEF HeldOf, KeptOf
  <1> HIDE DEF now
  <1>4. /\ offset \in Nat /\ offset <= pos[p] + 1
        /\ \A e \in HeldOf(p)' : offset <= e.offset
        /\ offset = pos[p] + 1 \/ \E e \in HeldOf(p)' : offset = e.offset
    <2>1. pos[p] + 1 \in Nat
      BY <1>1
    <2>2. now \in [Triggers -> SUBSET Held]
      BY <1>1
    <2>3. /\ Lowest(p, pos[p] + 1, now) \in Nat
          /\ Lowest(p, pos[p] + 1, now) <= pos[p] + 1
      BY <2>1, <2>2, LowestOffset
    <2>4. \A e \in KeptOf(p, now) : Lowest(p, pos[p] + 1, now) <= e.offset
      BY <2>1, <2>2, LowestOffset
    <2>5. Lowest(p, pos[p] + 1, now) = pos[p] + 1 \/ \E e \in KeptOf(p, now) : Lowest(p, pos[p] + 1, now) = e.offset
      BY <2>1, <2>2, LowestOffset
    <2> QED
      BY <1>3, <2>3, <2>4, <2>5
  <1> HIDE DEF offset
  <1>5. \A q \in Outputs : out[q] \in Seq(Content(q))
    <2>1. \A q \in Outputs \ {Action} : out[q] \in Seq(Content(q))
      BY <1>0, <1>2 DEF ContentInv
    <2>2. Content(Action) = Messages
      BY PartsAre DEF Content
    <2>3. out[Action] \in Seq(Messages)
      BY PartsAre
    <2> QED
      BY <2>1, <2>2, <2>3
  <1>6. mark'[p] <= offset
    <2>1. mark'[p] \in Int /\ mark'[p] <= pos[p]
      BY <1>0, <1>1, <1>2, MarkBehind
    <2>2. ASSUME NEW e \in HeldOf(p)' PROVE e.offset \in Nat /\ mark'[p] <= e.offset
      <3>1. e \in Held /\ e.offset \in Nat /\ e.part = p
        BY <1>1, <1>3 DEF Held, KeptOf
      <3>2. CASE e.offset = pos[p]
        BY <2>1, <3>1, <3>2
      <3>3. CASE e.offset # pos[p]
        <4>1. e \in HeldOf(p)
          BY <1>1, <1>3, <3>1, <3>3 DEF HeldOf, KeptOf, w
        <4>2. mark[p] <= e.offset
          BY <1>0, <4>1 DEF OffsetInv, Behind
        <4>3. mark' = mark
          BY <1>0, <1>2, MarkBehind
        <4> QED
          BY <3>1, <4>2, <4>3
      <3> QED
        BY <3>2, <3>3
    <2> QED
      BY <1>1, <1>4, <2>1, <2>2
  <1>7. Collected(p, out, offset)
    BY <1>4, <1>5, <1>6 DEF Collected
  <1> QED
    BY <1>2, <1>4, <1>7

\* A message below the checkpoint is skipped: what was collected stays.
LEMMA SkipCollects ==
    ASSUME TypeOK, ContentInv, OffsetInv, NEW p \in TriggerParts, SkipTrigger(p)
    PROVE  /\ Available(p)
           /\ UNCHANGED <<log, owner, checkpoint, events, running, actions>>
           /\ \E out \in [Outputs -> Seq(Messages)], offset \in Nat :
                 Collect(p, out, offset, {}) /\ Collected(p, out, offset)
  <1> DEFINE out == batch[p].out
             offset == batch[p].offset
  <1>1. /\ Available(p) /\ p \in Parts /\ pos[p] \in Nat
        /\ UNCHANGED <<log, owner, checkpoint, events, running, actions>>
        /\ Collect(p, out, offset, {})
    BY PartsAre DEF SkipTrigger, TypeOK, Collect, bus
  <1>2. out \in [Outputs -> Seq(Messages)] /\ offset \in Nat
    BY <1>1 DEF TypeOK, Batches
  <1>3. HeldOf(p)' = HeldOf(p)
    BY <1>1 DEF HeldOf, KeptOf
  <1>4. /\ offset <= pos[p] + 1 /\ \A e \in HeldOf(p)' : offset <= e.offset
        /\ \A q \in Outputs : out[q] \in Seq(Content(q))
    <2>1. offset <= pos[p] /\ \A e \in HeldOf(p) : offset <= e.offset
      BY <1>1 DEF OffsetInv, Behind
    <2> QED
      BY <1>1, <1>2, <1>3, <2>1 DEF ContentInv
  <1>5. out # NoMessages => mark'[p] <= offset
    <2> SUFFICES ASSUME out # NoMessages PROVE mark'[p] <= offset
      OBVIOUS
    <2>2. mark' = mark
      BY <1>1, CollectKeeps
    <2>3. mark[p] <= offset
      BY <1>1 DEF OffsetInv, Behind
    <2> QED
      BY <2>2, <2>3
  <1> HIDE DEF out, offset
  <1> QED
    BY <1>1, <1>2, <1>4, <1>5 DEF Collected

\* What every handler does to the state.
LEMMA HandleFields ==
    ASSUME TypeOK, ContentInv, OffsetInv, NEW p \in Parts, Handle(p)
    PROVE  /\ Available(p)
           /\ UNCHANGED <<log, owner, running>>
           /\ checkpoint' \in [Parts -> [Triggers -> Nat]] /\ actions' \in Seq(Calls)
           /\ events' \in [Pods -> [Triggers -> SUBSET Held]]
           /\ \A v \in Pods \ {owner[p]} : events'[v] = events[v]
           /\ \A t \in Triggers : \A e \in events'[owner[p]][t] :
                 e \in events[owner[p]][t] \/ (e.part = p /\ e.offset = pos[p])
           /\ \A w \in Pods, t \in Triggers : Proper(t, events'[w][t])
           /\ \E out \in [Outputs -> Seq(Messages)], offset \in Nat, fns \in SUBSET Calls :
                 /\ Collect(p, out, offset, fns) /\ Collected(p, out, offset)
                 /\ p # Action => fns = {} /\ actions' = actions
  <1>0. /\ checkpoint \in [Parts -> [Triggers -> Nat]] /\ actions \in Seq(Calls)
        /\ events \in [Pods -> [Triggers -> SUBSET Held]] /\ owner[p] \in Pods
        /\ \A w \in Pods, t \in Triggers : Proper(t, events[w][t])
    BY DEF TypeOK, Proper
  <1>1. CASE p = Event /\ HandleEvent
    <2>1. /\ Available(p)
          /\ UNCHANGED <<log, owner, checkpoint, events, running, actions>>
          /\ \E out \in [Outputs -> Seq(Messages)], offset \in Nat :
                 Collect(p, out, offset, {}) /\ Collected(p, out, offset)
      BY <1>1, EventFields
    <2>2. {} \in SUBSET Calls
      OBVIOUS
    <2> QED
      BY <1>0, <2>1, <2>2
  <1>2. CASE p = Action /\ HandleAction
    <2> DEFINE call == ActionCall(Action)
    <2>1. /\ Available(p) /\ call \in Calls
          /\ UNCHANGED <<log, owner, checkpoint, events, running>>
      BY <1>2, ActionFields
    <2>2. PICK fns \in SUBSET {call} :
             /\ Collect(p, batch[p].out, pos[p] + 1, fns)
             /\ actions' = Append(actions, call) \/ actions' = actions
      <3> HIDE DEF call
      <3> QED
        BY <1>2, ActionFields DEF call
    <2>3. Collected(p, batch[p].out, pos[p] + 1)
      BY <1>2, ActionFields
    <2> HIDE DEF call
    <2>4. actions' \in Seq(Calls) /\ fns \in SUBSET Calls
      <3>1. fns \in SUBSET Calls
        BY <2>1, <2>2
      <3>2. Append(actions, call) \in Seq(Calls)
        BY <1>0, <2>1
      <3> QED
        BY <1>0, <2>2, <3>1, <3>2
    <2>5. batch[p].out \in [Outputs -> Seq(Messages)] /\ pos[p] + 1 \in Nat
      BY DEF TypeOK, Batches
    <2> QED
      BY <1>0, <1>2, <2>1, <2>2, <2>3, <2>4, <2>5
  <1>3. CASE p \in TriggerParts /\ SkipTrigger(p)
    <2>1. /\ Available(p)
          /\ UNCHANGED <<log, owner, checkpoint, events, running, actions>>
          /\ \E out \in [Outputs -> Seq(Messages)], offset \in Nat :
                 Collect(p, out, offset, {}) /\ Collected(p, out, offset)
      BY <1>3, SkipCollects
    <2>2. {} \in SUBSET Calls
      OBVIOUS
    <2> QED
      BY <1>0, <2>1, <2>2
  <1>4. CASE p \in TriggerParts /\ HandleTrigger(p)
    <2>1. /\ Available(p)
          /\ UNCHANGED <<log, owner, running, actions>>
          /\ checkpoint' \in [Parts -> [Triggers -> Nat]]
          /\ events' \in [Pods -> [Triggers -> SUBSET Held]]
          /\ \A v \in Pods \ {owner[p]} : events'[v] = events[v]
          /\ \A t \in Triggers : \A e \in events'[owner[p]][t] :
                e \in events[owner[p]][t] \/ (e.part = p /\ e.offset = pos[p])
          /\ \A t \in Triggers : \A e, f \in events'[owner[p]][t] :
                     /\ e.dep \in DepsOf[t] /\ e.part \in Partitions[t]
                     /\ e.dep = f.dep => e = f
      BY <1>4, TriggerFields
    <2>2. \A w \in Pods, t \in Triggers : Proper(t, events'[w][t])
      <3> SUFFICES ASSUME NEW w \in Pods, NEW t \in Triggers PROVE Proper(t, events'[w][t])
        OBVIOUS
      <3>1. CASE w = owner[p]
        BY <2>1, <3>1 DEF Proper
      <3>2. CASE w # owner[p]
        BY <1>0, <2>1, <3>2
      <3> QED
        BY <3>1, <3>2
    <2>3. \E out \in [Outputs -> Seq(Messages)], offset \in Nat :
                 Collect(p, out, offset, {}) /\ Collected(p, out, offset)
      BY <1>4, TriggerCollects
    <2>4. {} \in SUBSET Calls
      OBVIOUS
    <2> QED
      BY <1>0, <2>1, <2>2, <2>3, <2>4
  <1> QED
    BY <1>1, <1>2, <1>3, <1>4 DEF Handle

-----------------------------------------------------------------------------
(* Types, contents and offsets in every step                               *)

\* A handler: the offset of its batch, and what the pod holds, stay behind the position.
LEMMA HandleKeeps ==
    ASSUME TypeOK, ContentInv, OffsetInv, NEW p \in Parts, Handle(p)
    PROVE  TypeOK' /\ ContentInv' /\ OffsetInv'
  <1>1. /\ Available(p)
        /\ UNCHANGED <<log, owner, running>>
        /\ checkpoint' \in [Parts -> [Triggers -> Nat]] /\ actions' \in Seq(Calls)
        /\ events' \in [Pods -> [Triggers -> SUBSET Held]]
        /\ \A v \in Pods \ {owner[p]} : events'[v] = events[v]
        /\ \A t \in Triggers : \A e \in events'[owner[p]][t] :
              e \in events[owner[p]][t] \/ (e.part = p /\ e.offset = pos[p])
        /\ \A w \in Pods, t \in Triggers : Proper(t, events'[w][t])
    BY HandleFields
  <1>2. PICK out \in [Outputs -> Seq(Messages)], offset \in Nat, fns \in SUBSET Calls :
           Collect(p, out, offset, fns) /\ Collected(p, out, offset)
    BY HandleFields
  <1>3. /\ stage' \in [Parts -> {"off", "idle", "first", "batch"}] /\ stage'[p] = "batch"
        /\ pos' \in [Parts -> Nat] /\ pos'[p] = pos[p] + 1
        /\ batch' \in [Parts -> Batches]
        /\ batch'[p].out = out /\ batch'[p].offset = offset
        /\ \A q \in Parts \ {p} :
              stage'[q] = stage[q] /\ pos'[q] = pos[q] /\ batch'[q] = batch[q]
    BY <1>1, <1>2, CollectFields
  <1>4. UNCHANGED <<log, committed, metadata, owner, mark, dirty, first, faults, bounds>>
    BY <1>2, CollectKeeps
  <1>5. pos[p] \in Nat /\ pos[p] + 1 <= Len(log[p]) /\ ~first[p]
    BY <1>1, MsgTypes DEF Available
  <1>6. TypeOK'
    <2>1. \A q \in Parts : Ordered(q)'
      <3> SUFFICES ASSUME NEW q \in Parts PROVE Ordered(q)'
        OBVIOUS
      <3>1. /\ Ordered(q) /\ pos[q] \in Nat /\ mark[q] \in Int /\ committed[q] \in Int
            /\ pos'[q] = pos[q] \/ (q = p /\ pos'[q] = pos[q] + 1)
        BY <1>3 DEF TypeOK, Ordered
      <3> QED
        BY <1>4, <1>5, <3>1 DEF Ordered
    <2>2. oldest' \in BOOLEAN /\ first' \in [Parts -> BOOLEAN] /\ rolledBack' \in BOOLEAN
      BY <1>4 DEF TypeOK, bounds, faults
    <2>3. \A w \in Pods, t \in Triggers : \A e, f \in events'[w][t] :
             /\ e.dep \in DepsOf[t] /\ e.part \in Partitions[t]
             /\ e.dep = f.dep => e = f
      BY <1>1 DEF Proper
    <2>4. /\ owner' \in [Parts -> Pods] /\ log' \in [Parts -> Seq(Contents \cup Messages)]
          /\ committed' \in [Parts -> Int] /\ mark' \in [Parts -> Int]
          /\ dirty' \in [Parts -> SUBSET [Triggers -> Nat]]
          /\ metadata' \in [Parts -> [Triggers -> Nat]] /\ running' \in [Pods -> SUBSET Calls]
          /\ unsure' \subseteq Nat /\ commitErrors' \in Nat
          /\ crashes' \in Nat /\ rebalances' \in Nat /\ txnErrors' \in Nat
      BY <1>1, <1>4 DEF TypeOK, bounds, faults
    <2> QED
      BY <1>1, <1>3, <2>1, <2>2, <2>3, <2>4 DEF TypeOK, Ordered
  <1>7. ContentInv'
    <2>1. \A q \in Outputs : log'[q] \in Seq(Content(q))
      BY <1>1 DEF ContentInv
    <2>2. \A q \in Outputs, r \in Parts : batch'[r].out[q] \in Seq(Content(q))
      BY <1>2, <1>3 DEF ContentInv, Collected
    <2> QED
      BY <2>1, <2>2 DEF ContentInv, Content
  <1>8. OffsetInv'
    <2> SUFFICES ASSUME NEW q \in Parts PROVE Behind(q)'
      BY DEF OffsetInv
    <2>0. Behind(q) /\ mark[q] \in Int /\ mark[q] <= pos[q]
      BY DEF OffsetInv, TypeOK
    <2>1. CASE q = p
      <3>1. /\ stage'[p] = "batch" /\ batch'[p].offset <= pos'[p] /\ ~first'[p]
            /\ batch'[p].out # NoMessages => mark'[p] <= batch'[p].offset
        BY <1>2, <1>3, <1>4, <1>5 DEF Collected
      <3>2. ASSUME NEW e \in HeldOf(p)' PROVE mark'[p] <= e.offset /\ batch'[p].offset <= e.offset
        <4>1. batch'[p].offset <= e.offset
          BY <1>2, <1>3 DEF Collected
        <4>2. PICK t \in Triggers : e \in events'[owner[p]][t] /\ e.part = p
          BY <1>1 DEF HeldOf, KeptOf
        <4>3. CASE e.offset = pos[p]
          BY <1>4, <2>0, <2>1, <4>1, <4>3
        <4>4. CASE e.offset # pos[p]
          <5>1. e \in HeldOf(p)
            BY <1>1, <4>2, <4>4, HeldOfTypes
          <5>2. mark[p] <= e.offset
            BY <2>0, <2>1, <5>1 DEF Behind
          <5> QED
            BY <1>4, <4>1, <5>2
        <4> QED
          BY <4>3, <4>4
      <3> QED
        BY <2>1, <3>1, <3>2 DEF Behind
    <2>2. CASE q # p
      <3>1. HeldOf(q)' \subseteq HeldOf(q)
        <4> SUFFICES ASSUME NEW e \in HeldOf(q)' PROVE e \in HeldOf(q)
          OBVIOUS
        <4>1. PICK t \in Triggers : e \in events'[owner[q]][t] /\ e.part = q
          BY <1>1 DEF HeldOf, KeptOf
        <4>2. e \in events[owner[q]][t]
          BY <1>1, <2>2, <4>1, HeldOfTypes
        <4> QED
          BY <4>1, <4>2, HeldOfTypes
      <3>2. stage'[q] = stage[q] /\ pos'[q] = pos[q] /\ batch'[q] = batch[q]
        BY <1>3, <2>2
      <3> QED
        BY <1>4, <2>0, <3>1, <3>2 DEF Behind
    <2> QED
      BY <2>1, <2>2
  <1> QED
    BY <1>6, <1>7, <1>8

\* What MarkOffset and Commit, or a transaction, leave of partition q.
Marked(q, p, offset, meta) ==
    \/ mark'[q] = mark[q] /\ Flushed(q, dirty[q])
    \/ q = p /\ offset > mark[p] /\ mark'[p] = offset /\ Flushed(p, {meta})

\* Offsets stay in order when what is marked was consumed.
LEMMA OrderedStays ==
    ASSUME TypeOK, NEW p \in Parts, NEW q \in Parts, NEW offset \in Nat, offset <= pos[p], NEW meta,
           pos'[q] = pos[q], Len(log[q]) \in Nat, Len(log'[q]) \in Nat, Len(log[q]) <= Len(log'[q]),
           Marked(q, p, offset, meta)
    PROVE  Ordered(q)'
  <1>1. /\ Ordered(q) /\ pos[q] \in Nat /\ mark[q] \in Int /\ mark[p] \in Int
        /\ committed[q] \in Int /\ committed[p] \in Int
    BY DEF TypeOK, Ordered
  <1>2. CASE mark'[q] = mark[q] /\ Flushed(q, dirty[q])
    <2>1. \/ committed'[q] = committed[q] /\ dirty'[q] = dirty[q]
          \/ committed'[q] = mark[q]
      BY <1>2 DEF Flushed
    <2> QED
      BY <1>1, <1>2, <2>1 DEF Ordered, NoOffset
  <1>3. CASE q = p /\ mark'[p] = offset /\ Flushed(p, {meta})
    <2>1. \/ committed'[q] = committed[q] /\ dirty'[q] # {}
          \/ committed'[q] = mark'[q]
      BY <1>3 DEF Flushed
    <2> QED
      BY <1>1, <1>3, <2>1 DEF Ordered, NoOffset
  <1> QED
    BY <1>2, <1>3 DEF Marked

\* Neither a batch nor what is held falls behind a new mark.
LEMMA BehindStays ==
    ASSUME TypeOK, OffsetInv, NEW p \in Parts, NEW q \in Parts, NEW offset \in Nat, NEW meta,
           HeldOf(q)' = HeldOf(q), pos'[q] = pos[q], pos[q] \in Nat,
           \/ batch'[q] = batch[q] /\ (stage'[q] = stage[q] \/ (stage[q] # "batch" /\ stage'[q] # "batch"))
           \/ batch'[q] = EmptyBatch /\ stage'[q] # "batch",
           first'[q] = first[q] \/ ~first'[q],
           Marked(q, p, offset, meta),
           q = p => ~first'[p] /\ batch'[p] = EmptyBatch /\ \A e \in HeldOf(p) : offset <= e.offset
    PROVE  Behind(q)'
  <1>1. /\ Behind(q) /\ mark[q] \in Int
        /\ \A e \in HeldOf(q) : e.offset \in Nat
    BY HeldOfTypes DEF TypeOK, OffsetInv
  <1>2. /\ stage'[q] # "batch" => batch'[q] = EmptyBatch
        /\ batch'[q].offset <= pos'[q]
        /\ \A e \in HeldOf(q)' : batch'[q].offset <= e.offset
    BY <1>1, EmptyTypes DEF Behind
  <1>3. batch'[q].out # NoMessages => batch'[q] = batch[q] /\ q # p
    BY EmptyTypes
  <1>4. CASE mark'[q] = mark[q] /\ Flushed(q, dirty[q])
    <2>1. /\ batch'[q].out # NoMessages => mark'[q] <= batch'[q].offset
          /\ \A e \in HeldOf(q)' : mark'[q] <= e.offset
      BY <1>1, <1>3, <1>4 DEF Behind
    <2>2. ASSUME first'[q]
          PROVE  /\ committed'[q] = NoOffset /\ mark'[q] = NoOffset /\ dirty'[q] = {}
                 /\ stage'[q] # "batch" /\ HeldOf(q)' = {}
      <3>1. /\ committed[q] = NoOffset /\ mark[q] = NoOffset /\ dirty[q] = {}
            /\ stage[q] # "batch" /\ HeldOf(q) = {}
        BY <1>1, <2>2 DEF Behind
      <3> QED
        BY <1>4, <3>1 DEF Flushed
    <2> QED
      BY <1>2, <2>1, <2>2 DEF Behind
  <1>5. CASE q = p /\ mark'[p] = offset
    BY <1>2, <1>3, <1>5 DEF Behind
  <1> QED
    BY <1>4, <1>5 DEF Marked

\* What the end of a batch does to marks, committed offsets and checkpoints.
LEMMA CommitFields ==
    ASSUME TypeOK, OffsetInv, NEW p \in Parts,
           CommitOffset(p) \/ CommitTxn(p) \/ BeginTxnFails(p)
    PROVE  /\ committed' \in [Parts -> Int] /\ mark' \in [Parts -> Int]
           /\ metadata' \in [Parts -> [Triggers -> Nat]]
           /\ dirty' \in [Parts -> SUBSET [Triggers -> Nat]]
           /\ txnErrors' \in Nat /\ commitErrors' \in Nat /\ unsure' \subseteq Nat
           /\ \A q \in Parts :
                 \/ Marked(q, p, batch[p].offset, checkpoint[p])
                 \/ /\ q = p /\ batch[p].out # NoMessages /\ mark'[p] = mark[p] /\ dirty'[p] = dirty[p]
                    /\ committed'[p] = batch[p].offset /\ metadata'[p] = checkpoint[p]
  <1>1. /\ batch[p].offset \in Nat /\ checkpoint[p] \in [Triggers -> Nat]
        /\ batch[p].fns \in SUBSET Calls
    BY DEF TypeOK, Batches
  <1>2. CASE CommitOffset(p)
    <2>1. SessionCommit(p, batch[p].offset, checkpoint[p])
      BY <1>2 DEF CommitOffset
    <2>2. txnErrors' \in Nat
      BY <1>2 DEF CommitOffset, TypeOK
    <2>3. unsure' \subseteq Nat
      <3>1. \A f \in batch[p].fns : f.offset \in Nat
        BY <1>1 DEF Calls
      <3>2. unsure' = unsure \cup {f.offset : f \in {g \in batch[p].fns : committed'[p] <= g.offset}}
        BY <1>2 DEF CommitOffset
      <3>3. unsure \subseteq Nat
        BY DEF TypeOK
      <3> HIDE DEF TypeOK
      <3> QED
        BY <3>1, <3>2, <3>3, Zenon
    <2>4. \A q \in Parts : Marked(q, p, batch[p].offset, checkpoint[p])
      BY <1>1, <2>1, SessionFields DEF Marked
    <2> QED
      BY <1>1, <2>1, <2>2, <2>3, <2>4, SessionFields
  <1>3. CASE CommitTxn(p)
    <2>1. /\ committed' = [committed EXCEPT ![p] = batch[p].offset]
          /\ metadata' = [metadata EXCEPT ![p] = checkpoint[p]]
          /\ UNCHANGED <<mark, dirty, unsure, commitErrors, txnErrors>> /\ batch[p].out # NoMessages
      BY <1>3 DEF CommitTxn, marks, faults
    <2>2. \A q \in Parts \ {p} : Flushed(q, dirty[q])
      BY <2>1 DEF Flushed, TypeOK
    <2>3. committed'[p] = batch[p].offset /\ metadata'[p] = checkpoint[p]
      BY <2>1 DEF TypeOK
    <2> QED
      BY <1>1, <2>1, <2>2, <2>3 DEF Marked, TypeOK
  <1>4. CASE BeginTxnFails(p)
    <2>1. UNCHANGED <<committed, metadata, mark, dirty, unsure, commitErrors>> /\ txnErrors' = txnErrors + 1
      BY <1>4 DEF BeginTxnFails, bus, marks, faults
    <2> QED
      BY <2>1 DEF Marked, Flushed, TypeOK
  <1> QED
    BY <1>2, <1>3, <1>4

\* KafkaTransaction.Commit: what is committed has been consumed and is not held.
LEMMA CommitKeeps ==
    ASSUME TypeOK, ContentInv, OffsetInv, NEW p \in Parts,
           CommitOffset(p) \/ CommitTxn(p) \/ BeginTxnFails(p)
    PROVE  TypeOK' /\ ContentInv' /\ OffsetInv'
  <1>0. log' = log \/ CommitTxn(p)
    BY DEF CommitOffset, BeginTxnFails, bus
  <1>1. EndBatch(p) /\ stage[p] = "batch"
    BY DEF CommitOffset, CommitTxn, BeginTxnFails
  <1>2. /\ stage' \in [Parts -> {"off", "idle", "first", "batch"}] /\ stage'[p] = "idle"
        /\ batch' \in [Parts -> Batches] /\ batch'[p] = EmptyBatch
        /\ \A q \in Parts \ {p} : stage'[q] = stage[q] /\ batch'[q] = batch[q]
        /\ running' \in [Pods -> SUBSET Calls]
        /\ UNCHANGED <<owner, pos, first, checkpoint, events, actions, oldest, crashes, rebalances>>
    BY <1>1, EndBatchFields
  <1>3. /\ batch[p].offset \in Nat /\ batch[p].out \in [Outputs -> Seq(Messages)]
        /\ checkpoint[p] \in [Triggers -> Nat] /\ mark[p] \in Int /\ pos[p] \in Nat
    BY DEF TypeOK, Batches
  <1>4. /\ committed' \in [Parts -> Int] /\ mark' \in [Parts -> Int]
        /\ metadata' \in [Parts -> [Triggers -> Nat]]
        /\ dirty' \in [Parts -> SUBSET [Triggers -> Nat]]
        /\ txnErrors' \in Nat /\ commitErrors' \in Nat /\ unsure' \subseteq Nat
        /\ \A q \in Parts :
              \/ Marked(q, p, batch[p].offset, checkpoint[p])
              \/ /\ q = p /\ batch[p].out # NoMessages /\ mark'[p] = mark[p] /\ dirty'[p] = dirty[p]
                 /\ committed'[p] = batch[p].offset /\ metadata'[p] = checkpoint[p]
    BY CommitFields
  <1>5. /\ log' \in [Parts -> Seq(Contents \cup Messages)]
        /\ \A q \in Parts : Len(log[q]) <= Len(log'[q])
        /\ \A q \in Outputs : log'[q] \in Seq(Content(q))
    <2>1. CASE log' = log
      <3>1. \A q \in Parts : log[q] \in Seq(Contents \cup Messages)
        BY DEF TypeOK
      <3> QED
        BY <2>1, <3>1 DEF TypeOK, ContentInv
    <2>2. CASE CommitTxn(p)
      <3>1. log' = [q \in Parts |-> IF q = Event THEN log[q] ELSE log[q] \o batch[p].out[q]]
        BY <2>2 DEF CommitTxn
      <3>2. ASSUME NEW q \in Parts
            PROVE  /\ log'[q] \in Seq(Contents \cup Messages) /\ Len(log[q]) <= Len(log'[q])
                   /\ q \in Outputs => log'[q] \in Seq(Content(q))
        <4>1. log[q] \in Seq(Contents \cup Messages) /\ Len(log[q]) \in Nat
          BY DEF TypeOK
        <4>2. CASE q = Event
          BY <3>1, <4>1, <4>2, PartsAre
        <4>3. CASE q # Event
          <5>1. q \in Outputs /\ log'[q] = log[q] \o batch[p].out[q]
            BY <3>1, <4>3 DEF Parts
          <5>2. batch[p].out[q] \in Seq(Messages)
            BY <1>3, <5>1
          <5>3. batch[p].out[q] \in Seq(Contents \cup Messages)
            BY <5>2
          <5>4. log[q] \in Seq(Content(q)) /\ batch[p].out[q] \in Seq(Content(q))
            BY <5>1 DEF ContentInv
          <5>5. log'[q] \in Seq(Content(q))
            BY <5>1, <5>4, Appended
          <5>6. log'[q] \in Seq(Contents \cup Messages) /\ Len(log[q]) <= Len(log'[q])
            <6> DEFINE S == Contents \cup Messages
            <6>1. log[q] \in Seq(S) /\ batch[p].out[q] \in Seq(S)
              BY <4>1, <5>3
            <6> HIDE DEF S
            <6>2. log[q] \o batch[p].out[q] \in Seq(S)
              BY <6>1, Appended
            <6>3. Len(log[q]) <= Len(log[q] \o batch[p].out[q])
              BY <6>1, Appended
            <6> QED
              BY <5>1, <6>2, <6>3 DEF S
          <5> QED
            BY <5>5, <5>6
        <4> QED
          BY <4>2, <4>3
      <3>3. log' = [q \in Parts |-> log'[q]]
        BY <3>1
      <3> QED
        BY <3>2, <3>3, PartsAre
    <2> QED
      BY <2>1, <2>2, <1>0 DEF bus
  <1>6. \A q \in Parts : HeldOf(q)' = HeldOf(q)
    BY <1>2 DEF HeldOf, KeptOf
  <1>7. /\ Behind(p) /\ batch[p].offset <= pos[p] /\ ~first[p]
        /\ batch[p].out # NoMessages => mark[p] <= batch[p].offset
        /\ \A e \in HeldOf(p) : mark[p] <= e.offset /\ batch[p].offset <= e.offset
    BY <1>1 DEF OffsetInv, Behind
  <1>8. TypeOK'
    <2>1. \A q \in Parts : Ordered(q)'
      <3> SUFFICES ASSUME NEW q \in Parts PROVE Ordered(q)'
        OBVIOUS
      <3>1. /\ pos'[q] = pos[q] /\ pos[q] \in Nat /\ Ordered(q)
            /\ Len(log[q]) \in Nat /\ Len(log'[q]) \in Nat /\ Len(log[q]) <= Len(log'[q])
        BY <1>2, <1>5 DEF TypeOK, Ordered
      <3>2. CASE Marked(q, p, batch[p].offset, checkpoint[p])
        BY <1>3, <1>7, <3>1, <3>2, OrderedStays
      <3>3. CASE /\ q = p /\ batch[p].out # NoMessages /\ mark'[p] = mark[p]
                 /\ committed'[p] = batch[p].offset
        BY <1>3, <1>7, <3>1, <3>3 DEF Ordered, NoOffset
      <3> QED
        BY <1>4, <3>2, <3>3
    <2>2. first' \in [Parts -> BOOLEAN] /\ oldest' \in BOOLEAN
      BY <1>2 DEF TypeOK
    <2>3. rolledBack' \in BOOLEAN
      <3>1. CASE CommitOffset(p)
        BY <3>1, RolledForward DEF CommitOffset
      <3>2. CASE CommitTxn(p) \/ BeginTxnFails(p)
        BY <3>2 DEF CommitTxn, BeginTxnFails, faults, TypeOK
      <3> QED
        BY <3>1, <3>2
    <2>4. /\ owner' \in [Parts -> Pods] /\ pos' \in [Parts -> Nat]
          /\ checkpoint' \in [Parts -> [Triggers -> Nat]] /\ actions' \in Seq(Calls)
          /\ crashes' \in Nat /\ rebalances' \in Nat
          /\ events' \in [Pods -> [Triggers -> SUBSET Held]]
          /\ \A w \in Pods, t \in Triggers : \A e, f \in events'[w][t] :
                /\ e.dep \in DepsOf[t] /\ e.part \in Partitions[t]
                /\ e.dep = f.dep => e = f
      BY <1>2 DEF TypeOK
    <2> QED
      BY <1>2, <1>4, <1>5, <2>1, <2>2, <2>3, <2>4 DEF TypeOK, Ordered
  <1>9. ContentInv'
    <2>1. \A q \in Outputs, r \in Parts : batch'[r].out[q] \in Seq(Content(q))
      <3>1. \A q \in Outputs : batch'[p].out[q] \in Seq(Content(q))
        BY <1>2, EmptyTypes
      <3>2. \A q \in Outputs, r \in Parts \ {p} : batch'[r].out[q] \in Seq(Content(q))
        BY <1>2 DEF ContentInv
      <3> QED
        BY <3>1, <3>2
    <2> QED
      BY <1>5, <2>1 DEF ContentInv, Content
  <1>10. OffsetInv'
    <2> SUFFICES ASSUME NEW q \in Parts PROVE Behind(q)'
      BY DEF OffsetInv
    <2>0. first' = first /\ pos' = pos /\ pos[q] \in Nat /\ HeldOf(q)' = HeldOf(q)
      BY <1>2, <1>6 DEF TypeOK
    <2>1. \/ batch'[q] = batch[q] /\ stage'[q] = stage[q] /\ q # p
          \/ batch'[q] = EmptyBatch /\ stage'[q] = "idle"
      BY <1>2
    <2>2. CASE Marked(q, p, batch[p].offset, checkpoint[p])
      BY <1>2, <1>3, <1>7, <2>0, <2>1, <2>2, BehindStays
    <2>3. CASE q = p /\ mark'[p] = mark[p]
      <3>1. \A e \in HeldOf(p) : e.offset \in Nat
        BY HeldOfTypes
      <3> QED
        BY <1>2, <1>3, <1>7, <2>0, <2>3, <3>1, EmptyTypes DEF Behind
    <2> QED
      BY <1>4, <2>2, <2>3
  <1> QED
    BY <1>8, <1>9, <1>10

\* The first message is marked at its own offset, whether or not the commit succeeds.
LEMMA FirstFields ==
    ASSUME TypeOK, OffsetInv, NEW p \in Parts, MarkFirst(p)
    PROVE  /\ committed' \in [Parts -> Int] /\ mark' \in [Parts -> Int]
           /\ metadata' \in [Parts -> [Triggers -> Nat]]
           /\ dirty' \in [Parts -> SUBSET [Triggers -> Nat]] /\ commitErrors' \in Nat
           /\ \A q \in Parts : Marked(q, p, pos[p], NoCheckpoint)
           /\ first[p] /\ stage[p] # "batch" /\ pos[p] \in Nat /\ stage'[p] = "first"
           /\ stage' \in [Parts -> {"off", "idle", "first", "batch"}]
           /\ \A q \in Parts \ {p} : stage'[q] = stage[q]
           /\ UNCHANGED <<log, owner, pos, checkpoint, batch, events, running, actions, unsure, bounds>>
  <1>1. /\ SessionCommit(p, pos[p], NoCheckpoint) /\ first[p]
        /\ stage' = [stage EXCEPT ![p] = "first"]
        /\ UNCHANGED <<log, owner, pos, checkpoint, batch, events, running, actions, unsure, bounds>>
    BY DEF MarkFirst
  <1>2. pos[p] \in Nat /\ NoCheckpoint \in [Triggers -> Nat]
    BY DEF TypeOK, NoCheckpoint
  <1>3. \A q \in Parts : Marked(q, p, pos[p], NoCheckpoint)
    BY <1>1, <1>2, SessionFields DEF Marked
  <1>4. stage[p] # "batch"
    BY <1>1 DEF OffsetInv, Behind
  <1>5. /\ stage' \in [Parts -> {"off", "idle", "first", "batch"}] /\ stage'[p] = "first"
        /\ \A q \in Parts \ {p} : stage'[q] = stage[q]
    BY <1>1 DEF TypeOK
  <1> QED
    BY <1>1, <1>2, <1>3, <1>4, <1>5, SessionFields

LEMMA FirstKeeps ==
    ASSUME TypeOK, ContentInv, OffsetInv, NEW p \in Parts, MarkFirst(p)
    PROVE  TypeOK' /\ ContentInv' /\ OffsetInv'
  <1>1. /\ committed' \in [Parts -> Int] /\ mark' \in [Parts -> Int]
        /\ metadata' \in [Parts -> [Triggers -> Nat]]
        /\ dirty' \in [Parts -> SUBSET [Triggers -> Nat]] /\ commitErrors' \in Nat
        /\ \A q \in Parts : Marked(q, p, pos[p], NoCheckpoint)
        /\ stage[p] # "batch" /\ pos[p] \in Nat /\ stage'[p] = "first"
        /\ stage' \in [Parts -> {"off", "idle", "first", "batch"}]
        /\ \A q \in Parts \ {p} : stage'[q] = stage[q]
        /\ UNCHANGED <<log, owner, pos, checkpoint, batch, events, running, actions, unsure, bounds>>
    BY FirstFields
  <1>2. first' = [first EXCEPT ![p] = FALSE] /\ first \in [Parts -> BOOLEAN] /\ first[p]
    BY DEF MarkFirst, TypeOK
  <1>3. /\ first' \in [Parts -> BOOLEAN] /\ ~first'[p]
        /\ \A q \in Parts \ {p} : first'[q] = first[q]
    BY <1>2
  <1>4. TypeOK'
    <2>1. \A q \in Parts : Ordered(q)'
      <3> SUFFICES ASSUME NEW q \in Parts PROVE Ordered(q)'
        OBVIOUS
      <3>1. /\ pos'[q] = pos[q] /\ pos[q] \in Nat
            /\ Len(log[q]) \in Nat /\ Len(log'[q]) \in Nat /\ Len(log[q]) <= Len(log'[q])
        BY <1>1 DEF TypeOK
      <3>2. pos[p] <= pos[p] /\ Marked(q, p, pos[p], NoCheckpoint)
        BY <1>1
      <3> QED
        BY <1>1, <3>1, <3>2, OrderedStays
    <2>2. oldest' \in BOOLEAN
      BY <1>1 DEF TypeOK, bounds
    <2>3. rolledBack' \in BOOLEAN
      BY RolledForward DEF MarkFirst
    <2>4. /\ owner' \in [Parts -> Pods] /\ pos' \in [Parts -> Nat]
          /\ log' \in [Parts -> Seq(Contents \cup Messages)]
          /\ checkpoint' \in [Parts -> [Triggers -> Nat]] /\ actions' \in Seq(Calls)
          /\ batch' \in [Parts -> Batches] /\ running' \in [Pods -> SUBSET Calls]
          /\ unsure' \subseteq Nat
          /\ crashes' \in Nat /\ rebalances' \in Nat /\ txnErrors' \in Nat
          /\ events' \in [Pods -> [Triggers -> SUBSET Held]]
          /\ \A w \in Pods, t \in Triggers : \A e, f \in events'[w][t] :
                /\ e.dep \in DepsOf[t] /\ e.part \in Partitions[t]
                /\ e.dep = f.dep => e = f
      BY <1>1 DEF TypeOK, bounds
    <2> QED
      BY <1>1, <1>3, <2>1, <2>2, <2>3, <2>4 DEF TypeOK, Ordered
  <1>5. ContentInv'
    BY <1>1 DEF ContentInv, Content
  <1>6. OffsetInv'
    <2> SUFFICES ASSUME NEW q \in Parts PROVE Behind(q)'
      BY DEF OffsetInv
    <2>1. HeldOf(q)' = HeldOf(q) /\ pos'[q] = pos[q] /\ pos[q] \in Nat /\ batch'[q] = batch[q]
      BY <1>1 DEF HeldOf, KeptOf, TypeOK
    <2>2. stage'[q] = stage[q] \/ (stage[q] # "batch" /\ stage'[q] # "batch")
      BY <1>1
    <2>3. first'[q] = first[q] \/ ~first'[q]
      BY <1>3
    <2>4. HeldOf(p) = {} /\ batch[p] = EmptyBatch
      BY <1>1, <1>2 DEF OffsetInv, Behind
    <2>5. q = p => ~first'[p] /\ batch'[p] = EmptyBatch /\ \A e \in HeldOf(p) : pos[p] <= e.offset
      BY <1>1, <1>3, <2>4
    <2> QED
      BY <1>1, <2>1, <2>2, <2>3, <2>5, BehindStays
  <1> QED
    BY <1>4, <1>5, <1>6

\* Nothing is held of a partition by a pod that holds nothing.
LEMMA NothingHeld ==
    ASSUME NEW p, NEW held \in [Triggers -> {{}}]
    PROVE  KeptOf(p, held) = {}
  BY DEF KeptOf

\* A pod that dies forgets its batches and what it holds.
LEMMA CrashKeeps ==
    ASSUME TypeOK, ContentInv, OffsetInv, NEW w \in Pods, Crash(w)
    PROVE  TypeOK' /\ ContentInv' /\ OffsetInv'
  <1>1. /\ stage' = [p \in Parts |-> IF owner[p] = w THEN "off" ELSE stage[p]]
        /\ batch' = [p \in Parts |-> IF owner[p] = w THEN EmptyBatch ELSE batch[p]]
        /\ events' = [events EXCEPT ![w] = NoEvents]
        /\ running' = [running EXCEPT ![w] = {}] /\ crashes' = crashes + 1
    BY DEF Crash
  <1>2. UNCHANGED <<log, committed, metadata, owner, pos, mark, dirty, first, checkpoint, actions,
                    unsure, rolledBack, commitErrors, oldest, rebalances, txnErrors>>
    BY DEF Crash, bus, marks, faults
  <1>3. \A q \in Parts : HeldOf(q)' \in SUBSET HeldOf(q)
    <2> SUFFICES ASSUME NEW q \in Parts, NEW e \in HeldOf(q)' PROVE e \in HeldOf(q)
      OBVIOUS
    <2>1. PICK t \in Triggers : e \in events'[owner[q]][t] /\ e.part = q
      BY <1>2 DEF HeldOf, KeptOf
    <2>2. owner[q] \in Pods /\ events \in [Pods -> [Triggers -> SUBSET Held]]
      BY DEF TypeOK
    <2>3. e \in events[owner[q]][t]
      BY <1>1, <2>1, <2>2 DEF NoEvents
    <2> QED
      BY <2>1, <2>3, HeldOfTypes
  <1>4. TypeOK'
    <2>1. /\ stage' \in [Parts -> {"off", "idle", "first", "batch"}] /\ batch' \in [Parts -> Batches]
          /\ running' \in [Pods -> SUBSET Calls] /\ crashes' \in Nat
          /\ events' \in [Pods -> [Triggers -> SUBSET Held]]
      BY <1>1, EmptyTypes DEF TypeOK
    <2>2. \A v \in Pods, t \in Triggers : \A e, f \in events'[v][t] :
                /\ e.dep \in DepsOf[t] /\ e.part \in Partitions[t]
                /\ e.dep = f.dep => e = f
      <3>1. \A v \in Pods, t \in Triggers : events'[v][t] \subseteq events[v][t]
        BY <1>1 DEF NoEvents, TypeOK
      <3>2. \A v \in Pods, t \in Triggers : \A e, f \in events[v][t] :
                /\ e.dep \in DepsOf[t] /\ e.part \in Partitions[t]
                /\ e.dep = f.dep => e = f
        BY DEF TypeOK
      <3> QED
        BY <3>1, <3>2
    <2>3. first' \in [Parts -> BOOLEAN] /\ oldest' \in BOOLEAN /\ rolledBack' \in BOOLEAN
      BY <1>2 DEF TypeOK
    <2>4. /\ owner' \in [Parts -> Pods] /\ log' \in [Parts -> Seq(Contents \cup Messages)]
          /\ committed' \in [Parts -> Int] /\ mark' \in [Parts -> Int] /\ pos' \in [Parts -> Nat]
          /\ metadata' \in [Parts -> [Triggers -> Nat]]
          /\ checkpoint' \in [Parts -> [Triggers -> Nat]]
          /\ dirty' \in [Parts -> SUBSET [Triggers -> Nat]]
          /\ unsure' \subseteq Nat /\ commitErrors' \in Nat
          /\ actions' \in Seq(Calls) /\ rebalances' \in Nat /\ txnErrors' \in Nat
          /\ \A p \in Parts : Ordered(p)'
      BY <1>2 DEF TypeOK, Ordered
    <2> QED
      BY <2>1, <2>2, <2>3, <2>4 DEF TypeOK, Ordered
  <1>5. ContentInv'
    <2>1. \A q \in Outputs, r \in Parts : batch'[r].out[q] \in Seq(Content(q))
      <3> SUFFICES ASSUME NEW q \in Outputs, NEW r \in Parts
                   PROVE  batch'[r].out[q] \in Seq(Content(q))
        OBVIOUS
      <3>1. CASE owner[r] = w
        BY <1>1, <3>1, EmptyTypes
      <3>2. CASE owner[r] # w
        BY <1>1, <3>2 DEF ContentInv
      <3> QED
        BY <3>1, <3>2
    <2>2. \A q \in Outputs : log'[q] \in Seq(Content(q))
      BY <1>2 DEF ContentInv
    <2> QED
      BY <2>1, <2>2 DEF ContentInv, Content
  <1>6. OffsetInv'
    <2> SUFFICES ASSUME NEW q \in Parts PROVE Behind(q)'
      BY DEF OffsetInv
    <2>0. /\ first' = first /\ committed' = committed /\ mark' = mark /\ dirty' = dirty /\ pos' = pos
          /\ pos[q] \in Nat /\ Behind(q)
      BY <1>2 DEF TypeOK, OffsetInv
    <2>1. CASE owner[q] = w
      <3>1. stage'[q] = "off" /\ batch'[q] = EmptyBatch
        BY <1>1, <2>1
      <3>2. \A e \in HeldOf(q) : e.offset \in Nat
        BY HeldOfTypes
      <3> QED
        BY <1>3, <2>0, <3>1, <3>2, EmptyTypes DEF Behind
    <2>2. CASE owner[q] # w
      <3>1. stage'[q] = stage[q] /\ batch'[q] = batch[q]
        BY <1>1, <2>2
      <3> QED
        BY <1>3, <2>0, <3>1 DEF Behind
    <2> QED
      BY <2>1, <2>2
  <1> QED
    BY <1>4, <1>5, <1>6

\* A rebalance happens between batches; consumption resumes where nothing is held.
LEMMA RebalanceKeeps ==
    ASSUME TypeOK, ContentInv, OffsetInv, Rebalance
    PROVE  TypeOK' /\ ContentInv' /\ OffsetInv'
  <1>1. /\ \A p \in Parts : stage[p] # "batch" /\ dirty'[p] = {}
        /\ owner' \in [Parts -> Pods] /\ stage' = [p \in Parts |-> "idle"]
        /\ mark' = committed /\ checkpoint' = metadata /\ events' = [w \in Pods |-> NoEvents]
        /\ dirty' \in [Parts -> SUBSET [Triggers -> Nat]]
        /\ UNCHANGED <<log, committed, metadata, batch, running, actions, unsure, rolledBack,
                       commitErrors, crashes, txnErrors>>
    BY DEF Rebalance, bus, faults
  <1>2. /\ first' = [p \in Parts |-> committed[p] = NoOffset /\ ~oldest] /\ oldest' = oldest
    BY DEF Rebalance
  <1>3. pos' = [p \in Parts |->
                 CASE committed[p] # NoOffset -> committed[p]
                   [] committed[p] = NoOffset /\ oldest -> 0
                   [] OTHER -> Len(log[p])]
    BY DEF Rebalance
  <1>4. rebalances' \in Nat
    BY DEF Rebalance, TypeOK
  <1>5. ASSUME NEW p \in Parts
        PROVE  /\ pos'[p] \in Nat /\ pos'[p] <= Len(log[p]) /\ committed[p] <= pos'[p]
               /\ NoOffset <= committed[p] /\ committed[p] \in Int
    <2>1. /\ committed[p] \in Int /\ NoOffset <= committed[p] /\ committed[p] <= Len(log[p])
          /\ Len(log[p]) \in Nat
      <3>1. /\ committed[p] \in Int /\ pos[p] \in Nat /\ Len(log[p]) \in Nat
        BY DEF TypeOK
      <3>2. /\ NoOffset <= committed[p] /\ committed[p] <= pos[p]
            /\ pos[p] <= Len(log[p])
        BY DEF TypeOK
      <3> QED
        BY <3>1, <3>2 DEF NoOffset
    <2>2. CASE committed[p] # NoOffset
      BY <1>3, <2>1, <2>2 DEF NoOffset
    <2>3. CASE committed[p] = NoOffset
      <3>1. pos'[p] = 0 \/ pos'[p] = Len(log[p])
        BY <1>3, <2>3
      <3> QED
        BY <2>1, <2>3, <3>1 DEF NoOffset
    <2> QED
      BY <2>2, <2>3
  <1>6. \A p \in Parts : HeldOf(p)' = {}
    <2> SUFFICES ASSUME NEW p \in Parts PROVE HeldOf(p)' = {}
      OBVIOUS
    <2>1. owner'[p] \in Pods
      BY <1>1
    <2>2. events'[owner'[p]] \in [Triggers -> {{}}]
      BY <1>1, <2>1 DEF NoEvents
    <2> QED
      BY <2>2, NothingHeld DEF HeldOf
  <1>7. \A p \in Parts : batch'[p] = EmptyBatch
    BY <1>1 DEF OffsetInv, Behind
  <1>8. TypeOK'
    <2>1. /\ pos' \in [Parts -> Nat]
          /\ \A p \in Parts : Ordered(p)'
      <3>1. pos' = [p \in Parts |-> pos'[p]]
        BY <1>3
      <3> QED
        BY <1>1, <1>5, <3>1 DEF Ordered
    <2>2. first' \in [Parts -> BOOLEAN] /\ oldest' \in BOOLEAN /\ rolledBack' \in BOOLEAN
      BY <1>1, <1>2 DEF TypeOK
    <2>3. /\ stage' \in [Parts -> {"off", "idle", "first", "batch"}]
          /\ log' \in [Parts -> Seq(Contents \cup Messages)]
          /\ committed' \in [Parts -> Int] /\ mark' \in [Parts -> Int]
          /\ metadata' \in [Parts -> [Triggers -> Nat]]
          /\ checkpoint' \in [Parts -> [Triggers -> Nat]]
          /\ batch' \in [Parts -> Batches] /\ running' \in [Pods -> SUBSET Calls]
          /\ unsure' \subseteq Nat /\ commitErrors' \in Nat
          /\ actions' \in Seq(Calls) /\ crashes' \in Nat /\ txnErrors' \in Nat
      BY <1>1 DEF TypeOK
    <2>4. /\ events' \in [Pods -> [Triggers -> SUBSET Held]]
          /\ \A w \in Pods, t \in Triggers : events'[w][t] = {}
      BY <1>1 DEF NoEvents
    <2> QED
      BY <1>1, <1>4, <2>1, <2>2, <2>3, <2>4 DEF TypeOK, Ordered
  <1>9. ContentInv'
    <2>1. \A q \in Outputs : /\ log'[q] \in Seq(Content(q))
                             /\ \A p \in Parts : batch'[p].out[q] \in Seq(Content(q))
      BY <1>1 DEF ContentInv
    <2> QED
      BY <2>1 DEF ContentInv, Content
  <1>10. OffsetInv'
    <2> SUFFICES ASSUME NEW q \in Parts PROVE Behind(q)'
      BY DEF OffsetInv
    <2>1. first'[q] => committed[q] = NoOffset
      BY <1>2
    <2>2. stage'[q] = "idle" /\ committed' = committed /\ mark' = committed /\ dirty'[q] = {}
      BY <1>1
    <2> QED
      BY <1>5, <1>6, <1>7, <2>1, <2>2, EmptyTypes DEF Behind
  <1> QED
    BY <1>8, <1>9, <1>10

\* An event is published.
LEMMA PublishKeeps ==
    ASSUME TypeOK, ContentInv, OffsetInv, Publish
    PROVE  TypeOK' /\ ContentInv' /\ OffsetInv'
  <1>1. PICK c \in Contents : log' = [log EXCEPT ![Event] = Append(@, c)]
    BY DEF Publish
  <1>2. UNCHANGED <<committed, metadata, session, running, actions, faults, bounds>>
    BY DEF Publish
  <1>3. /\ log' \in [Parts -> Seq(Contents \cup Messages)]
        /\ \A q \in Outputs : log'[q] = log[q]
        /\ \A q \in Parts : Len(log[q]) \in Nat /\ Len(log'[q]) \in Nat /\ Len(log[q]) <= Len(log'[q])
    <2> DEFINE S == Contents \cup Messages
    <2>1. log \in [Parts -> Seq(S)] /\ c \in S
      BY DEF TypeOK
    <2> HIDE DEF S
    <2>2. Append(log[Event], c) \in Seq(S) /\ Len(Append(log[Event], c)) = Len(log[Event]) + 1
      BY <2>1, PartsAre
    <2>3. log' \in [Parts -> Seq(S)]
      BY <1>1, <2>1, <2>2, PartsAre
    <2>4. \A q \in Outputs : log'[q] = log[q]
      BY <1>1, <2>1, PartsAre
    <2>5. \A q \in Parts : Len(log[q]) \in Nat /\ Len(log'[q]) \in Nat
      BY <2>1, <2>3
    <2>6. \A q \in Parts : Len(log[q]) <= Len(log'[q])
      BY <1>1, <2>1, <2>2, <2>5
    <2> QED
      BY <2>3, <2>4, <2>5, <2>6 DEF S
  <1>4. TypeOK'
    <2>1. \A p \in Parts : pos'[p] <= Len(log'[p])
      <3>1. \A p \in Parts : pos'[p] = pos[p] /\ pos[p] \in Nat /\ pos[p] <= Len(log[p])
        BY <1>2 DEF TypeOK, session
      <3> QED
        BY <1>3, <3>1
    <2>2. first' \in [Parts -> BOOLEAN] /\ oldest' \in BOOLEAN /\ rolledBack' \in BOOLEAN
      BY <1>2 DEF TypeOK, session, faults, bounds
    <2> QED
      BY <1>2, <1>3, <2>1, <2>2 DEF TypeOK, session, marks, faults, bounds
  <1>5. ContentInv'
    <2>1. \A q \in Outputs : /\ log'[q] \in Seq(Content(q))
                             /\ \A p \in Parts : batch'[p].out[q] \in Seq(Content(q))
      BY <1>2, <1>3 DEF ContentInv, session
    <2> QED
      BY <2>1 DEF ContentInv, Content
  <1>6. OffsetInv'
    <2>1. UNCHANGED <<committed, owner, stage, pos, mark, dirty, first, batch, events>>
      BY <1>2 DEF session, marks
    <2> QED
      BY <2>1 DEF OffsetInv, Behind, HeldOf, KeptOf
  <1> QED
    BY <1>4, <1>5, <1>6

\* An action left for after the commit runs.
LEMMA RunKeeps ==
    ASSUME TypeOK, ContentInv, OffsetInv, NEW w \in Pods, RunAction(w)
    PROVE  TypeOK' /\ ContentInv' /\ OffsetInv'
  <1>1. PICK call \in running[w] : /\ actions' = Append(actions, call)
                                   /\ running' = [running EXCEPT ![w] = @ \ {call}]
    BY DEF RunAction
  <1>2. UNCHANGED <<bus, session, faults, bounds>>
    BY DEF RunAction
  <1>3. running' \in [Pods -> SUBSET Calls] /\ actions' \in Seq(Calls)
    BY <1>1 DEF TypeOK
  <1>4. TypeOK'
    <2>1. first' \in [Parts -> BOOLEAN] /\ oldest' \in BOOLEAN /\ rolledBack' \in BOOLEAN
      BY <1>2 DEF TypeOK, session, faults, bounds
    <2> QED
      BY <1>2, <1>3, <2>1 DEF TypeOK, bus, session, marks, faults, bounds
  <1>5. ContentInv'
    BY <1>2 DEF ContentInv, Content, bus, session
  <1>6. OffsetInv'
    BY <1>2 DEF OffsetInv, Behind, HeldOf, KeptOf, bus, session, marks
  <1> QED
    BY <1>4, <1>5, <1>6

\* The first session.
LEMMA InitKeeps ==
    ASSUME Init
    PROVE  TypeOK /\ ContentInv /\ OffsetInv
  <1>1. TypeOK
    <2>1. first \in [Parts -> BOOLEAN] /\ oldest \in BOOLEAN /\ rolledBack \in BOOLEAN
      BY KafkaAssumption DEF Init
    <2>2. /\ \A p \in Parts : pos[p] = 0 /\ mark[p] = NoOffset /\ committed[p] = NoOffset
          /\ \A p \in Parts : log[p] = <<>>
      BY DEF Init
    <2>3. /\ log \in [Parts -> Seq(Contents \cup Messages)]
          /\ \A p \in Parts : pos[p] <= Len(log[p])
      BY <2>2 DEF Init
    <2>4. /\ events \in [Pods -> [Triggers -> SUBSET Held]]
          /\ \A w \in Pods, t \in Triggers : events[w][t] = {}
      BY DEF Init, NoEvents
    <2>5. committed \in [Parts -> Int] /\ mark \in [Parts -> Int] /\ pos \in [Parts -> Nat]
      BY DEF Init, NoOffset
    <2>6. \A p \in Parts : Ordered(p)
      BY <2>2, <2>3 DEF NoOffset, Ordered
    <2>7. /\ owner \in [Parts -> Pods] /\ stage \in [Parts -> {"off", "idle", "first", "batch"}]
          /\ metadata \in [Parts -> [Triggers -> Nat]]
          /\ checkpoint \in [Parts -> [Triggers -> Nat]]
          /\ batch \in [Parts -> Batches]
          /\ running \in [Pods -> SUBSET Calls] /\ actions \in Seq(Calls)
          /\ dirty \in [Parts -> SUBSET [Triggers -> Nat]] /\ unsure \subseteq Nat
          /\ crashes \in Nat /\ rebalances \in Nat /\ txnErrors \in Nat /\ commitErrors \in Nat
      BY EmptyTypes DEF Init
    <2> QED
      BY <2>1, <2>3, <2>4, <2>5, <2>6, <2>7 DEF TypeOK, Ordered
  <1>2. ContentInv
    <2>1. \A q \in Outputs, p \in Parts : batch[p].out[q] \in Seq(Content(q))
      BY EmptyTypes DEF Init
    <2>2. \A q \in Outputs : log[q] = NoMessages[q]
      BY PartsAre DEF Init, NoMessages
    <2>3. \A q \in Outputs : log[q] \in Seq(Content(q))
      BY <2>2, EmptyTypes
    <2> QED
      BY <2>1, <2>3 DEF ContentInv
  <1>3. OffsetInv
    <2> SUFFICES ASSUME NEW p \in Parts PROVE Behind(p)
      BY DEF OffsetInv
    <2>1. HeldOf(p) = {}
      <3>1. events[owner[p]] \in [Triggers -> {{}}]
        BY DEF Init, NoEvents
      <3> QED
        BY <3>1, NothingHeld DEF HeldOf
    <2>2. /\ stage[p] = "idle" /\ committed[p] = NoOffset /\ batch[p] = EmptyBatch /\ pos[p] = 0
          /\ mark[p] = NoOffset /\ dirty[p] = {}
      BY DEF Init
    <2> QED
      BY <2>1, <2>2, EmptyTypes DEF Behind
  <1> QED
    BY <1>1, <1>2, <1>3

\* Every step that does something is one of these.
Step ==
    \/ Publish \/ Rebalance
    \/ \E w \in Pods : Crash(w) \/ RunAction(w)
    \/ \E p \in Parts : \/ Handle(p) \/ MarkFirst(p)
                        \/ CommitOffset(p) \/ CommitTxn(p) \/ BeginTxnFails(p)

\* The next-state relation, by the partition a step is about.
LEMMA NextIsStep == ASSUME Next PROVE Step
  BY PartsAre DEF Next, Step, Handle

\* All of it, in every step.
LEMMA BaseStep ==
    ASSUME TypeOK, ContentInv, OffsetInv, [Next]_vars
    PROVE  TypeOK' /\ ContentInv' /\ OffsetInv'
  <1>1. CASE Next
    <2>1. Step
      BY <1>1, NextIsStep
    <2> QED
      BY <2>1, PublishKeeps, RebalanceKeeps, CrashKeeps, RunKeeps, HandleKeeps, FirstKeeps, CommitKeeps
         DEF Step
  <1>2. CASE UNCHANGED vars
    <2>1. UNCHANGED <<bus, session, running, actions, faults, bounds>>
      BY <1>2 DEF vars
    <2>2. TypeOK'
      <3>1. first' \in [Parts -> BOOLEAN] /\ oldest' \in BOOLEAN /\ rolledBack' \in BOOLEAN
        BY <2>1 DEF TypeOK, session, faults, bounds
      <3> QED
        BY <2>1, <3>1 DEF TypeOK, bus, session, marks, faults, bounds
    <2>3. ContentInv'
      BY <2>1 DEF ContentInv, Content, bus, session
    <2>4. OffsetInv'
      BY <2>1 DEF OffsetInv, Behind, HeldOf, KeptOf, bus, session, marks
    <2> QED
      BY <2>2, <2>3, <2>4
  <1> QED
    BY <1>1, <1>2

\* Offsets stay in order: what is marked or committed was consumed, what was consumed is in the
\* log, and a mark ahead of the committed offset, left by a commit that failed, is one the next
\* commit sends again; and a trigger holds one event per dependency, of its own partitions
\* (KafkaHandler.ConsumeClaim, KafkaTransaction.Commit and KafkaTriggerConnection.Update).
THEOREM TypeCorrect == Spec => []TypeOK
  <1> DEFINE Inv == TypeOK /\ ContentInv /\ OffsetInv
  <1>1. Init => Inv
    BY InitKeeps
  <1>2. Inv /\ [Next]_vars => Inv'
    BY BaseStep
  <1>3. Inv => TypeOK
    OBVIOUS
  <1> QED
    BY <1>1, <1>2, <1>3, PTL DEF Spec

-----------------------------------------------------------------------------
(* The action topic                                                        *)

\* What is known of the action topic.
ActionInv == CollectInv /\ RunningInv /\ RanInv

\* The action topic only grows.
Grows == /\ Len(log[Action]) <= Len(log'[Action])
         /\ \A i \in 1 .. Len(log[Action]) : log'[Action][i] = log[Action][i]

\* Transactions append to it, and nothing else changes it.
LEMMA LogGrows ==
    ASSUME TypeOK, ContentInv, [Next]_vars
    PROVE  Grows
  <1>0. log \in [Parts -> Seq(Contents \cup Messages)] /\ Len(log[Action]) \in Nat
    BY PartsAre DEF TypeOK
  <1>1. CASE log' = log
    BY <1>0, <1>1 DEF Grows
  <1>2. CASE Publish
    <2>1. log'[Action] = log[Action]
      BY <1>0, <1>2, PartsAre DEF Publish
    <2> QED
      BY <1>0, <2>1 DEF Grows
  <1>3. ASSUME NEW p \in Parts, CommitTxn(p) PROVE Grows
    <2>1. log'[Action] = log[Action] \o batch[p].out[Action]
      BY <1>3, PartsAre DEF CommitTxn
    <2>2. log[Action] \in Seq(Content(Action)) /\ batch[p].out[Action] \in Seq(Content(Action))
      BY PartsAre DEF ContentInv
    <2> DEFINE S == Content(Action)
               s == log[Action]
               t == batch[p].out[Action]
    <2>3. s \in Seq(S) /\ t \in Seq(S) /\ log'[Action] = s \o t
      BY <2>1, <2>2
    <2> HIDE DEF S, s, t
    <2>4. Len(s) <= Len(s \o t) /\ \A i \in 1 .. Len(s) : (s \o t)[i] = s[i]
      BY <2>3, Appended
    <2> QED
      BY <2>3, <2>4 DEF Grows, s
  <1> QED
    BY <1>1, <1>2, <1>3
    DEF Next, vars, bus, Rebalance, HandleEvent, HandleAction, Crash, RunAction, SkipTrigger,
        HandleTrigger, Collect, MarkFirst, CommitOffset, BeginTxnFails

\* Calls stay made for their message.
LEMMA GenuineStays ==
    ASSUME TypeOK, Grows, NEW c \in Calls, Genuine(c)
    PROVE  c.offset < Len(log'[Action]) /\ c.trigger = log'[Action][c.offset + 1].key
  <1>1. c.offset \in Nat /\ Len(log[Action]) \in Nat
    BY PartsAre DEF Calls, TypeOK
  <1>2. c.offset + 1 \in 1 .. Len(log[Action])
    BY <1>1 DEF Genuine
  <1> QED
    BY <1>1, <1>2 DEF Genuine, Grows

\* Types of the calls.
LEMMA CallTypes ==
    ASSUME TypeOK
    PROVE  /\ batch[Action].fns \in SUBSET Calls /\ \A w \in Pods : running[w] \in SUBSET Calls
           /\ Len(actions) \in Nat /\ \A i \in 1 .. Len(actions) : actions[i] \in Calls
           /\ \A c \in Calls : c.offset \in Nat /\ c.trigger \in Triggers
           /\ committed[Action] \in Int /\ pos[Action] \in Nat /\ mark[Action] \in Int
           /\ NoOffset <= mark[Action] /\ mark[Action] <= pos[Action]
           /\ committed[Action] <= pos[Action] /\ pos[Action] <= Len(log[Action])
           /\ Len(log[Action]) \in Nat
  <1>1. /\ batch[Action].fns \in SUBSET Calls /\ \A w \in Pods : running[w] \in SUBSET Calls
        /\ Len(actions) \in Nat /\ \A i \in 1 .. Len(actions) : actions[i] \in Calls
    BY PartsAre DEF TypeOK, Batches
  <1>2. \A c \in Calls : c.offset \in Nat /\ c.trigger \in Triggers
    BY DEF Calls
  <1>3. /\ committed[Action] \in Int /\ pos[Action] \in Nat /\ mark[Action] \in Int
        /\ NoOffset <= mark[Action] /\ mark[Action] <= pos[Action]
        /\ committed[Action] <= pos[Action] /\ pos[Action] <= Len(log[Action])
        /\ Len(log[Action]) \in Nat
    BY PartsAre DEF TypeOK
  <1> QED
    BY <1>1, <1>2, <1>3

\* What was released stays so.
LEMMA ReleasedStays ==
    ASSUME TypeOK, NEW c \in Calls, Released(c), committed'[Action] \in Int,
           committed[Action] <= committed'[Action], unsure \subseteq unsure'
    PROVE  c.offset < committed'[Action] \/ c.offset \in unsure'
  BY CallTypes DEF Released

\* Steps that neither handle nor commit messages of the action topic: at most they forget what
\* was collected or left to run, or commit what was marked before.
Elsewhere ==
    /\ committed'[Action] \in Int /\ committed[Action] <= committed'[Action]
    /\ actions' = actions /\ unsure' = unsure
    /\ \A w \in Pods : running'[w] \in SUBSET running[w]
    /\ \A p \in Parts \ {Action} : batch'[p].fns = {}
    /\ dirty'[Action] # {} => committed'[Action] <= mark'[Action]
    /\ \/ /\ batch'[Action] = batch[Action] /\ stage'[Action] = stage[Action]
          /\ pos'[Action] = pos[Action] /\ mark'[Action] = mark[Action]
          /\ committed'[Action] \in {committed[Action], mark[Action]}
       \/ batch'[Action] = EmptyBatch /\ stage'[Action] # "batch"

\* Such steps change nothing that is known of the action topic.
LEMMA ElsewhereKeeps ==
    ASSUME TypeOK, ActionInv, Grows, Elsewhere
    PROVE  ActionInv'
  <1>1. CollectInv'
    <2>1. CASE batch'[Action] = EmptyBatch /\ stage'[Action] # "batch"
      BY <2>1, EmptyTypes DEF CollectInv, Elsewhere
    <2>2. CASE /\ batch'[Action] = batch[Action] /\ stage'[Action] = stage[Action]
               /\ pos'[Action] = pos[Action] /\ mark'[Action] = mark[Action]
               /\ committed'[Action] \in {committed[Action], mark[Action]}
      <3>1. \A c \in batch[Action].fns :
               c.offset < Len(log'[Action]) /\ c.trigger = log'[Action][c.offset + 1].key
        BY CallTypes, GenuineStays DEF ActionInv, CollectInv
      <3>2. /\ batch[Action].out = NoMessages
            /\ stage[Action] = "batch" => batch[Action].offset = pos[Action] /\ mark[Action] < pos[Action]
            /\ \A c \in batch[Action].fns : /\ committed[Action] <= c.offset /\ mark[Action] <= c.offset
                                            /\ c.offset < pos[Action] /\ ~AtLeastOnce[c.trigger]
            /\ \A c, d \in batch[Action].fns : c.offset = d.offset => c = d
        BY DEF ActionInv, CollectInv
      <3> QED
        BY <2>2, <3>1, <3>2 DEF CollectInv, Genuine, Elsewhere
    <2> QED
      BY <2>1, <2>2 DEF Elsewhere
  <1>2. RunningInv'
    <2>1. \A w \in Pods : \A c \in running[w] :
             c.offset < Len(log'[Action]) /\ c.trigger = log'[Action][c.offset + 1].key
      BY CallTypes, GenuineStays DEF ActionInv, RunningInv
    <2>2. /\ committed'[Action] \in Int /\ committed[Action] <= committed'[Action] /\ unsure' = unsure
          /\ \A w \in Pods : running'[w] \in SUBSET running[w]
      BY DEF Elsewhere
    <2>3. /\ \A w \in Pods : \A c \in running[w] : Released(c) /\ ~AtLeastOnce[c.trigger]
          /\ \A w, v \in Pods : \A c \in running[w], d \in running[v] :
                c.offset = d.offset => (w = v /\ c = d) \/ c.offset \in unsure
      BY DEF ActionInv, RunningInv
    <2>4. \A w \in Pods : \A c \in running'[w] : Genuine(c)'
      BY <2>1, <2>2 DEF Genuine
    <2>5. /\ \A w \in Pods : \A c \in running'[w] : Released(c)' /\ ~AtLeastOnce[c.trigger]
          /\ \A w, v \in Pods : \A c \in running'[w], d \in running'[v] :
                c.offset = d.offset => (w = v /\ c = d) \/ c.offset \in unsure'
      <3>1. \A w \in Pods : \A c \in running'[w] : c \in running[w] /\ c \in Calls
        BY <2>2, CallTypes
      <3>2. ASSUME NEW w \in Pods, NEW c \in running'[w]
            PROVE  Released(c)' /\ ~AtLeastOnce[c.trigger]
        <4>1. c \in Calls /\ Released(c) /\ ~AtLeastOnce[c.trigger]
          BY <2>3, <3>1
        <4> QED
          BY <2>2, <4>1, ReleasedStays DEF Released
      <3>3. ASSUME NEW w \in Pods, NEW v \in Pods, NEW c \in running'[w],
                   NEW d \in running'[v], c.offset = d.offset
            PROVE  (w = v /\ c = d) \/ c.offset \in unsure'
        BY <2>2, <2>3, <3>1, <3>3
      <3> QED
        BY <3>2, <3>3
    <2> QED
      BY <2>4, <2>5 DEF RunningInv
  <1>3. RanInv'
    <2>1. \A i \in 1 .. Len(actions) :
             /\ actions[i].offset < Len(log'[Action])
             /\ actions[i].trigger = log'[Action][actions[i].offset + 1].key
      BY CallTypes, GenuineStays DEF ActionInv, RanInv
    <2>2. /\ committed'[Action] \in Int /\ committed[Action] <= committed'[Action]
          /\ actions' = actions /\ unsure' = unsure
          /\ \A w \in Pods : running'[w] \in SUBSET running[w]
      BY DEF Elsewhere
    <2>3. \A i \in 1 .. Len(actions') : Genuine(actions[i])'
      BY <2>1, <2>2 DEF Genuine
    <2>4. \A i \in 1 .. Len(actions) : ~AtLeastOnce[actions[i].trigger] =>
             /\ Released(actions[i])
             /\ \A w \in Pods : \A c \in running[w] :
                   c.offset = actions[i].offset => c.offset \in unsure
      BY DEF ActionInv, RanInv
    <2>5. ASSUME NEW i \in 1 .. Len(actions), ~AtLeastOnce[actions[i].trigger]
          PROVE  actions[i].offset < committed'[Action] \/ actions[i].offset \in unsure'
      <3>1. actions[i] \in Calls /\ Released(actions[i])
        BY <2>4, <2>5, CallTypes
      <3> QED
        BY <2>2, <3>1, ReleasedStays
    <2>6. \A i \in 1 .. Len(actions') : ~AtLeastOnce[actions'[i].trigger] =>
             /\ actions'[i].offset < committed'[Action] \/ actions'[i].offset \in unsure'
             /\ \A w \in Pods : \A c \in running'[w] :
                   c.offset = actions'[i].offset => c.offset \in unsure'
      BY <2>2, <2>4, <2>5
    <2>7. ActionAtMostOnce'
      BY <2>2 DEF ActionInv, RanInv, ActionAtMostOnce
    <2> QED
      BY <2>3, <2>6, <2>7 DEF RanInv, Released
  <1> QED
    BY <1>1, <1>2, <1>3 DEF ActionInv

\* A call that was not made, or was released without the commit, can be made.
LEMMA CallOnce ==
    ASSUME TypeOK, RanInv, NEW call \in Calls, Genuine(call),
           \A i \in 1 .. Len(actions) :
               ~AtLeastOnce[actions[i].trigger] /\ actions[i].offset = call.offset
               => call.offset \in unsure,
           actions' = Append(actions, call), unsure' = unsure
    PROVE  /\ Len(actions') = Len(actions) + 1 /\ Len(actions) \in Nat
           /\ \A i \in 1 .. Len(actions) : actions'[i] = actions[i]
           /\ actions'[Len(actions) + 1] = call
           /\ ActionAtMostOnce'
  <1>1. /\ Len(actions') = Len(actions) + 1 /\ Len(actions) \in Nat
        /\ \A i \in 1 .. Len(actions) : actions'[i] = actions[i]
        /\ actions'[Len(actions) + 1] = call
    BY DEF TypeOK
  <1>2. ASSUME NEW i \in 1 .. Len(actions), actions[i].offset = call.offset
        PROVE  actions[i].trigger = call.trigger
    BY <1>2 DEF RanInv, Genuine
  <1>3. ASSUME NEW i \in 1 .. Len(actions'), NEW j \in 1 .. Len(actions'), i # j,
               ~AtLeastOnce[actions'[i].trigger], actions'[i].offset = actions'[j].offset
        PROVE  actions'[i].offset \in unsure
    <2>1. CASE i \in 1 .. Len(actions) /\ j \in 1 .. Len(actions)
      BY <1>1, <1>3, <2>1 DEF RanInv, ActionAtMostOnce
    <2>2. CASE i \in 1 .. Len(actions) /\ j = Len(actions) + 1
      BY <1>1, <1>3, <2>2
    <2>3. CASE i = Len(actions) + 1 /\ j \in 1 .. Len(actions)
      <3>1. actions[j].offset = call.offset /\ ~AtLeastOnce[call.trigger]
        BY <1>1, <1>3, <2>3
      <3>2. ~AtLeastOnce[actions[j].trigger]
        BY <1>2, <2>3, <3>1
      <3> QED
        BY <1>1, <2>3, <3>1, <3>2
    <2> QED
      BY <1>1, <1>3, <2>1, <2>2, <2>3
  <1> QED
    BY <1>1, <1>3 DEF ActionAtMostOnce

\* go fn(): a call left for after the commit is made.
LEMMA RunOnce ==
    ASSUME TypeOK, ActionInv, Grows, NEW w \in Pods, RunAction(w)
    PROVE  ActionInv'
  <1>1. PICK call \in running[w] : /\ actions' = Append(actions, call)
                                   /\ running' = [running EXCEPT ![w] = @ \ {call}]
    BY DEF RunAction
  <1>2. UNCHANGED <<log, committed, stage, pos, mark, dirty, batch, unsure>>
    BY DEF RunAction, bus, session, marks, faults
  <1>3. /\ call \in Calls /\ Genuine(call) /\ ~AtLeastOnce[call.trigger]
        /\ Released(call)
    BY CallTypes DEF ActionInv, RunningInv
  <1>4. /\ Len(actions') = Len(actions) + 1 /\ Len(actions) \in Nat
        /\ \A i \in 1 .. Len(actions) : actions'[i] = actions[i]
        /\ actions'[Len(actions) + 1] = call
        /\ ActionAtMostOnce'
    <2>1. \A i \in 1 .. Len(actions) :
             ~AtLeastOnce[actions[i].trigger] /\ actions[i].offset = call.offset
             => call.offset \in unsure
      BY DEF ActionInv, RanInv
    <2> QED
      BY <1>1, <1>2, <1>3, <2>1, CallOnce DEF ActionInv
  <1>5. /\ \A v \in Pods : running'[v] \in SUBSET running[v]
        /\ \A v \in Pods : \A c \in running'[v] : c.offset = call.offset => c.offset \in unsure
    <2>1. \A v \in Pods : running'[v] = IF v = w THEN running[v] \ {call} ELSE running[v]
      BY <1>1 DEF TypeOK
    <2>2. \A v \in Pods : \A c \in running[v] :
             c.offset = call.offset => (v = w /\ c = call) \/ c.offset \in unsure
      BY DEF ActionInv, RunningInv
    <2> QED
      BY <2>1, <2>2
  <1>6. CollectInv'
    BY <1>2 DEF ActionInv, CollectInv, Genuine
  <1>7. RunningInv'
    <2>1. /\ \A v \in Pods : \A c \in running[v] :
                Released(c) /\ ~AtLeastOnce[c.trigger] /\ Genuine(c)
          /\ \A u, v \in Pods : \A c \in running[u], d \in running[v] :
                c.offset = d.offset => (u = v /\ c = d) \/ c.offset \in unsure
      BY DEF ActionInv, RunningInv
    <2>2. \A v \in Pods : \A c \in running'[v] : Genuine(c)' /\ Released(c)'
      BY <1>2, <1>5, <2>1 DEF Genuine, Released
    <2>3. /\ \A v \in Pods : \A c \in running'[v] : ~AtLeastOnce[c.trigger]
          /\ \A u, v \in Pods : \A c \in running'[u], d \in running'[v] :
                c.offset = d.offset => (u = v /\ c = d) \/ c.offset \in unsure'
      BY <1>2, <1>5, <2>1
    <2> QED
      BY <2>2, <2>3 DEF RunningInv
  <1>8. RanInv'
    <2>1. ASSUME NEW i \in 1 .. Len(actions')
          PROVE  /\ actions'[i].offset < Len(log[Action])
                 /\ actions'[i].trigger = log[Action][actions'[i].offset + 1].key
                 /\ ~AtLeastOnce[actions'[i].trigger] =>
                       /\ actions'[i].offset < committed[Action] \/ actions'[i].offset \in unsure
                       /\ \A v \in Pods : \A c \in running'[v] :
                             c.offset = actions'[i].offset => c.offset \in unsure
      <3>1. CASE i \in 1 .. Len(actions)
        BY <1>4, <1>5, <3>1 DEF ActionInv, RanInv, Genuine, Released
      <3>2. CASE i = Len(actions) + 1
        BY <1>3, <1>4, <1>5, <3>2 DEF Genuine, Released
      <3> QED
        BY <1>4, <3>1, <3>2
    <2> QED
      BY <1>2, <1>4, <2>1 DEF RanInv, Genuine, Released
  <1> QED
    BY <1>6, <1>7, <1>8 DEF ActionInv

\* KafkaSensor.Action: the call is made at once, or left for after the commit of an offset that
\* is not committed yet.
LEMMA ActionOnce ==
    ASSUME TypeOK, ContentInv, OffsetInv, ActionInv, Grows, HandleAction
    PROVE  ActionInv'
  <1> DEFINE call == ActionCall(Action)
  <1>1. /\ Available(Action) /\ call \in Calls /\ call.offset = pos[Action]
        /\ call.trigger = log[Action][pos[Action] + 1].key
        /\ UNCHANGED <<log, running>>
    BY ActionFields
  <1>2. PICK fns \in SUBSET {call} :
           /\ Collect(Action, batch[Action].out, pos[Action] + 1, fns)
           /\ AtLeastOnce[call.trigger] => fns = {} /\ actions' = Append(actions, call)
           /\ ~AtLeastOnce[call.trigger] => fns = {call} /\ actions' = actions
    BY ActionFields
  <1> HIDE DEF call
  <1>3. /\ committed[Action] \in Int /\ pos[Action] \in Nat /\ mark[Action] \in Int
        /\ mark[Action] <= pos[Action]
        /\ committed[Action] <= pos[Action] /\ pos[Action] < Len(log[Action])
        /\ batch[Action].out \in [Outputs -> Seq(Messages)]
        /\ fns \in SUBSET Calls
    BY <1>1, CallTypes, PartsAre DEF Available, Waiting, TypeOK, Batches
  <1>0. /\ Action \in Parts /\ pos[Action] + 1 \in Nat
        /\ batch[Action].out \in [Outputs -> Seq(Messages)] /\ fns \in SUBSET Calls
        /\ Collect(Action, batch[Action].out, pos[Action] + 1, fns)
    BY <1>1, <1>2, <1>3, PartsAre
  <1>4. /\ stage'[Action] = "batch" /\ pos'[Action] = pos[Action] + 1
        /\ batch'[Action].out = batch[Action].out /\ batch'[Action].offset = pos[Action] + 1
        /\ batch'[Action].fns = batch[Action].fns \cup fns
        /\ \A p \in Parts \ {Action} : batch'[p] = batch[p]
    BY <1>0, CollectFields
  <1>5. UNCHANGED <<committed, mark, dirty, unsure>>
    BY <1>0, CollectKeeps DEF faults
  <1>8. Genuine(call)
    BY <1>1, <1>3 DEF Genuine
  <1>9. CollectInv'
    <2>1. /\ batch[Action].out = NoMessages
          /\ dirty[Action] # {} => committed[Action] <= mark[Action]
          /\ \A p \in Parts \ {Action} : batch[p].fns = {}
          /\ \A c \in batch[Action].fns : /\ committed[Action] <= c.offset /\ mark[Action] <= c.offset
                                          /\ c.offset < pos[Action]
                                          /\ ~AtLeastOnce[c.trigger] /\ Genuine(c)
          /\ \A c, d \in batch[Action].fns : c.offset = d.offset => c = d
      BY DEF ActionInv, CollectInv
    <2>2. batch'[Action].offset = pos'[Action] /\ mark'[Action] < pos'[Action]
      BY <1>3, <1>4, <1>5
    <2>3. ASSUME NEW c \in batch'[Action].fns
          PROVE  /\ committed'[Action] <= c.offset /\ mark'[Action] <= c.offset
                 /\ c.offset < pos'[Action]
      <3>1. CASE c \in batch[Action].fns
        <4>1. /\ c.offset \in Nat /\ committed[Action] <= c.offset /\ mark[Action] <= c.offset
              /\ c.offset < pos[Action]
          BY <2>1, <3>1, CallTypes
        <4> QED
          BY <1>3, <1>4, <1>5, <4>1
      <3>2. CASE c \in fns
        <4>1. c = call
          BY <3>2
        <4> QED
          BY <1>1, <1>3, <1>4, <1>5, <4>1
      <3> QED
        BY <1>4, <3>1, <3>2
    <2>4. ASSUME NEW c \in batch'[Action].fns
          PROVE  ~AtLeastOnce[c.trigger] /\ Genuine(c)'
      <3>1. c \in fns => c = call /\ ~AtLeastOnce[c.trigger]
        BY <1>2
      <3>2. ~AtLeastOnce[c.trigger] /\ Genuine(c)
        BY <1>4, <1>8, <2>1, <3>1
      <3> QED
        BY <1>1, <3>2 DEF Genuine
    <2>5. ASSUME NEW c \in batch'[Action].fns, NEW d \in batch'[Action].fns, c.offset = d.offset
          PROVE  c = d
      <3>1. \A b \in fns : b = call /\ b.offset = pos[Action]
        BY <1>1
      <3>2. \A b \in batch[Action].fns : b.offset # pos[Action]
        BY <1>3, <2>1, CallTypes
      <3> QED
        BY <1>4, <2>1, <2>5, <3>1, <3>2
    <2> QED
      BY <1>4, <1>5, <2>1, <2>2, <2>3, <2>4, <2>5 DEF CollectInv
  <1>10. RunningInv'
    BY <1>1, <1>5 DEF ActionInv, RunningInv, Released, Genuine
  <1>11. RanInv'
    <2>1. /\ \A i \in 1 .. Len(actions) : Genuine(actions[i])
          /\ \A i \in 1 .. Len(actions) : ~AtLeastOnce[actions[i].trigger] =>
                /\ Released(actions[i])
                /\ \A w \in Pods : \A c \in running[w] :
                      c.offset = actions[i].offset => c.offset \in unsure
      BY DEF ActionInv, RanInv
    <2>2. \A i \in 1 .. Len(actions) : actions[i].offset \in Nat
      BY CallTypes
    <2>3. CASE ~AtLeastOnce[call.trigger]
      <3>1. actions' = actions
        BY <1>2, <2>3
      <3> QED
        BY <1>1, <1>5, <3>1 DEF ActionInv, RanInv, ActionAtMostOnce, Released, Genuine
    <2>4. CASE AtLeastOnce[call.trigger]
      <3>1. actions' = Append(actions, call)
        BY <1>2, <2>4
      <3>2. ASSUME NEW i \in 1 .. Len(actions), ~AtLeastOnce[actions[i].trigger],
                   actions[i].offset = call.offset
            PROVE  FALSE
        <4>1. actions[i].trigger = call.trigger
          BY <1>8, <2>1, <3>2 DEF Genuine
        <4> QED
          BY <2>4, <3>2, <4>1
      <3>3. /\ Len(actions') = Len(actions) + 1 /\ Len(actions) \in Nat
            /\ \A i \in 1 .. Len(actions) : actions'[i] = actions[i]
            /\ actions'[Len(actions) + 1] = call
            /\ ActionAtMostOnce'
        BY <1>1, <1>5, <1>8, <3>1, <3>2, CallOnce DEF ActionInv
      <3>4. ASSUME NEW i \in 1 .. Len(actions')
            PROVE  /\ Genuine(actions[i])'
                   /\ ~AtLeastOnce[actions'[i].trigger] =>
                         /\ actions'[i].offset < committed'[Action] \/ actions'[i].offset \in unsure'
                         /\ \A w \in Pods : \A c \in running'[w] :
                               c.offset = actions'[i].offset => c.offset \in unsure'
        <4>1. CASE i \in 1 .. Len(actions)
          <5>1. actions'[i] = actions[i] /\ running' = running
            BY <1>1, <3>3, <4>1
          <5>2. Genuine(actions[i])'
            BY <1>1, <2>1, <4>1, <5>1 DEF Genuine
          <5>3. ~AtLeastOnce[actions[i].trigger] =>
                         /\ actions[i].offset < committed[Action] \/ actions[i].offset \in unsure
                         /\ \A w \in Pods : \A c \in running[w] :
                               c.offset = actions[i].offset => c.offset \in unsure
            BY <2>1, <4>1 DEF Released
          <5> QED
            BY <1>5, <5>1, <5>2, <5>3
        <4>2. CASE i = Len(actions) + 1
          <5>1. Genuine(actions[i])'
            BY <1>1, <1>8, <3>3, <4>2 DEF Genuine
          <5> QED
            BY <2>4, <3>3, <4>2, <5>1
        <4> QED
          BY <3>3, <4>1, <4>2
      <3> QED
        BY <3>3, <3>4 DEF RanInv, Released
    <2> QED
      BY <2>3, <2>4
  <1> QED
    BY <1>9, <1>10, <1>11 DEF ActionInv

\* KafkaTransaction.Commit on the action topic: the offset of all that was collected is committed,
\* or the commit failed; either way what was left is run.
LEMMA CommitOnce ==
    ASSUME TypeOK, ContentInv, OffsetInv, ActionInv, Grows, CommitOffset(Action)
    PROVE  ActionInv'
  <1>1. /\ EndBatch(Action) /\ stage[Action] = "batch" /\ log' = log /\ Action \in Parts
    BY PartsAre DEF CommitOffset
  <1>2. /\ stage'[Action] = "idle" /\ batch'[Action] = EmptyBatch
        /\ \A q \in Parts \ {Action} : batch'[q] = batch[q]
        /\ owner[Action] \in Pods
        /\ running'[owner[Action]] = running[owner[Action]] \cup batch[Action].fns
        /\ \A w \in Pods \ {owner[Action]} : running'[w] = running[w]
        /\ actions' = actions /\ pos' = pos
    BY <1>1, EndBatchFields
  <1>3. /\ batch[Action].offset = pos[Action] /\ mark[Action] < pos[Action]
        /\ \A p \in Parts \ {Action} : batch[p].fns = {}
        /\ \A c \in batch[Action].fns : /\ committed[Action] <= c.offset
                                        /\ ~AtLeastOnce[c.trigger] /\ Genuine(c)
        /\ \A c, d \in batch[Action].fns : c.offset = d.offset => c = d
    BY <1>1 DEF ActionInv, CollectInv
  <1>4. /\ committed[Action] \in Int /\ pos[Action] \in Nat /\ mark[Action] \in Int
        /\ committed[Action] <= pos[Action]
    BY CallTypes
  <1>5. /\ committed'[Action] \in Int /\ committed[Action] <= committed'[Action]
        /\ committed'[Action] <= mark'[Action]
    <2>1. checkpoint[Action] \in [Triggers -> Nat] /\ batch[Action].offset \in Nat
      BY <1>1, <1>3, <1>4 DEF TypeOK
    <2>2. SessionCommit(Action, batch[Action].offset, checkpoint[Action])
      BY DEF CommitOffset
    <2>3. mark'[Action] = pos[Action] /\ Flushed(Action, {checkpoint[Action]})
      BY <1>1, <1>3, <1>4, <2>1, <2>2, SessionFields
    <2> QED
      BY <1>4, <2>3 DEF Flushed
  <1>6. CollectInv'
    BY <1>2, <1>3, <1>5, EmptyTypes DEF CollectInv
  <1>7. /\ \A w \in Pods : \A c \in running[w] :
              Released(c) /\ ~AtLeastOnce[c.trigger] /\ Genuine(c)
        /\ \A w, v \in Pods : \A c \in running[w], d \in running[v] :
              c.offset = d.offset => (w = v /\ c = d) \/ c.offset \in unsure
    BY DEF ActionInv, RunningInv
  <1>8. \A w \in Pods : \A c \in running'[w] :
           \/ c \in running[w]
           \/ w = owner[Action] /\ c \in batch[Action].fns
    BY <1>2
  <1>81. /\ unsure \subseteq unsure'
         /\ \A c \in batch[Action].fns : c.offset \in unsure' \/ ~(committed'[Action] <= c.offset)
    BY DEF CommitOffset
  <1>82. \A c \in batch[Action].fns : c.offset < committed'[Action] \/ c.offset \in unsure'
    BY <1>5, <1>81, CallTypes
  <1>83. ASSUME NEW c \in Calls, Released(c), NEW d \in batch[Action].fns, c.offset = d.offset
         PROVE  c.offset \in unsure
    BY <1>3, <1>4, <1>83, CallTypes DEF Released
  <1>9. RunningInv'
    <2>1. ASSUME NEW w \in Pods, NEW c \in running'[w]
          PROVE  Released(c)'
      <3>1. CASE c \in running[w]
        <4>1. c \in Calls /\ Released(c)
          BY <1>7, <3>1, CallTypes
        <4> QED
          BY <1>5, <1>81, <4>1, ReleasedStays DEF Released
      <3>2. CASE c \in batch[Action].fns
        BY <1>82, <3>2 DEF Released
      <3> QED
        BY <1>8, <3>1, <3>2
    <2>2. ASSUME NEW w \in Pods, NEW c \in running'[w]
          PROVE  ~AtLeastOnce[c.trigger] /\ Genuine(c)'
      <3>1. ~AtLeastOnce[c.trigger] /\ Genuine(c)
        BY <1>3, <1>7, <1>8
      <3> QED
        BY <1>1, <3>1 DEF Genuine
    <2>3. ASSUME NEW w \in Pods, NEW v \in Pods, NEW c \in running'[w], NEW d \in running'[v],
                 c.offset = d.offset
          PROVE  (w = v /\ c = d) \/ c.offset \in unsure'
      <3>1. CASE c \in running[w] /\ d \in running[v]
        BY <1>7, <1>81, <2>3, <3>1
      <3>2. CASE /\ w = owner[Action] /\ c \in batch[Action].fns
                 /\ v = owner[Action] /\ d \in batch[Action].fns
        BY <1>3, <2>3, <3>2
      <3>3. CASE c \in running[w] /\ d \in batch[Action].fns
        <4>1. c \in Calls /\ Released(c)
          BY <1>7, <3>3, CallTypes
        <4> QED
          BY <1>81, <1>83, <2>3, <3>3, <4>1
      <3>4. CASE c \in batch[Action].fns /\ d \in running[v]
        <4>1. d \in Calls /\ Released(d)
          BY <1>7, <3>4, CallTypes
        <4> QED
          BY <1>81, <1>83, <2>3, <3>4, <4>1
      <3> QED
        BY <1>8, <3>1, <3>2, <3>3, <3>4
    <2> QED
      BY <2>1, <2>2, <2>3 DEF RunningInv
  <1>10. RanInv'
    <2>1. /\ \A i \in 1 .. Len(actions) : Genuine(actions[i])
          /\ \A i \in 1 .. Len(actions) : ~AtLeastOnce[actions[i].trigger] =>
                /\ Released(actions[i])
                /\ \A w \in Pods : \A c \in running[w] :
                      c.offset = actions[i].offset => c.offset \in unsure
      BY DEF ActionInv, RanInv
    <2>2. \A i \in 1 .. Len(actions') : Genuine(actions[i])'
      BY <1>1, <1>2, <2>1 DEF Genuine
    <2>3. ASSUME NEW i \in 1 .. Len(actions), ~AtLeastOnce[actions[i].trigger]
          PROVE  /\ actions[i].offset < committed'[Action] \/ actions[i].offset \in unsure'
                 /\ \A w \in Pods : \A c \in running'[w] :
                       c.offset = actions[i].offset => c.offset \in unsure'
      <3>1. actions[i] \in Calls /\ Released(actions[i])
        BY <2>1, <2>3, CallTypes
      <3>2. \A c \in batch[Action].fns : c.offset = actions[i].offset => c.offset \in unsure
        BY <1>83, <3>1
      <3>3. actions[i].offset < committed'[Action] \/ actions[i].offset \in unsure'
        BY <1>5, <1>81, <3>1, ReleasedStays
      <3> QED
        BY <1>8, <1>81, <2>1, <2>3, <3>2, <3>3
    <2>4. ActionAtMostOnce'
      BY <1>2, <1>81 DEF ActionInv, RanInv, ActionAtMostOnce
    <2> QED
      BY <1>2, <2>2, <2>3, <2>4 DEF RanInv, Released
  <1> QED
    BY <1>6, <1>9, <1>10 DEF ActionInv

\* The steps that only forget, or commit a mark of the action topic once more: events published,
\* rebalances, crashes, the first marks, and the handlers and the commits of the other topics.
LEMMA ElsewhereSteps ==
    ASSUME TypeOK, ContentInv, OffsetInv, ActionInv,
           \/ Publish \/ Rebalance \/ UNCHANGED vars
           \/ \E w \in Pods : Crash(w)
           \/ \E p \in Parts : MarkFirst(p)
           \/ \E p \in Parts \ {Action} :
                 Handle(p) \/ CommitOffset(p) \/ CommitTxn(p) \/ BeginTxnFails(p)
    PROVE  Elsewhere
  <1>0. /\ Action \in Parts
        /\ \A p \in Parts \ {Action} : batch[p].fns = {}
        /\ committed[Action] \in Int /\ committed[Action] <= committed[Action]
        /\ dirty[Action] # {} => committed[Action] <= mark[Action]
    BY PartsAre, CallTypes DEF ActionInv, CollectInv
  <1>1. CASE Publish \/ UNCHANGED vars
    <2>1. UNCHANGED <<committed, stage, pos, mark, dirty, batch, running, actions, unsure>>
      BY <1>1 DEF Publish, vars, bus, session, marks, faults
    <2> QED
      BY <1>0, <2>1 DEF Elsewhere
  <1>2. CASE Rebalance
    <2>1. /\ UNCHANGED <<committed, batch, running, actions, unsure>> /\ stage'[Action] = "idle"
          /\ dirty'[Action] = {}
      BY <1>0, <1>2 DEF Rebalance, bus, faults
    <2>2. stage[Action] # "batch"
      BY <1>0, <1>2 DEF Rebalance
    <2>3. batch[Action] = EmptyBatch
      BY <1>0, <2>2 DEF OffsetInv, Behind
    <2> QED
      BY <1>0, <2>1, <2>3 DEF Elsewhere
  <1>3. ASSUME NEW w \in Pods, Crash(w) PROVE Elsewhere
    <2>1. UNCHANGED <<committed, pos, mark, dirty, actions, unsure>>
      BY <1>3 DEF Crash, bus, marks, faults
    <2>2. \A v \in Pods : running'[v] \in SUBSET running[v]
      BY <1>3 DEF Crash, TypeOK
    <2>3. /\ stage' = [p \in Parts |-> IF owner[p] = w THEN "off" ELSE stage[p]]
          /\ batch' = [p \in Parts |-> IF owner[p] = w THEN EmptyBatch ELSE batch[p]]
      BY <1>3 DEF Crash
    <2>4. \A p \in Parts \ {Action} : batch'[p].fns = {}
      BY <1>0, <2>3, EmptyTypes
    <2>5. \/ batch'[Action] = batch[Action] /\ stage'[Action] = stage[Action]
          \/ batch'[Action] = EmptyBatch /\ stage'[Action] = "off"
      BY <1>0, <2>3
    <2> QED
      BY <1>0, <2>1, <2>2, <2>4, <2>5 DEF Elsewhere
  <1>4. ASSUME NEW p \in Parts \ {Action}, Handle(p) PROVE Elsewhere
    <2>1. running' = running
      BY <1>4, HandleFields
    <2>2. PICK out \in [Outputs -> Seq(Messages)], offset \in Nat, fns \in SUBSET Calls :
             Collect(p, out, offset, fns) /\ fns = {} /\ actions' = actions
      BY <1>4, HandleFields
    <2>3. /\ batch'[p].fns = batch[p].fns \cup fns
          /\ \A q \in Parts \ {p} :
                stage'[q] = stage[q] /\ pos'[q] = pos[q] /\ batch'[q] = batch[q]
      <3>1. Collect(p, out, offset, fns) /\ p \in Parts
        BY <2>2
      <3> QED
        BY <3>1, CollectFields
    <2>4. \A q \in Parts \ {Action} : batch'[q].fns = {}
      BY <1>0, <2>2, <2>3
    <2>5. UNCHANGED <<committed, mark, dirty, unsure>>
      BY <2>2, CollectKeeps DEF faults
    <2> QED
      BY <1>0, <2>1, <2>2, <2>3, <2>4, <2>5 DEF Elsewhere
  <1>5. ASSUME NEW p \in Parts, NEW offset, NEW meta, p # Action, Marked(Action, p, offset, meta)
        PROVE  /\ committed'[Action] \in Int /\ committed[Action] <= committed'[Action]
               /\ mark'[Action] = mark[Action]
               /\ committed'[Action] \in {committed[Action], mark[Action]}
               /\ dirty'[Action] # {} => committed'[Action] <= mark'[Action]
    <2>1. mark'[Action] = mark[Action] /\ Flushed(Action, dirty[Action])
      BY <1>5 DEF Marked
    <2>2. \/ committed'[Action] = committed[Action] /\ dirty'[Action] = dirty[Action]
          \/ committed'[Action] = mark[Action] /\ dirty[Action] # {}
      BY <2>1 DEF Flushed
    <2> QED
      BY <1>0, <2>1, <2>2, CallTypes
  <1>6. ASSUME NEW p \in Parts \ {Action}, CommitOffset(p) \/ CommitTxn(p) \/ BeginTxnFails(p)
        PROVE  Elsewhere
    <2>1. EndBatch(p)
      BY <1>6 DEF CommitOffset, CommitTxn, BeginTxnFails
    <2>2. /\ batch'[p] = EmptyBatch
          /\ \A q \in Parts \ {p} : stage'[q] = stage[q] /\ batch'[q] = batch[q]
          /\ owner[p] \in Pods
          /\ running'[owner[p]] = running[owner[p]] \cup batch[p].fns
          /\ \A w \in Pods \ {owner[p]} : running'[w] = running[w]
          /\ actions' = actions /\ pos' = pos
      BY <2>1, EndBatchFields
    <2>3. Marked(Action, p, batch[p].offset, checkpoint[p])
      BY <1>0, <1>6, CommitFields
    <2>4. \A w \in Pods : running'[w] \in SUBSET running[w]
      BY <1>0, <2>2
    <2>5. \A q \in Parts \ {Action} : batch'[q].fns = {}
      BY <1>0, <2>2, EmptyTypes
    <2>6. unsure' = unsure
      <3>1. batch[p].fns = {}
        BY <1>0
      <3> QED
        BY <1>6, <3>1 DEF CommitOffset, CommitTxn, BeginTxnFails, faults
    <2> QED
      BY <1>0, <1>5, <2>2, <2>3, <2>4, <2>5, <2>6 DEF Elsewhere
  <1>7. ASSUME NEW p \in Parts, MarkFirst(p) PROVE Elsewhere
    <2>1. /\ \A q \in Parts : Marked(q, p, pos[p], NoCheckpoint)
          /\ first[p] /\ stage[p] # "batch" /\ stage'[p] = "first" /\ pos[p] \in Nat
          /\ \A q \in Parts \ {p} : stage'[q] = stage[q]
          /\ UNCHANGED <<pos, batch, running, actions, unsure>>
      BY <1>7, FirstFields
    <2>2. \A q \in Parts \ {Action} : batch'[q].fns = {}
      BY <1>0, <2>1
    <2>3. \A w \in Pods : running'[w] \in SUBSET running[w]
      BY <2>1
    <2>4. CASE p # Action
      BY <1>0, <1>5, <2>1, <2>2, <2>3, <2>4 DEF Elsewhere
    <2>5. CASE p = Action
      <3>1. /\ batch[Action] = EmptyBatch /\ committed[Action] = NoOffset
            /\ mark[Action] = NoOffset /\ dirty[Action] = {}
        BY <2>1, <2>5 DEF OffsetInv, Behind
      <3>2. \/ mark'[Action] = NoOffset /\ Flushed(Action, {})
            \/ mark'[Action] = pos[Action] /\ Flushed(Action, {NoCheckpoint})
        BY <1>0, <2>1, <2>5, <3>1 DEF Marked
      <3>3. /\ committed'[Action] \in Int /\ committed[Action] <= committed'[Action]
            /\ committed'[Action] <= mark'[Action]
        BY <2>1, <2>5, <3>1, <3>2 DEF Flushed, NoOffset
      <3> QED
        BY <2>1, <2>2, <2>3, <2>5, <3>1, <3>3 DEF Elsewhere
    <2> QED
      BY <2>4, <2>5
  <1> QED
    BY <1>1, <1>2, <1>3, <1>4, <1>6, <1>7

\* Every step is one of these, seen from the action topic.
LEMMA ActionSteps ==
    ASSUME TypeOK, ContentInv, OffsetInv, ActionInv, [Next]_vars
    PROVE  \/ Elsewhere
           \/ HandleAction
           \/ CommitOffset(Action)
           \/ \E w \in Pods : RunAction(w)
  <1>1. CASE UNCHANGED vars
    BY <1>1, ElsewhereSteps
  <1>2. CASE Next
    <2>1. Step
      BY <1>2, NextIsStep
    <2>2. CASE Publish \/ Rebalance \/ (\E w \in Pods : Crash(w)) \/ \E p \in Parts : MarkFirst(p)
      BY <2>2, ElsewhereSteps
    <2>3. CASE \E w \in Pods : RunAction(w)
      BY <2>3
    <2>4. ASSUME NEW p \in Parts, Handle(p) PROVE Elsewhere \/ HandleAction
      <3>1. CASE p = Action
        BY <2>4, <3>1, PartsAre DEF Handle
      <3>2. CASE p # Action
        BY <2>4, <3>2, ElsewhereSteps
      <3> QED
        BY <3>1, <3>2
    <2>5. ASSUME NEW p \in Parts, CommitOffset(p) \/ CommitTxn(p) \/ BeginTxnFails(p)
          PROVE  Elsewhere \/ CommitOffset(Action)
      <3>1. CASE p = Action
        <4>1. batch[Action].out = NoMessages
          BY DEF ActionInv, CollectInv
        <4> QED
          BY <2>5, <3>1, <4>1 DEF CommitTxn, BeginTxnFails
      <3>2. CASE p # Action
        BY <2>5, <3>2, ElsewhereSteps
      <3> QED
        BY <3>1, <3>2
    <2> QED
      BY <2>1, <2>2, <2>3, <2>4, <2>5 DEF Step
  <1> QED
    BY <1>1, <1>2

\* All that is known of the action topic, in every step.
LEMMA ActionStep ==
    ASSUME TypeOK, ContentInv, OffsetInv, ActionInv, [Next]_vars
    PROVE  ActionInv'
  <1>1. Grows
    BY LogGrows
  <1> QED
    BY <1>1, ActionSteps, ElsewhereKeeps, ActionOnce, CommitOnce, RunOnce

\* Nothing was collected, run or passed at first.
LEMMA ActionInit ==
    ASSUME Init
    PROVE  ActionInv /\ PassedInv
  <1>1. /\ batch = [p \in Parts |-> EmptyBatch] /\ stage = [p \in Parts |-> "idle"]
        /\ running = [w \in Pods |-> {}] /\ actions = <<>> /\ pos = [p \in Parts |-> 0]
        /\ Action \in Parts
    BY PartsAre DEF Init
  <1>2. CollectInv
    <2>1. dirty[Action] = {}
      BY <1>1 DEF Init
    <2> QED
      BY <1>1, <2>1, EmptyTypes DEF CollectInv
  <1>3. RunningInv
    BY <1>1 DEF RunningInv
  <1>4. RanInv
    BY <1>1 DEF RanInv, ActionAtMostOnce
  <1>5. first = [p \in Parts |-> ~oldest]
    BY DEF Init
  <1>6. PassedInv
    <2>1. oldest => ~first[Action]
      BY <1>1, <1>5
    <2>2. \A i \in 1 .. pos[Action] : FALSE
      BY <1>1
    <2> QED
      BY <2>1, <2>2 DEF PassedInv
  <1> QED
    BY <1>2, <1>3, <1>4, <1>6 DEF ActionInv

\* The first message is not marked when a new group starts with the oldest.
LEMMA FirstStep ==
    ASSUME TypeOK, ContentInv, OffsetInv, [Next]_vars, NEW a \in Parts, oldest => ~first[a]
    PROVE  (oldest' = oldest) /\ (oldest' => ~first'[a])
  <1>1. CASE UNCHANGED <<first, oldest>>
    BY <1>1
  <1>2. CASE Rebalance
    BY <1>2 DEF Rebalance
  <1>3. ASSUME NEW p \in Parts, Handle(p)
        PROVE  (oldest' = oldest) /\ (oldest' => ~first'[a])
    <2>1. \E out, offset, fns : Collect(p, out, offset, fns)
      BY <1>3, HandleFields
    <2>2. UNCHANGED <<first, oldest>>
      BY <2>1, CollectKeeps DEF bounds
    <2> QED
      BY <2>2
  <1>31. ASSUME NEW p \in Parts, MarkFirst(p)
         PROVE  (oldest' = oldest) /\ (oldest' => ~first'[a])
    <2>1. first' = [first EXCEPT ![p] = FALSE] /\ oldest' = oldest /\ first \in [Parts -> BOOLEAN]
      BY <1>31 DEF MarkFirst, bounds, TypeOK
    <2> QED
      BY <2>1
  <1>4. CASE UNCHANGED vars
    BY <1>1, <1>4 DEF vars, session, bounds
  <1>5. CASE Next
    <2>1. Step
      BY <1>5, NextIsStep
    <2> QED
      BY <1>1, <1>2, <1>3, <1>31, <2>1
      DEF Step, Publish, Crash, RunAction, CommitOffset, CommitTxn, BeginTxnFails, EndBatch,
          session, bounds
  <1> QED
    BY <1>4, <1>5

\* Consumption goes on, or back to what is committed.
LEMMA PosStep ==
    ASSUME TypeOK, ContentInv, OffsetInv, [Next]_vars, oldest
    PROVE  \/ pos'[Action] <= pos[Action]
           \/ HandleAction /\ pos'[Action] = pos[Action] + 1
  <1>0. /\ Action \in Parts /\ pos[Action] \in Nat /\ committed[Action] \in Int
        /\ committed[Action] <= pos[Action]
    BY PartsAre, CallTypes
  <1>1. CASE UNCHANGED pos
    BY <1>0, <1>1
  <1>2. CASE Rebalance
    <2>1. pos'[Action] = committed[Action] \/ pos'[Action] = 0
      BY <1>0, <1>2 DEF Rebalance
    <2> QED
      BY <1>0, <2>1
  <1>3. ASSUME NEW p \in Parts, Handle(p)
        PROVE  \/ pos'[Action] <= pos[Action]
               \/ HandleAction /\ pos'[Action] = pos[Action] + 1
    <2>2. PICK out \in [Outputs -> Seq(Messages)], offset \in Nat, fns \in SUBSET Calls :
             Collect(p, out, offset, fns)
      BY <1>3, HandleFields
    <2>3. pos'[p] = pos[p] + 1 /\ \A q \in Parts \ {p} : pos'[q] = pos[q]
      BY <2>2, CollectFields
    <2>4. p = Action => HandleAction
      BY <1>3, PartsAre DEF Handle
    <2> QED
      BY <1>0, <2>3, <2>4
  <1>4. CASE UNCHANGED vars
    BY <1>1, <1>4 DEF vars, session
  <1>5. CASE Next
    <2>1. Step
      BY <1>5, NextIsStep
    <2> QED
      BY <1>1, <1>2, <1>3, <2>1
      DEF Step, Publish, Crash, RunAction, MarkFirst, CommitOffset, CommitTxn, BeginTxnFails, EndBatch,
          session
  <1> QED
    BY <1>4, <1>5

\* What is passed has run, in every step.
LEMMA PassedStep ==
    ASSUME TypeOK, ContentInv, OffsetInv, ActionInv, PassedInv, [Next]_vars
    PROVE  PassedInv'
  <1>1. (oldest' = oldest) /\ (oldest' => ~first'[Action])
    BY FirstStep, PartsAre DEF PassedInv
  <1>2. /\ Len(actions) \in Nat /\ Len(actions') \in Nat /\ Len(actions) <= Len(actions')
        /\ \A k \in 1 .. Len(actions) : actions'[k] = actions[k]
    <2>1. CASE actions' = actions
      BY <2>1, CallTypes
    <2>2. ASSUME NEW c, actions' = Append(actions, c)
          PROVE  /\ Len(actions) \in Nat /\ Len(actions') \in Nat /\ Len(actions) <= Len(actions')
                 /\ \A k \in 1 .. Len(actions) : actions'[k] = actions[k]
      BY <2>2 DEF TypeOK
    <2>3. actions' = actions \/ \E c : actions' = Append(actions, c)
      <3>1. CASE HandleAction
        BY <3>1, ActionFields
      <3> QED
        BY <3>1, ActionSteps DEF Elsewhere, RunAction, CommitOffset, EndBatch
    <2> QED
      BY <2>1, <2>2, <2>3
  <1>3. ASSUME oldest, NEW i \in 1 .. pos'[Action], AtLeastOnce[log'[Action][i].key]
        PROVE  \E k \in 1 .. Len(actions') : actions'[k].offset = i - 1
    <2>1. /\ pos[Action] \in Nat /\ Len(log[Action]) \in Nat /\ pos[Action] <= Len(log[Action])
      BY CallTypes
    <2>2. Grows
      BY LogGrows
    <2>3. CASE i \in 1 .. pos[Action]
      <3>1. log'[Action][i] = log[Action][i]
        BY <2>1, <2>2, <2>3 DEF Grows
      <3>2. PICK k \in 1 .. Len(actions) : actions[k].offset = i - 1
        BY <1>3, <2>3, <3>1 DEF PassedInv
      <3> QED
        BY <1>2, <3>2
    <2>4. CASE i \notin 1 .. pos[Action]
      <3>1. HandleAction /\ pos'[Action] = pos[Action] + 1
        <4>1. TypeOK'
          BY BaseStep
        <4>2. pos'[Action] \in Nat
          BY <4>1, PartsAre DEF TypeOK
        <4>3. ~(pos'[Action] <= pos[Action])
          BY <2>1, <2>4, <4>2
        <4> QED
          BY <1>3, <4>3, PosStep
      <3>2. i = pos[Action] + 1
        BY <2>1, <2>4, <3>1
      <3>3. /\ ActionCall(Action).offset = pos[Action] /\ log' = log
            /\ ActionCall(Action).trigger = log[Action][pos[Action] + 1].key
            /\ AtLeastOnce[ActionCall(Action).trigger] =>
                  actions' = Append(actions, ActionCall(Action))
        BY <3>1, ActionFields
      <3>4. actions' = Append(actions, ActionCall(Action))
        BY <1>3, <3>2, <3>3
      <3>5. /\ Len(actions') = Len(actions) + 1
            /\ actions'[Len(actions) + 1] = ActionCall(Action)
        BY <3>4 DEF TypeOK
      <3>6. Len(actions) + 1 \in 1 .. Len(actions')
        BY <1>2, <3>5
      <3> QED
        BY <2>1, <3>2, <3>3, <3>5, <3>6
    <2> QED
      BY <2>3, <2>4
  <1> QED
    BY <1>1, <1>3 DEF PassedInv

-----------------------------------------------------------------------------
(* Events of the trigger topic are used once                               *)

\* The partitioner sends all messages of a trigger to one partition, as a hash of the key does.
OnePartition == \A t \in Triggers : \E p \in TriggerParts : Partitions[t] = {p}

\* No two messages of s have a trigger and the use of an event in common.
Apart(s) == \A i, j \in 1 .. Len(s) :
               i # j /\ s[i].key = s[j].key => s[i].evs \cap s[j].evs = {}

\* The events of s are those at offsets low to high - 1 of the event topic.
Ids(s, low, high) == \A i \in 1 .. Len(s) : \A u \in s[i].evs : low <= u.id /\ u.id < high

\* Messages of one event each, for triggers that need others.
Single(m) == HasAnd[m.key] /\ \E o \in Nat : m.evs = {[dep |-> m.dep, id |-> o]}
Singles(s) == \A i \in 1 .. Len(s) : Single(s[i])

\* The event is the one that offset o of trigger-topic partition p brought for trigger t.
At(p, t, u, o) == o < Len(log[p]) /\ log[p][o + 1].key = t /\ u \in log[p][o + 1].evs

\* The offsets and the checkpoints that are committed, or that a late commit may still put there.
Marks(p) == {committed[p], mark[p]}
Stored(p) == {metadata[p]} \cup dirty[p]

\* An event is sent once in a batch, and its offset is not committed yet.
TopicInv ==
    /\ \A q \in TriggerParts :
          /\ Singles(log[q]) /\ Singles(batch[Event].out[q])
          /\ \A p \in TriggerParts : batch[p].out[q] = <<>>
    /\ \A q \in Outputs : /\ Apart(batch[Event].out[q])
                          /\ \A c \in Marks(Event) : Ids(batch[Event].out[q], c, pos[Event])
    /\ \A i \in 1 .. Len(batch[Event].out[Action]) : ~HasAnd[batch[Event].out[Action][i].key]
    /\ stage[Event] = "batch" => batch[Event].offset = pos[Event]

\* The checkpoint in memory is ahead of what is stored.
CheckInv == \A p \in TriggerParts : \A m \in Stored(p), t \in Triggers : m[t] <= checkpoint[p][t]

\* An event was sent to a partition once, if its offset is committed.
FreshInv == \A q \in TriggerParts : Apart(log[q]) /\ Ids(log[q], 0, committed[Event])

\* What a trigger holds is not covered by its checkpoint, and is in the pod that consumes the
\* partition.
Holds(w, t, e) ==
    /\ owner[e.part] = w /\ checkpoint[e.part][t] <= e.offset /\ e.offset < pos[e.part]
    /\ At(e.part, t, [dep |-> e.dep, id |-> e.id], e.offset)
    /\ log[e.part][e.offset + 1].dep = e.dep
HoldInv == \A w \in Pods, t \in Triggers : \A e \in events[w][t] : Holds(w, t, e)

\* The stored checkpoint covers what was used by messages of the action topic, the one in memory
\* what is used by those of the batch as well.
In(m, s) == \E i \in 1 .. Len(s) : s[i] = m
Consumed(m) ==
    HasAnd[m.key] => \A u \in m.evs, p \in Partitions[m.key] :
        \E o \in Nat : o < metadata[p][m.key] /\ At(p, m.key, u, o)
Firing(p, m) ==
    /\ HasAnd[m.key] /\ p \in Partitions[m.key]
    /\ \A u \in m.evs : \E o \in Nat :
          /\ \A x \in Stored(p) : x[m.key] <= o
          /\ o < checkpoint[p][m.key] /\ At(p, m.key, u, o)
UseLog ==
    /\ Apart(log[Action]) /\ Ids(log[Action], 0, committed[Event])
    /\ \A m \in Messages : In(m, log[Action]) => Consumed(m)
UseBatch(p) ==
    /\ Apart(batch[p].out[Action])
    /\ \A m \in Messages : In(m, batch[p].out[Action]) => Firing(p, m)
UseInv == FreshInv /\ UseLog /\ \A p \in TriggerParts : UseBatch(p)

\* What a transaction appends comes after what was there.
LEMMA Concat ==
    ASSUME NEW S, NEW s \in Seq(S), NEW r \in Seq(S)
    PROVE  /\ s \o r \in Seq(S) /\ Len(s) \in Nat /\ Len(r) \in Nat /\ Len(s \o r) = Len(s) + Len(r)
           /\ \A i \in 1 .. Len(s) : (s \o r)[i] = s[i] /\ s[i] \in S
           /\ \A j \in 1 .. Len(r) : (s \o r)[Len(s) + j] = r[j] /\ r[j] \in S
           /\ \A i \in 1 .. Len(s \o r) :
                 i \in 1 .. Len(s) \/ \E j \in 1 .. Len(r) : i = Len(s) + j
  <1>1. \A i \in 1 .. Len(s \o r) : i \in 1 .. Len(s) \/ i - Len(s) \in 1 .. Len(r)
    OBVIOUS
  <1>2. ASSUME NEW i \in 1 .. Len(s \o r), i \notin 1 .. Len(s)
        PROVE  \E j \in 1 .. Len(r) : i = Len(s) + j
    <2>1. i - Len(s) \in 1 .. Len(r) /\ i = Len(s) + (i - Len(s))
      BY <1>1, <1>2
    <2> QED
      BY <2>1
  <1>3. s \o r \in Seq(S) /\ Len(s) \in Nat /\ Len(r) \in Nat /\ Len(s \o r) = Len(s) + Len(r)
    OBVIOUS
  <1>4. \A i \in 1 .. Len(s) : (s \o r)[i] = s[i] /\ s[i] \in S
    OBVIOUS
  <1>5. \A j \in 1 .. Len(r) : (s \o r)[Len(s) + j] = r[j] /\ r[j] \in S
    OBVIOUS
  <1> QED
    BY <1>2, <1>3, <1>4, <1>5, Zenon

\* What is apart from each other stays so.
LEMMA ApartConcat ==
    ASSUME NEW s \in Seq(Messages), NEW r \in Seq(Messages), Apart(s), Apart(r),
           \A i \in 1 .. Len(s), j \in 1 .. Len(r) :
              s[i].key = r[j].key => s[i].evs \cap r[j].evs = {}
    PROVE  Apart(s \o r)
  <1> DEFINE a == s \o r
  <1>0. /\ Len(s) \in Nat /\ Len(r) \in Nat
        /\ \A i \in 1 .. Len(s) : a[i] = s[i]
        /\ \A j \in 1 .. Len(r) : a[Len(s) + j] = r[j]
        /\ \A i \in 1 .. Len(a) : i \in 1 .. Len(s) \/ \E j \in 1 .. Len(r) : i = Len(s) + j
    BY ONLY Concat, s \in Seq(Messages), r \in Seq(Messages)
  <1> HIDE DEF a
  <1> SUFFICES ASSUME NEW i \in 1 .. Len(a), NEW k \in 1 .. Len(a), i # k, a[i].key = a[k].key
               PROVE  a[i].evs \cap a[k].evs = {}
    BY DEF Apart, a
  <1>1. CASE i \in 1 .. Len(s) /\ k \in 1 .. Len(s)
    BY <1>0, <1>1 DEF Apart
  <1>2. CASE i \in 1 .. Len(s) /\ k \notin 1 .. Len(s)
    <2>1. PICK j \in 1 .. Len(r) : k = Len(s) + j
      BY <1>0, <1>2
    <2>2. a[i] = s[i] /\ a[k] = r[j]
      BY <1>0, <1>2, <2>1
    <2> QED
      BY <1>2, <2>2
  <1>3. CASE i \notin 1 .. Len(s) /\ k \in 1 .. Len(s)
    <2>1. PICK j \in 1 .. Len(r) : i = Len(s) + j
      BY <1>0, <1>3
    <2>2. a[k] = s[k] /\ a[i] = r[j]
      BY <1>0, <1>3, <2>1
    <2> QED
      BY <1>3, <2>2
  <1>4. CASE i \notin 1 .. Len(s) /\ k \notin 1 .. Len(s)
    <2>1. PICK j \in 1 .. Len(r) : i = Len(s) + j
      BY <1>0, <1>4
    <2>2. PICK l \in 1 .. Len(r) : k = Len(s) + l
      BY <1>0, <1>4
    <2>3. a[i] = r[j] /\ a[k] = r[l] /\ j # l
      BY <1>0, <2>1, <2>2
    <2> QED
      BY <2>3 DEF Apart
  <1> QED
    BY <1>1, <1>2, <1>3, <1>4

\* Offsets of the event topic, and the events at them.
LEMMA IdsConcat ==
    ASSUME NEW s \in Seq(Messages), NEW r \in Seq(Messages), NEW low \in Int, NEW high \in Int,
           Ids(s, low, high), Ids(r, low, high)
    PROVE  Ids(s \o r, low, high)
  <1> DEFINE a == s \o r
  <1>0. /\ Len(s) \in Nat /\ Len(r) \in Nat
        /\ \A i \in 1 .. Len(s) : a[i] = s[i]
        /\ \A j \in 1 .. Len(r) : a[Len(s) + j] = r[j]
        /\ \A i \in 1 .. Len(a) : i \in 1 .. Len(s) \/ \E j \in 1 .. Len(r) : i = Len(s) + j
    BY Concat
  <1> HIDE DEF a
  <1> SUFFICES ASSUME NEW i \in 1 .. Len(a), NEW u \in a[i].evs
               PROVE  low <= u.id /\ u.id < high
    BY DEF Ids, a
  <1>1. CASE i \in 1 .. Len(s)
    BY <1>0, <1>1 DEF Ids
  <1>2. CASE i \notin 1 .. Len(s)
    <2>1. PICK j \in 1 .. Len(r) : i = Len(s) + j
      BY <1>0, <1>2
    <2> QED
      BY <1>0, <2>1 DEF Ids
  <1> QED
    BY <1>1, <1>2

\* The offset of a use is a number.
LEMMA IdsTypes ==
    ASSUME NEW s \in Seq(Messages), NEW i \in 1 .. Len(s), NEW u \in s[i].evs
    PROVE  u.id \in Nat
  <1>1. s[i] \in Messages
    OBVIOUS
  <1>2. s[i].evs \in SUBSET Uses
    BY <1>1 DEF Messages
  <1> QED
    BY <1>2 DEF Uses

\* The bounds may be wider.
LEMMA IdsWiden ==
    ASSUME NEW s \in Seq(Messages), NEW a \in Int, NEW b \in Int, NEW low \in Int, NEW high \in Int,
           Ids(s, a, b), low <= a, b <= high
    PROVE  Ids(s, low, high)
  <1> SUFFICES ASSUME NEW i \in 1 .. Len(s), NEW u \in s[i].evs
               PROVE  low <= u.id /\ u.id < high
    BY DEF Ids
  <1>1. a <= u.id /\ u.id < b
    BY DEF Ids
  <1> QED
    BY <1>1, IdsTypes

\* The same from the first event on.
LEMMA IdsGrow ==
    ASSUME NEW s \in Seq(Messages), NEW b \in Int, NEW high \in Int, Ids(s, 0, b), b <= high
    PROVE  Ids(s, 0, high)
  <1>1. 0 \in Int /\ 0 <= 0
    OBVIOUS
  <1> QED
    BY <1>1, IdsWiden

\* Events at different offsets are different.
LEMMA IdsApart ==
    ASSUME NEW s \in Seq(Messages), NEW r \in Seq(Messages), NEW a \in Int, NEW b \in Int,
           NEW c \in Int, Ids(s, a, b), Ids(r, b, c)
    PROVE  \A i \in 1 .. Len(s), j \in 1 .. Len(r) : s[i].evs \cap r[j].evs = {}
  <1> SUFFICES ASSUME NEW i \in 1 .. Len(s), NEW j \in 1 .. Len(r),
                      NEW u \in s[i].evs, u \in r[j].evs
               PROVE  FALSE
    OBVIOUS
  <1>1. u.id < b /\ b <= u.id
    BY DEF Ids
  <1> QED
    BY <1>1, IdsTypes

\* One event each.
LEMMA SinglesConcat ==
    ASSUME NEW s \in Seq(Messages), NEW r \in Seq(Messages), Singles(s), Singles(r)
    PROVE  Singles(s \o r)
  <1> DEFINE a == s \o r
  <1>0. /\ Len(s) \in Nat /\ Len(r) \in Nat
        /\ \A i \in 1 .. Len(s) : a[i] = s[i]
        /\ \A j \in 1 .. Len(r) : a[Len(s) + j] = r[j]
        /\ \A i \in 1 .. Len(a) : i \in 1 .. Len(s) \/ \E j \in 1 .. Len(r) : i = Len(s) + j
    BY Concat
  <1> HIDE DEF a
  <1> SUFFICES ASSUME NEW i \in 1 .. Len(a)
               PROVE  Single(a[i])
    BY DEF Singles, a
  <1>1. CASE i \in 1 .. Len(s)
    BY <1>0, <1>1 DEF Singles
  <1>2. CASE i \notin 1 .. Len(s)
    <2>1. PICK j \in 1 .. Len(r) : i = Len(s) + j
      BY <1>0, <1>2
    <2> QED
      BY <1>0, <2>1 DEF Singles
  <1> QED
    BY <1>1, <1>2

\* KafkaSensor.Event: an event is sent once per trigger and dependency, to the trigger topic for
\* the triggers that need others.
LEMMA OutputsApart ==
    ASSUME NEW o \in Nat, NEW e, NEW out \in EventOutputs(o, e), NEW q \in Outputs
    PROVE  /\ Apart(out[q]) /\ Ids(out[q], o, o + 1)
           /\ q \in TriggerParts => Singles(out[q])
           /\ q = Action => \A i \in 1 .. Len(out[q]) : ~HasAnd[out[q][i].key]
  <1> DEFINE sent(to, p) == {Message(o, w) : w \in {x \in Wanted(e) : to[x] = p}}
  <1>1. PICK to \in Destinations(e) :
           out \in {f \in [Outputs -> UNION {Orders(sent(to, p)) : p \in Outputs}] :
                       \A p \in Outputs : f[p] \in Orders(sent(to, p))}
    BY DEF EventOutputs
  <1> DEFINE S == sent(to, q)
             s == out[q]
  <1>2. s \in Orders(S) /\ s \in Seq(Messages)
    BY <1>1, OutputTypes
  <1>3. ASSUME NEW m \in S
        PROVE  /\ m.evs = {[dep |-> m.dep, id |-> o]}
               /\ m = Message(o, <<m.key, m.dep>>)
               /\ IF OneAndDone(m.key) THEN q = Action ELSE q \in Partitions[m.key]
               /\ m.key \in Triggers
    <2>1. PICK w \in Wanted(e) : m = Message(o, w) /\ to[w] = q
      BY <1>3
    <2>2. /\ w \in Triggers \X Deps
          /\ IF OneAndDone(w[1]) THEN q = Action ELSE q \in Partitions[w[1]]
      BY <1>1, <2>1 DEF Wanted, Destinations
    <2>3. w = <<w[1], w[2]>> /\ m.key = w[1] /\ m.dep = w[2] /\ m.evs = {[dep |-> w[2], id |-> o]}
      BY <2>1, <2>2 DEF Message
    <2> QED
      BY <2>1, <2>2, <2>3
  <1> HIDE DEF S, s, sent
  <1>4. /\ \A i \in 1 .. Len(s) : s[i] \in S
        /\ \A i, j \in 1 .. Len(s) : i # j => s[i] # s[j]
    <2>1. DOMAIN s = 1 .. Len(s)
      BY <1>2
    <2>2. s \in [DOMAIN s -> S] /\ \A i, j \in DOMAIN s : i # j => s[i] # s[j]
      BY <1>2 DEF Orders
    <2> QED
      BY <2>1, <2>2
  <1>5. Apart(s)
    <2> SUFFICES ASSUME NEW i \in 1 .. Len(s), NEW j \in 1 .. Len(s), i # j, s[i].key = s[j].key,
                        NEW u \in s[i].evs, u \in s[j].evs
                 PROVE  FALSE
      BY DEF Apart
    <2>1. s[i] \in S /\ s[j] \in S /\ s[i] # s[j]
      BY <1>4
    <2>2. u = [dep |-> s[i].dep, id |-> o] /\ u = [dep |-> s[j].dep, id |-> o]
      BY <1>3, <2>1
    <2>3. s[i].dep = s[j].dep
      BY <2>2
    <2>4. s[i] = Message(o, <<s[i].key, s[i].dep>>) /\ s[j] = Message(o, <<s[j].key, s[j].dep>>)
      BY <1>3, <2>1
    <2> QED
      BY <2>1, <2>3, <2>4
  <1>6. Ids(s, o, o + 1)
    <2> SUFFICES ASSUME NEW i \in 1 .. Len(s), NEW u \in s[i].evs PROVE o <= u.id /\ u.id < o + 1
      BY DEF Ids
    <2>1. s[i] \in S
      BY <1>4
    <2>2. s[i].evs = {[dep |-> s[i].dep, id |-> o]}
      BY <1>3, <2>1
    <2>3. u = [dep |-> s[i].dep, id |-> o]
      BY <2>2
    <2> QED
      BY <2>3
  <1>7. ASSUME q \in TriggerParts
        PROVE  Singles(s)
    <2> SUFFICES ASSUME NEW i \in 1 .. Len(s)
                 PROVE  Single(s[i])
      BY DEF Singles
    <2>1. s[i].evs = {[dep |-> s[i].dep, id |-> o]} /\ ~OneAndDone(s[i].key)
      BY <1>3, <1>4, <1>7, PartsAre
    <2> QED
      BY <2>1 DEF OneAndDone, Single
  <1>8. ASSUME q = Action, NEW i \in 1 .. Len(s)
        PROVE  ~HasAnd[s[i].key]
    <2>1. s[i].key \in Triggers /\ OneAndDone(s[i].key)
      <3>1. /\ s[i].key \in Triggers
            /\ IF OneAndDone(s[i].key) THEN q = Action ELSE q \in Partitions[s[i].key]
        BY <1>3, <1>4
      <3> QED
        BY <1>8, <3>1, PartsAre, KafkaAssumption DEF KafkaAssumption
    <2> QED
      BY <2>1 DEF OneAndDone
  <1> QED
    BY <1>5, <1>6, <1>7, <1>8 DEF s

\* Nothing happens to the session of a partition, except that a mark may be committed.
Still(p) ==
    /\ Marks(p)' \subseteq Marks(p) /\ Stored(p)' \subseteq Stored(p)
    /\ pos'[p] = pos[p] /\ stage'[p] = stage[p] /\ batch'[p] = batch[p]

\* Neither the offset of the event topic nor a checkpoint is put back.
Forward ==
    /\ committed[Event] <= committed'[Event]
    /\ \A p \in TriggerParts : \A t \in Triggers : metadata[p][t] <= metadata'[p][t]

\* Steps of the action topic and of the event sources.
Quiet ==
    /\ UNCHANGED <<owner, events, checkpoint, oldest, txnErrors>>
    /\ \A q \in Outputs : log'[q] = log[q]
    /\ \A p \in Parts \ {Action} : Still(p)

\* A pod that dies, or a transaction that does not begin.
Dropped ==
    /\ UNCHANGED <<log, committed, metadata, mark, dirty, owner, pos, checkpoint, oldest>>
    /\ \A p \in Parts : \/ batch'[p] = batch[p] /\ stage'[p] = stage[p]
                        \/ batch'[p] = EmptyBatch /\ stage'[p] # "batch"
    /\ \A w \in Pods, t \in Triggers : events'[w][t] \in SUBSET events[w][t]

\* A handler collects out and offset.
Took(p, out, offset) ==
    /\ UNCHANGED <<log, committed, metadata, mark, dirty, owner, oldest, txnErrors>>
    /\ Available(p) /\ pos[p] \in Nat /\ pos[p] < Len(log[p])
    /\ \A x \in Parts \ {p} : Still(x)
    /\ pos'[p] = pos[p] + 1 /\ stage'[p] = "batch"
    /\ batch'[p].out = out /\ batch'[p].offset = offset

\* A batch is committed, or the first message is marked.
Committed(p) ==
    /\ UNCHANGED <<owner, pos, events, checkpoint, oldest, txnErrors>>
    /\ \A x \in Parts \ {p} : Still(x)
    /\ batch'[p] = EmptyBatch /\ stage'[p] # "batch"
    /\ \A q \in Outputs : log'[q] = log[q] \o batch[p].out[q]
    /\ \A m \in Stored(p)' : m \in Stored(p) \/ m = checkpoint[p] \/ m = NoCheckpoint
    /\ \/ first[p]
       \/ /\ stage[p] = "batch" /\ \A c \in Marks(p)' : c \in Marks(p) \/ c = batch[p].offset
          /\ \A m \in Stored(p)' : m \in Stored(p) \/ m = checkpoint[p]
    /\ batch[p].out # NoMessages =>
          stage[p] = "batch" /\ committed'[p] = batch[p].offset /\ metadata'[p] = checkpoint[p]

\* What is stored or marked.
LEMMA StoredTypes ==
    ASSUME TypeOK, NEW p \in Parts
    PROVE  /\ \A m \in Stored(p) : m \in [Triggers -> Nat]
           /\ \A c \in Marks(p) : c \in Int /\ c <= pos[p]
           /\ committed[p] \in Marks(p) /\ mark[p] \in Marks(p) /\ metadata[p] \in Stored(p)
  BY DEF TypeOK, Stored, Marks

\* Nothing is marked or committed.
LEMMA SameStored ==
    ASSUME NEW p, committed'[p] = committed[p], mark'[p] = mark[p], metadata'[p] = metadata[p],
           dirty'[p] = dirty[p]
    PROVE  Marks(p)' = Marks(p) /\ Stored(p)' = Stored(p)
  BY DEF Marks, Stored

\* A commit of marks that were there.
LEMMA FlushedStored ==
    ASSUME NEW p, mark'[p] = mark[p], Flushed(p, dirty[p])
    PROVE  Marks(p)' \subseteq Marks(p) /\ Stored(p)' \subseteq Stored(p)
  <1>1. CASE committed'[p] = committed[p] /\ metadata'[p] = metadata[p] /\ dirty'[p] = dirty[p]
    BY <1>1, SameStored
  <1>2. CASE committed'[p] = mark'[p] /\ metadata'[p] \in dirty[p] /\ dirty'[p] \in {dirty[p], {}}
    BY <1>2 DEF Marks, Stored
  <1> QED
    BY <1>1, <1>2 DEF Flushed

\* A commit of a new mark.
LEMMA MarkedStored ==
    ASSUME NEW p, NEW offset, NEW meta, Marked(p, p, offset, meta)
    PROVE  /\ \A c \in Marks(p)' : c \in Marks(p) \/ c = offset
           /\ \A m \in Stored(p)' : m \in Stored(p) \/ m = meta
  <1>1. CASE mark'[p] = mark[p] /\ Flushed(p, dirty[p])
    BY <1>1, FlushedStored
  <1>2. CASE mark'[p] = offset /\ Flushed(p, {meta})
    BY <1>2 DEF Flushed, Marks, Stored
  <1> QED
    BY <1>1, <1>2 DEF Marked

\* What the handlers have in common.
LEMMA Takes ==
    ASSUME TypeOK, NEW p \in Parts, Available(p),
           NEW out \in [Outputs -> Seq(Messages)], NEW offset \in Nat, NEW fns \in SUBSET Calls,
           Collect(p, out, offset, fns)
    PROVE  Took(p, out, offset)
  <1>1. /\ stage'[p] = "batch" /\ pos'[p] = pos[p] + 1
        /\ batch'[p].out = out /\ batch'[p].offset = offset
        /\ \A q \in Parts \ {p} :
              /\ stage'[q] = stage[q] /\ pos'[q] = pos[q] /\ batch'[q] = batch[q]
    BY CollectFields
  <1>2. pos[p] \in Nat /\ pos[p] < Len(log[p])
    BY DEF TypeOK, Available, Waiting
  <1>3. UNCHANGED <<log, committed, metadata, mark, dirty, owner, oldest, txnErrors>>
    BY CollectKeeps DEF bounds
  <1>4. \A x \in Parts \ {p} : Still(x)
    BY <1>1, <1>3, SameStored DEF Still
  <1> QED
    BY <1>1, <1>2, <1>3, <1>4 DEF Took

\* KafkaSensor.Event.
LEMMA EventTakes ==
    ASSUME TypeOK, ContentInv, OffsetInv, HandleEvent
    PROVE  /\ UNCHANGED <<events, checkpoint>>
           /\ \E out \in EventOutputs(pos[Event], Msg(Event)) :
                 Took(Event, [q \in Outputs |-> batch[Event].out[q] \o out[q]], pos[Event] + 1)
  <1>1. PICK out \in EventOutputs(pos[Event], Msg(Event)) :
           Collect(Event, [q \in Outputs |-> batch[Event].out[q] \o out[q]], pos[Event] + 1, {})
    BY DEF HandleEvent
  <1> DEFINE all == [q \in Outputs |-> batch[Event].out[q] \o out[q]]
  <1>2. /\ Available(Event) /\ pos[Event] \in Nat /\ pos[Event] + 1 \in Nat /\ Event \in Parts
        /\ UNCHANGED <<checkpoint, events>>
    BY PartsAre DEF HandleEvent, TypeOK
  <1>3. out \in [Outputs -> Seq(Messages)]
    BY <1>2, OutputTypes
  <1>4. batch[Event].out \in [Outputs -> Seq(Messages)]
    BY <1>2 DEF TypeOK, Batches
  <1>5. all \in [Outputs -> Seq(Messages)]
    BY <1>3, <1>4
  <1> HIDE DEF all
  <1>6. Collect(Event, all, pos[Event] + 1, {}) /\ {} \in SUBSET Calls
    BY <1>1 DEF all
  <1>7. Took(Event, all, pos[Event] + 1)
    BY <1>2, <1>5, <1>6, Takes
  <1> QED
    BY <1>2, <1>7 DEF all

\* A message below the checkpoint.
LEMMA SkipTakes ==
    ASSUME TypeOK, ContentInv, OffsetInv, NEW p \in TriggerParts, SkipTrigger(p)
    PROVE  /\ UNCHANGED <<events, checkpoint>> /\ pos[p] < checkpoint[p][Msg(p).key]
           /\ Took(p, batch[p].out, batch[p].offset)
  <1>1. /\ Available(p) /\ p \in Parts /\ pos[p] < checkpoint[p][Msg(p).key]
        /\ UNCHANGED <<checkpoint, events>>
        /\ Collect(p, batch[p].out, batch[p].offset, {})
    BY PartsAre DEF SkipTrigger, Skip
  <1>2. /\ batch[p].out \in [Outputs -> Seq(Messages)] /\ batch[p].offset \in Nat
        /\ {} \in SUBSET Calls
    BY <1>1 DEF TypeOK, Batches
  <1> QED
    BY <1>1, <1>2, Takes

\* Steps of the action topic and of the event sources leave the rest as it is.
LEMMA QuietSteps ==
    ASSUME TypeOK, ContentInv, OffsetInv, ActionInv,
           \/ Publish \/ UNCHANGED vars \/ HandleAction \/ CommitOffset(Action) \/ MarkFirst(Action)
           \/ \E w \in Pods : RunAction(w)
    PROVE  Quiet
  <1>1. CASE Publish
    <2>1. UNCHANGED <<committed, metadata, mark, dirty, owner, stage, pos, checkpoint, batch, events,
                      oldest, txnErrors>>
      BY <1>1 DEF Publish, session, marks, bounds
    <2>2. \A q \in Outputs : log'[q] = log[q]
      BY <1>1, PartsAre DEF Publish, TypeOK
    <2> QED
      BY <2>1, <2>2, SameStored DEF Quiet, Still
  <1>2. CASE UNCHANGED vars \/ \E w \in Pods : RunAction(w)
    <2>1. UNCHANGED <<log, committed, metadata, mark, dirty, owner, stage, pos, checkpoint, batch, events,
                      oldest, txnErrors>>
      BY <1>2 DEF vars, RunAction, bus, session, marks, bounds
    <2> QED
      BY <2>1, SameStored DEF Quiet, Still
  <1>3. CASE HandleAction
    <2>1. /\ Available(Action) /\ Action \in Parts
          /\ UNCHANGED <<checkpoint, events>>
      BY <1>3, PartsAre DEF HandleAction
    <2>2. PICK fns \in SUBSET {ActionCall(Action)} :
             Collect(Action, batch[Action].out, pos[Action] + 1, fns)
      BY <1>3, ActionFields
    <2>3. /\ fns \in SUBSET Calls /\ batch[Action].out \in [Outputs -> Seq(Messages)]
          /\ pos[Action] + 1 \in Nat
      <3>1. ActionCall(Action) \in Calls
        BY <1>3, ActionFields
      <3>2. batch[Action].out \in [Outputs -> Seq(Messages)]
        BY <2>1 DEF TypeOK, Batches
      <3>3. pos[Action] \in Nat
        BY <2>1 DEF TypeOK
      <3> QED
        BY <2>2, <3>1, <3>2, <3>3
    <2>4. Took(Action, batch[Action].out, pos[Action] + 1)
      BY <2>1, <2>2, <2>3, Takes
    <2> QED
      BY <2>1, <2>4 DEF Quiet, Took
  <1>4. CASE CommitOffset(Action)
    <2>1. EndBatch(Action) /\ log' = log /\ txnErrors' = txnErrors /\ Action \in Parts
      BY <1>4, PartsAre DEF CommitOffset
    <2>2. /\ \A q \in Parts \ {Action} : stage'[q] = stage[q] /\ batch'[q] = batch[q]
          /\ UNCHANGED <<owner, pos, checkpoint, events, oldest>>
      BY <2>1, EndBatchFields
    <2>3. \A q \in Parts \ {Action} : mark'[q] = mark[q] /\ Flushed(q, dirty[q])
      <3>1. batch[Action].offset \in Nat /\ checkpoint[Action] \in [Triggers -> Nat]
        BY <2>1 DEF TypeOK, Batches
      <3>2. SessionCommit(Action, batch[Action].offset, checkpoint[Action])
        BY <1>4 DEF CommitOffset
      <3> QED
        BY <2>1, <3>1, <3>2, SessionFields
    <2> QED
      BY <2>1, <2>2, <2>3, FlushedStored DEF Quiet, Still
  <1>5. CASE MarkFirst(Action)
    <2>1. /\ Action \in Parts /\ \A q \in Parts \ {Action} : stage'[q] = stage[q]
          /\ UNCHANGED <<log, owner, pos, checkpoint, batch, events, bounds>>
      BY <1>5, PartsAre, FirstFields
    <2>2. \A q \in Parts \ {Action} : Marked(q, Action, pos[Action], NoCheckpoint)
      BY <1>5, <2>1, FirstFields
    <2>3. \A q \in Parts \ {Action} : mark'[q] = mark[q] /\ Flushed(q, dirty[q])
      BY <2>2 DEF Marked
    <2> QED
      BY <2>1, <2>3, FlushedStored DEF Quiet, Still, bounds
  <1> QED
    BY <1>1, <1>2, <1>3, <1>4, <1>5

\* What is forgotten.
LEMMA DropSteps ==
    ASSUME TypeOK, ContentInv, OffsetInv,
           \/ \E w \in Pods : Crash(w)
           \/ \E p \in Parts : BeginTxnFails(p)
    PROVE  Dropped
  <1>1. ASSUME NEW w \in Pods, Crash(w) PROVE Dropped
    <2>1. UNCHANGED <<log, committed, metadata, mark, dirty, owner, pos, checkpoint, oldest>>
      BY <1>1 DEF Crash, bus, marks
    <2>2. /\ stage' = [p \in Parts |-> IF owner[p] = w THEN "off" ELSE stage[p]]
          /\ batch' = [p \in Parts |-> IF owner[p] = w THEN EmptyBatch ELSE batch[p]]
          /\ events' = [events EXCEPT ![w] = NoEvents]
      BY <1>1 DEF Crash
    <2>3. \A p \in Parts : \/ batch'[p] = batch[p] /\ stage'[p] = stage[p]
                           \/ batch'[p] = EmptyBatch /\ stage'[p] # "batch"
      BY <2>2
    <2>4. \A v \in Pods, t \in Triggers : events'[v][t] \in SUBSET events[v][t]
      BY <2>2 DEF NoEvents, TypeOK
    <2> QED
      BY <2>1, <2>3, <2>4 DEF Dropped
  <1>2. ASSUME NEW p \in Parts, BeginTxnFails(p) PROVE Dropped
    <2>1. EndBatch(p) /\ UNCHANGED <<log, committed, metadata, mark, dirty>>
      BY <1>2 DEF BeginTxnFails, bus, marks
    <2>2. /\ stage'[p] = "idle" /\ batch'[p] = EmptyBatch
          /\ \A q \in Parts \ {p} : stage'[q] = stage[q] /\ batch'[q] = batch[q]
          /\ UNCHANGED <<owner, pos, checkpoint, events, oldest>>
      BY <2>1, EndBatchFields
    <2> QED
      BY <2>1, <2>2 DEF Dropped
  <1> QED
    BY <1>1, <1>2

\* Appending nothing.
LEMMA ConcatEmpty == ASSUME NEW S, NEW s \in Seq(S) PROVE s \o <<>> = s
  OBVIOUS

\* KafkaTransaction.Commit.
LEMMA CommitSteps ==
    ASSUME TypeOK, ContentInv, OffsetInv, NEW p \in Parts, CommitOffset(p) \/ CommitTxn(p)
    PROVE  Committed(p)
  <1>1. EndBatch(p) /\ stage[p] = "batch" /\ txnErrors' = txnErrors
    BY DEF CommitOffset, CommitTxn
  <1>2. /\ stage'[p] # "batch" /\ batch'[p] = EmptyBatch
        /\ \A q \in Parts \ {p} : stage'[q] = stage[q] /\ batch'[q] = batch[q]
        /\ UNCHANGED <<owner, pos, checkpoint, events, oldest>>
    BY <1>1, EndBatchFields
  <1>3. /\ \A q \in Parts \ {p} : Marks(q)' \subseteq Marks(q) /\ Stored(q)' \subseteq Stored(q)
        /\ \A c \in Marks(p)' : c \in Marks(p) \/ c = batch[p].offset
        /\ \A m \in Stored(p)' : m \in Stored(p) \/ m = checkpoint[p]
        /\ batch[p].out # NoMessages => committed'[p] = batch[p].offset /\ metadata'[p] = checkpoint[p]
    <2>1. CASE CommitOffset(p)
      <3>1. batch[p].offset \in Nat /\ checkpoint[p] \in [Triggers -> Nat]
        BY DEF TypeOK, Batches
      <3>2. SessionCommit(p, batch[p].offset, checkpoint[p]) /\ batch[p].out = NoMessages
        BY <2>1 DEF CommitOffset
      <3>3. /\ \A q \in Parts \ {p} : mark'[q] = mark[q] /\ Flushed(q, dirty[q])
            /\ Marked(p, p, batch[p].offset, checkpoint[p])
        BY <3>1, <3>2, SessionFields DEF Marked
      <3> QED
        BY <3>2, <3>3, FlushedStored, MarkedStored
    <2>2. CASE CommitTxn(p)
      <3>1. /\ committed' = [committed EXCEPT ![p] = batch[p].offset]
            /\ metadata' = [metadata EXCEPT ![p] = checkpoint[p]]
            /\ UNCHANGED <<mark, dirty>>
        BY <2>2 DEF CommitTxn, marks
      <3>2. /\ \A q \in Parts \ {p} : committed'[q] = committed[q] /\ metadata'[q] = metadata[q]
            /\ committed'[p] = batch[p].offset /\ metadata'[p] = checkpoint[p]
        BY <3>1 DEF TypeOK
      <3>3. \A q \in Parts \ {p} : Marks(q)' \subseteq Marks(q) /\ Stored(q)' \subseteq Stored(q)
        BY <3>1, <3>2, SameStored
      <3>4. /\ \A c \in Marks(p)' : c \in Marks(p) \/ c = batch[p].offset
            /\ \A m \in Stored(p)' : m \in Stored(p) \/ m = checkpoint[p]
        BY <3>1, <3>2 DEF Marks, Stored
      <3> QED
        BY <3>2, <3>3, <3>4
    <2> QED
      BY <2>1, <2>2
  <1>4. \A q \in Outputs : log'[q] = log[q] \o batch[p].out[q]
    <2>1. CASE CommitOffset(p)
      <3>1. log' = log /\ \A q \in Outputs : batch[p].out[q] = <<>>
        BY <2>1 DEF CommitOffset, NoMessages
      <3>2. ASSUME NEW q \in Outputs PROVE log[q] = log[q] \o <<>>
        <4>1. log[q] \in Seq(Content(q))
          BY DEF ContentInv
        <4> QED
          BY <4>1, ConcatEmpty
      <3> QED
        BY <3>1, <3>2
    <2>2. CASE CommitTxn(p)
      BY <2>2, PartsAre DEF CommitTxn
    <2> QED
      BY <2>1, <2>2
  <1>5. \A x \in Parts \ {p} : Still(x)
    BY <1>2, <1>3 DEF Still
  <1> QED
    BY <1>1, <1>2, <1>3, <1>4, <1>5 DEF Committed

\* The first message.
LEMMA FirstSteps ==
    ASSUME TypeOK, ContentInv, OffsetInv, NEW p \in Parts, MarkFirst(p)
    PROVE  Committed(p)
  <1>1. /\ first[p] /\ stage[p] # "batch" /\ stage'[p] # "batch"
        /\ \A q \in Parts \ {p} : stage'[q] = stage[q]
        /\ UNCHANGED <<log, owner, pos, checkpoint, batch, events, oldest, txnErrors>>
    BY FirstFields DEF bounds
  <1>2. \A q \in Parts : Marked(q, p, pos[p], NoCheckpoint)
    BY FirstFields
  <1>3. batch[p] = EmptyBatch /\ batch[p].out = NoMessages
    BY <1>1, EmptyTypes DEF OffsetInv, Behind, EmptyBatch
  <1>4. \A x \in Parts \ {p} : Still(x)
    <2>1. \A x \in Parts \ {p} : mark'[x] = mark[x] /\ Flushed(x, dirty[x])
      BY <1>2 DEF Marked
    <2> QED
      BY <1>1, <2>1, FlushedStored DEF Still
  <1>5. \A m \in Stored(p)' : m \in Stored(p) \/ m = NoCheckpoint
    BY <1>2, MarkedStored
  <1>6. ASSUME NEW q \in Outputs PROVE log'[q] = log[q] \o batch[p].out[q]
    <2>1. log[q] \in Seq(Content(q)) /\ batch[p].out[q] = <<>>
      BY <1>3 DEF ContentInv, NoMessages
    <2> QED
      BY <1>1, <2>1, ConcatEmpty
  <1> QED
    BY <1>1, <1>3, <1>4, <1>5, <1>6 DEF Committed

\* KafkaSensor.Trigger: the message is the latest of its dependency that the trigger holds, and
\* when the trigger fires everything it holds goes into the message for the action topic.
Triggered(p, t, held, msg) ==
    /\ t = Msg(p).key /\ t \in Triggers
    /\ checkpoint[p][t] <= pos[p]
    /\ \A e \in held : /\ e \in Held
                       /\ \/ e \in events[owner[p]][t] /\ e.dep # Msg(p).dep
                          \/ /\ e.part = p /\ e.offset = pos[p] /\ e.dep = Msg(p).dep
                             /\ [dep |-> e.dep, id |-> e.id] \in Msg(p).evs
    /\ \A e \in events[owner[p]][t] : e \in held \/ e.dep = Msg(p).dep
    /\ \E e \in held : /\ e.part = p /\ e.offset = pos[p]
                       /\ [dep |-> e.dep, id |-> e.id] \in Msg(p).evs
    /\ msg.key = t /\ msg.evs = {[dep |-> e.dep, id |-> e.id] : e \in held} /\ msg \in Messages
    /\ \A v \in Pods, u \in Triggers : <<v, u>> # <<owner[p], t>> => events'[v][u] = events[v][u]
    /\ \A x \in TriggerParts, u \in Triggers :
          <<x, u>> # <<p, t>> => checkpoint'[x][u] = checkpoint[x][u]
    /\ \A q \in Outputs \ {Action} : batch'[p].out[q] = batch[p].out[q]
    /\ \/ /\ events'[owner[p]][t] = {} /\ checkpoint'[p][t] = pos[p] + 1
          /\ batch'[p].out[Action] = Append(batch[p].out[Action], msg)
       \/ /\ events'[owner[p]][t] = held /\ checkpoint'[p][t] = checkpoint[p][t]
          /\ batch'[p].out[Action] = batch[p].out[Action]

\* What KafkaSensor.Trigger does when the message is not below the checkpoint.
LEMMA TriggerTakes ==
    ASSUME TypeOK, ContentInv, OffsetInv, NEW p \in TriggerParts, HandleTrigger(p), Singles(log[p])
    PROVE  /\ \E out, offset : Took(p, out, offset)
           /\ \E t, held, msg : Triggered(p, t, held, msg)
  <1> DEFINE w == owner[p]
             m == Msg(p)
             t == m.key
             held == Update(events[w][t], p, m)
             fire == Satisfied(t, held)
             kept == IF fire THEN {} ELSE held
             after == [events[w] EXCEPT ![t] = kept]
             use == CHOOSE v \in m.evs : TRUE
             new == [dep |-> m.dep, part |-> p, offset |-> pos[p], id |-> use.id]
             msg == [key |-> t, dep |-> m.dep, evs |-> {[dep |-> e.dep, id |-> e.id] : e \in held}]
             out == IF fire THEN [batch[p].out EXCEPT ![Action] = Append(@, msg)]
                    ELSE batch[p].out
             offset == Lowest(p, pos[p] + 1, after)
  <1>1. Available(p) /\ ~Skip(p) /\ w \in Pods /\ p \in Parts /\ p \in Outputs
    BY PartsAre DEF HandleTrigger, TypeOK
  <1>2. /\ m \in Messages /\ t \in Triggers /\ held \in SUBSET Held
    BY <1>1, UpdateTypes
  <1>3. pos[p] \in Nat /\ pos[p] + 1 \in 1 .. Len(log[p])
    BY <1>1 DEF TypeOK, Available, Waiting
  <1>4. /\ events' = [events EXCEPT ![w] = after]
        /\ checkpoint' = IF fire THEN [checkpoint EXCEPT ![p][t] = pos[p] + 1] ELSE checkpoint
        /\ Collect(p, out, offset, {})
    BY DEF HandleTrigger
  <1>5. /\ msg.key = t /\ msg.evs = {[dep |-> e.dep, id |-> e.id] : e \in held}
        /\ msg \in Messages
    <2>1. m.dep \in Deps
      BY <1>2 DEF Messages
    <2>2. {[dep |-> e.dep, id |-> e.id] : e \in held} \in SUBSET Uses
      <3> HIDE DEF held
      <3> QED
        BY <1>2 DEF Held, Uses
    <2> HIDE DEF held, m
    <2> QED
      BY <1>2, <2>1, <2>2 DEF Messages
  <1>6. held = {e \in events[w][t] : e.dep # m.dep} \cup {new}
    BY DEF Update
  <1>7. new.part = p /\ new.offset = pos[p] /\ new.dep = m.dep /\ [dep |-> new.dep, id |-> new.id] \in m.evs
    <2>1. PICK o \in Nat : m.evs = {[dep |-> m.dep, id |-> o]}
      BY <1>3 DEF Singles, Single, Msg
    <2>2. use = [dep |-> m.dep, id |-> o]
      BY <2>1
    <2> HIDE DEF m, use
    <2>3. new.id = o /\ new.dep = m.dep /\ new.part = p /\ new.offset = pos[p]
      BY <2>2
    <2> HIDE DEF new
    <2> QED
      BY <2>1, <2>3
  <1> HIDE DEF new, held, msg
  <1>8. /\ \A e \in held : /\ e \in Held
                           /\ \/ e \in events[w][t] /\ e.dep # m.dep
                              \/ /\ e.part = p /\ e.offset = pos[p] /\ e.dep = m.dep
                                 /\ [dep |-> e.dep, id |-> e.id] \in m.evs
        /\ \A e \in events[w][t] : e \in held \/ e.dep = m.dep
        /\ \E e \in held : /\ e.part = p /\ e.offset = pos[p]
                           /\ [dep |-> e.dep, id |-> e.id] \in m.evs
    BY <1>2, <1>6, <1>7
  <1>9. batch[p].out \in [Outputs -> Seq(Messages)]
    BY <1>1 DEF TypeOK, Batches
  <1> HIDE DEF m
  <1>10. /\ out \in [Outputs -> Seq(Messages)]
         /\ \A q \in Outputs \ {Action} : out[q] = batch[p].out[q]
         /\ out[Action] = IF fire THEN Append(batch[p].out[Action], msg) ELSE batch[p].out[Action]
    <2> HIDE DEF fire
    <2> QED
      BY <1>5, <1>9, PartsAre
  <1> HIDE DEF out, fire
  <1>11. /\ after \in [Triggers -> SUBSET Held] /\ after[t] = kept
         /\ \A u \in Triggers \ {t} : after[u] = events[w][u]
    <2>1. events[w] \in [Triggers -> SUBSET Held]
      BY <1>1 DEF TypeOK
    <2>2. kept \in SUBSET Held
      BY <1>2
    <2> HIDE DEF kept, t
    <2> QED
      BY <1>2, <2>1, <2>2
  <1> HIDE DEF after, t
  <1>12. offset \in Nat
    <2>1. pos[p] + 1 \in Nat
      BY <1>3
    <2> QED
      BY <1>11, <2>1, LowestOffset
  <1> HIDE DEF offset
  <1>13. Took(p, out, offset)
    BY <1>1, <1>4, <1>10, <1>12, Takes
  <1>14. /\ \A v \in Pods, u \in Triggers : <<v, u>> # <<w, t>> => events'[v][u] = events[v][u]
         /\ events'[w][t] = kept
    BY <1>1, <1>2, <1>4, <1>11 DEF TypeOK
  <1>15. /\ \A x \in TriggerParts, u \in Triggers :
               <<x, u>> # <<p, t>> => checkpoint'[x][u] = checkpoint[x][u]
         /\ checkpoint'[p][t] = IF fire THEN pos[p] + 1 ELSE checkpoint[p][t]
    <2>1. checkpoint \in [Parts -> [Triggers -> Nat]] /\ TriggerParts \subseteq Parts
      BY PartsAre DEF TypeOK
    <2>2. CASE fire
      <3>1. checkpoint' = [checkpoint EXCEPT ![p][t] = pos[p] + 1]
        BY <1>4, <2>2
      <3> QED
        BY <1>1, <1>2, <2>1, <2>2, <3>1
    <2>3. CASE ~fire
      BY <1>4, <2>3
    <2> QED
      BY <2>2, <2>3
  <1>16. checkpoint[p][t] <= pos[p]
    <2>1. checkpoint[p][t] \in Nat
      BY <1>1, <1>2 DEF TypeOK
    <2> QED
      BY <1>1, <1>3, <2>1 DEF Skip, t, m
  <1>17. batch'[p].out = out
    BY <1>13 DEF Took
  <1>18. t = Msg(p).key /\ t \in Triggers
    BY <1>2 DEF t, m
  <1>19. \/ /\ events'[w][t] = {} /\ checkpoint'[p][t] = pos[p] + 1
            /\ batch'[p].out[Action] = Append(batch[p].out[Action], msg)
         \/ /\ events'[w][t] = held /\ checkpoint'[p][t] = checkpoint[p][t]
            /\ batch'[p].out[Action] = batch[p].out[Action]
    BY <1>10, <1>14, <1>15, <1>17
  <1>20. Triggered(p, t, held, msg)
    BY <1>5, <1>8, <1>10, <1>14, <1>15, <1>16, <1>17, <1>18, <1>19 DEF Triggered, m
  <1> QED
    BY <1>13, <1>20

\* Where there is no message.
LEMMA NoneApart ==
    /\ Apart(<<>>) /\ Singles(<<>>) /\ \A low, high : Ids(<<>>, low, high)
    /\ \A q \in Outputs : EmptyBatch.out[q] = <<>>
  BY DEF Apart, Singles, Ids, EmptyBatch, NoMessages

\* What the messages and the offsets are.
LEMMA TopicTypes ==
    ASSUME TypeOK, ContentInv
    PROVE  /\ \A q \in Outputs : /\ log[q] \in Seq(Messages)
                                 /\ \A p \in Parts : batch[p].out[q] \in Seq(Messages)
           /\ committed[Event] \in Int /\ pos[Event] \in Nat /\ committed[Event] <= pos[Event]
  <1>1. \A q \in Outputs : /\ log[q] \in Seq(Messages)
                           /\ \A p \in Parts : batch[p].out[q] \in Seq(Messages)
    BY ContentTypes DEF ContentInv
  <1> QED
    BY <1>1, PartsAre DEF TypeOK

\* The trigger topic is not concerned.
LEMMA TopicQuiet ==
    ASSUME TopicInv, Quiet
    PROVE  TopicInv'
  <1>1. /\ \A q \in Outputs : log'[q] = log[q]
        /\ \A p \in Parts \ {Action} : batch'[p] = batch[p]
        /\ Marks(Event)' \subseteq Marks(Event) /\ pos'[Event] = pos[Event]
        /\ stage'[Event] = stage[Event]
    BY PartsAre DEF Quiet, Still
  <1> QED
    BY <1>1, PartsAre DEF TopicInv

\* A batch that is forgotten was not sent.
LEMMA TopicDropped ==
    ASSUME TopicInv, Dropped
    PROVE  TopicInv'
  <1>1. /\ log' = log /\ Marks(Event)' = Marks(Event) /\ pos' = pos
        /\ \A p \in Parts : \A q \in Outputs :
              batch'[p].out[q] = batch[p].out[q] \/ batch'[p].out[q] = <<>>
        /\ stage'[Event] = "batch" => stage[Event] = "batch" /\ batch'[Event] = batch[Event]
    BY PartsAre, NoneApart, SameStored DEF Dropped
  <1>2. ASSUME NEW q \in TriggerParts
        PROVE  /\ Singles(log'[q]) /\ Singles(batch'[Event].out[q])
               /\ \A p \in TriggerParts : batch'[p].out[q] = <<>>
    BY <1>1, PartsAre, NoneApart DEF TopicInv
  <1>3. ASSUME NEW q \in Outputs
        PROVE  /\ Apart(batch'[Event].out[q])
               /\ \A c \in Marks(Event)' : Ids(batch'[Event].out[q], c, pos'[Event])
    BY <1>1, PartsAre, NoneApart DEF TopicInv
  <1>4. \A i \in 1 .. Len(batch'[Event].out[Action]) : ~HasAnd[batch'[Event].out[Action][i].key]
    <2>1. CASE batch'[Event].out[Action] = batch[Event].out[Action]
      BY <2>1 DEF TopicInv
    <2>2. CASE batch'[Event].out[Action] = <<>>
      BY <2>2
    <2> QED
      BY <1>1, <2>1, <2>2, PartsAre
  <1>5. stage'[Event] = "batch" => batch'[Event].offset = pos'[Event]
    BY <1>1 DEF TopicInv
  <1> QED
    BY <1>2, <1>3, <1>4, <1>5 DEF TopicInv

\* Consumption starts again without a batch.
LEMMA TopicRebalance ==
    ASSUME TypeOK, OffsetInv, TopicInv, Rebalance
    PROVE  TopicInv'
  <1>1. /\ log' = log /\ batch' = batch /\ stage'[Event] = "idle"
        /\ \A p \in Parts : batch[p] = EmptyBatch
    BY PartsAre DEF Rebalance, bus, OffsetInv, Behind
  <1>2. \A p \in Parts : \A q \in Outputs : batch'[p].out[q] = <<>>
    BY <1>1, NoneApart
  <1>3. \A i \in 1 .. Len(batch'[Event].out[Action]) : ~HasAnd[batch'[Event].out[Action][i].key]
    BY <1>2, PartsAre
  <1> QED
    BY <1>1, <1>2, <1>3, PartsAre, NoneApart DEF TopicInv

\* A trigger sends nothing to the trigger topic.
LEMMA TopicTrigger ==
    ASSUME TopicInv, NEW p \in TriggerParts, NEW out, NEW offset, Took(p, out, offset),
           \A q \in Outputs \ {Action} : batch'[p].out[q] = batch[p].out[q]
    PROVE  TopicInv'
  <1>1. /\ log' = log /\ Event \in Parts \ {p}
        /\ \A x \in Parts \ {p} : Still(x)
    BY PartsAre DEF Took
  <1>2. /\ Marks(Event)' \subseteq Marks(Event) /\ pos'[Event] = pos[Event]
        /\ stage'[Event] = stage[Event] /\ batch'[Event] = batch[Event]
        /\ \A x \in TriggerParts \ {p} : batch'[x] = batch[x]
    BY <1>1, PartsAre DEF Still
  <1>3. \A x, q \in TriggerParts : batch'[x].out[q] = batch[x].out[q]
    BY <1>2, PartsAre
  <1> QED
    BY <1>1, <1>2, <1>3 DEF TopicInv

\* KafkaSensor.Event sends an event that was not sent before.
LEMMA TopicEvent ==
    ASSUME TypeOK, ContentInv, TopicInv,
           NEW out \in EventOutputs(pos[Event], Msg(Event)),
           Took(Event, [q \in Outputs |-> batch[Event].out[q] \o out[q]], pos[Event] + 1)
    PROVE  TopicInv'
  <1> DEFINE n == pos[Event]
  <1>0. /\ n \in Nat
        /\ \A q \in Outputs : log[q] \in Seq(Messages) /\ batch[Event].out[q] \in Seq(Messages)
    BY TopicTypes, PartsAre
  <1>1. /\ log' = log /\ pos'[Event] = n + 1 /\ batch'[Event].offset = n + 1
        /\ \A q \in Outputs : batch'[Event].out[q] = batch[Event].out[q] \o out[q]
        /\ \A x \in Parts \ {Event} : Still(x)
        /\ Marks(Event)' = Marks(Event)
    BY SameStored DEF Took
  <1>2. \A x \in TriggerParts : batch'[x] = batch[x]
    BY <1>1, PartsAre DEF Still
  <1>3. \A c \in Marks(Event) : c \in Int /\ c <= n
    BY PartsAre, StoredTypes
  <1>4. ASSUME NEW q \in Outputs
        PROVE  /\ out[q] \in Seq(Messages) /\ Apart(out[q]) /\ Ids(out[q], n, n + 1)
               /\ q \in TriggerParts => Singles(out[q])
               /\ q = Action => \A i \in 1 .. Len(out[q]) : ~HasAnd[out[q][i].key]
    BY <1>0, OutputsApart, OutputTypes
  <1>5. ASSUME NEW q \in Outputs, NEW c \in Marks(Event)
        PROVE  Apart(batch[Event].out[q]) /\ Ids(batch[Event].out[q], c, n)
    BY DEF TopicInv
  <1> HIDE DEF n
  <1>6. ASSUME NEW q \in Outputs, NEW c \in Marks(Event)
        PROVE  Apart(batch'[Event].out[q]) /\ Ids(batch'[Event].out[q], c, n + 1)
    <2> DEFINE s == batch[Event].out[q]
               r == out[q]
    <2>1. /\ s \in Seq(Messages) /\ r \in Seq(Messages) /\ Apart(s) /\ Apart(r)
          /\ Ids(s, c, n) /\ Ids(r, n, n + 1) /\ batch'[Event].out[q] = s \o r
      BY <1>0, <1>1, <1>4, <1>5
    <2> HIDE DEF s, r
    <2>2. n \in Int /\ n + 1 \in Int /\ n <= n + 1
      BY <1>0
    <2>3. \A i \in 1 .. Len(s), j \in 1 .. Len(r) : s[i].evs \cap r[j].evs = {}
      BY <1>3, <2>1, <2>2, IdsApart
    <2>4. Apart(s \o r)
      BY <2>1, <2>3, ApartConcat
    <2>5. Ids(s, c, n + 1) /\ Ids(r, c, n + 1)
      BY <1>3, <2>1, <2>2, IdsWiden
    <2>6. Ids(s \o r, c, n + 1)
      BY <1>3, <2>1, <2>2, <2>5, IdsConcat
    <2> QED
      BY <2>1, <2>4, <2>6
  <1>7. ASSUME NEW q \in TriggerParts
        PROVE  Singles(log[q]) /\ Singles(batch'[Event].out[q])
    <2>0. q \in Outputs
      BY PartsAre
    <2>1. Singles(batch[Event].out[q]) /\ Singles(out[q])
      BY <1>4, <2>0 DEF TopicInv
    <2>2. Singles(batch[Event].out[q] \o out[q])
      BY <1>0, <1>4, <2>0, <2>1, SinglesConcat
    <2> QED
      BY <1>1, <2>0, <2>2 DEF TopicInv
  <1>8. \A i \in 1 .. Len(batch'[Event].out[Action]) : ~HasAnd[batch'[Event].out[Action][i].key]
    <2> DEFINE s == batch[Event].out[Action]
               r == out[Action]
    <2>1. /\ s \in Seq(Messages) /\ r \in Seq(Messages) /\ batch'[Event].out[Action] = s \o r
          /\ \A i \in 1 .. Len(s) : ~HasAnd[s[i].key]
          /\ \A i \in 1 .. Len(r) : ~HasAnd[r[i].key]
      BY <1>0, <1>1, <1>4, PartsAre DEF TopicInv
    <2> HIDE DEF s, r
    <2> SUFFICES ASSUME NEW i \in 1 .. Len(s \o r) PROVE ~HasAnd[(s \o r)[i].key]
      BY <2>1
    <2>2. CASE i \in 1 .. Len(s)
      BY <2>1, <2>2, Concat
    <2>3. CASE i \notin 1 .. Len(s)
      <3>1. PICK j \in 1 .. Len(r) : i = Len(s) + j
        BY <2>1, <2>3, Concat
      <3>2. (s \o r)[i] = r[j]
        BY <2>1, <3>1, Concat
      <3> QED
        BY <2>1, <3>2
    <2> QED
      BY <2>2, <2>3
  <1>9. ASSUME NEW q \in TriggerParts, NEW x \in TriggerParts
        PROVE  batch'[x].out[q] = <<>>
    BY <1>2 DEF TopicInv
  <1>10. ASSUME NEW q \in Outputs
         PROVE  Apart(batch'[Event].out[q]) /\ \A c \in Marks(Event)' : Ids(batch'[Event].out[q], c, n + 1)
    <2>1. committed[Event] \in Marks(Event)
      BY DEF Marks
    <2> QED
      BY <1>1, <1>6, <2>1
  <1> QED
    BY <1>1, <1>7, <1>8, <1>9, <1>10 DEF TopicInv, n

\* A batch of events that is committed leaves none.
LEMMA TopicCommitEvent ==
    ASSUME TypeOK, ContentInv, TopicInv, Committed(Event)
    PROVE  TopicInv'
  <1>0. \A q \in Outputs : log[q] \in Seq(Messages) /\ batch[Event].out[q] \in Seq(Messages)
    BY TopicTypes, PartsAre
  <1>1. /\ stage'[Event] # "batch" /\ batch'[Event] = EmptyBatch
        /\ \A x \in Parts \ {Event} : Still(x)
        /\ \A q \in Outputs : log'[q] = log[q] \o batch[Event].out[q]
    BY DEF Committed
  <1>2. /\ \A x \in TriggerParts : batch'[x] = batch[x]
        /\ \A q \in Outputs : batch'[Event].out[q] = <<>>
    BY <1>1, PartsAre, NoneApart DEF Still
  <1>3. ASSUME NEW q \in TriggerParts
        PROVE  Singles(log'[q])
    <2>0. q \in Outputs
      BY PartsAre
    <2>1. Singles(log[q]) /\ Singles(batch[Event].out[q])
      BY DEF TopicInv
    <2> QED
      BY <1>0, <1>1, <2>0, <2>1, SinglesConcat
  <1>4. ASSUME NEW q \in TriggerParts, NEW x \in TriggerParts
        PROVE  batch'[x].out[q] = <<>>
    BY <1>2 DEF TopicInv
  <1>5. \A i \in 1 .. Len(batch'[Event].out[Action]) : ~HasAnd[batch'[Event].out[Action][i].key]
    BY <1>2, PartsAre
  <1> QED
    BY <1>1, <1>2, <1>3, <1>4, <1>5, PartsAre, NoneApart DEF TopicInv

\* What a batch of events sends is after everything whose offset is committed, and is covered by
\* the offset committed with it.
LEMMA EventsSent ==
    ASSUME TypeOK, TypeOK', ContentInv, TopicInv, Committed(Event), Forward, NEW q \in Outputs
    PROVE  /\ Apart(batch[Event].out[q])
           /\ Ids(batch[Event].out[q], committed[Event], committed'[Event])
           /\ committed[Event] \in Int /\ committed'[Event] \in Int
           /\ committed[Event] <= committed'[Event]
  <1>1. /\ committed[Event] \in Int /\ committed'[Event] \in Int
        /\ committed[Event] <= committed'[Event]
    BY PartsAre DEF TypeOK, Forward
  <1>2. CASE batch[Event].out # NoMessages
    <2>1. committed'[Event] = pos[Event]
      BY <1>2 DEF Committed, TopicInv
    <2>2. committed[Event] \in Marks(Event)
      BY DEF Marks
    <2> QED
      BY <1>1, <2>1, <2>2 DEF TopicInv
  <1>3. CASE batch[Event].out = NoMessages
    <2>1. batch[Event].out[q] = <<>>
      BY <1>3 DEF NoMessages
    <2> QED
      BY <1>1, <2>1, NoneApart
  <1> QED
    BY <1>2, <1>3

\* The events of a batch are sent when it is committed, and not sent again.
LEMMA FreshCommit ==
    ASSUME TypeOK, TypeOK', ContentInv, TopicInv, FreshInv, Committed(Event), Forward
    PROVE  FreshInv'
  <1> DEFINE c == committed[Event]
             d == committed'[Event]
  <1>1. \A q \in Outputs : log[q] \in Seq(Messages) /\ batch[Event].out[q] \in Seq(Messages)
    BY TopicTypes, PartsAre
  <1>2. \A q \in Outputs : log'[q] = log[q] \o batch[Event].out[q]
    BY DEF Committed
  <1>3. c \in Int /\ d \in Int /\ c <= d
    BY PartsAre DEF TypeOK, Forward
  <1>4. ASSUME NEW q \in Outputs
        PROVE  Apart(batch[Event].out[q]) /\ Ids(batch[Event].out[q], c, d)
    BY EventsSent
  <1> HIDE DEF c, d
  <1>5. ASSUME NEW q \in TriggerParts
        PROVE  Apart(log'[q]) /\ Ids(log'[q], 0, d)
    <2> DEFINE s == log[q]
               r == batch[Event].out[q]
    <2>0. q \in Outputs
      BY PartsAre
    <2>1. /\ s \in Seq(Messages) /\ r \in Seq(Messages) /\ Apart(s) /\ Apart(r)
          /\ Ids(s, 0, c) /\ Ids(r, c, d) /\ log'[q] = s \o r
      BY <1>1, <1>2, <1>4, <2>0 DEF FreshInv, c
    <2> HIDE DEF s, r
    <2>3. \A i \in 1 .. Len(s), j \in 1 .. Len(r) : s[i].evs \cap r[j].evs = {}
      <3>1. 0 \in Int
        OBVIOUS
      <3> QED
        BY ONLY <1>3, <2>1, <3>1, IdsApart
    <2>4. Apart(s \o r)
      BY <2>1, <2>3, ApartConcat
    <2>5. Ids(s, 0, d)
      BY ONLY <1>3, <2>1, IdsGrow
    <2>6. Ids(r, 0, d)
      <3> SUFFICES ASSUME NEW i \in 1 .. Len(r), NEW u \in r[i].evs PROVE 0 <= u.id /\ u.id < d
        BY DEF Ids
      <3> QED
        BY <2>1, IdsTypes DEF Ids
    <2>7. Ids(s \o r, 0, d)
      BY <1>3, <2>1, <2>5, <2>6, IdsConcat
    <2> QED
      BY <2>1, <2>4, <2>7
  <1> QED
    BY <1>5 DEF FreshInv, d

\* The trigger topic does not change when a batch of its own is committed.
LEMMA TopicCommitTrigger ==
    ASSUME TypeOK, ContentInv, TopicInv, NEW p \in TriggerParts, Committed(p)
    PROVE  TopicInv' /\ \A q \in TriggerParts : log'[q] = log[q]
  <1>1. /\ pos' = pos /\ Event \in Parts \ {p} /\ batch'[p] = EmptyBatch
        /\ \A x \in Parts \ {p} : Still(x)
        /\ \A q \in Outputs : log'[q] = log[q] \o batch[p].out[q]
    BY PartsAre DEF Committed
  <1>2. /\ Marks(Event)' \subseteq Marks(Event) /\ stage'[Event] = stage[Event]
        /\ batch'[Event] = batch[Event]
        /\ \A x \in TriggerParts \ {p} : batch'[x] = batch[x]
    BY <1>1, PartsAre DEF Still
  <1>3. ASSUME NEW q \in TriggerParts PROVE log'[q] = log[q]
    <2>1. log[q] \in Seq(Messages) /\ batch[p].out[q] = <<>> /\ q \in Outputs
      BY TopicTypes, PartsAre DEF TopicInv
    <2> QED
      BY <1>1, <2>1, ConcatEmpty
  <1>4. \A x, q \in TriggerParts : batch'[x].out[q] = <<>>
    BY <1>1, <1>2, NoneApart, PartsAre DEF TopicInv
  <1> QED
    BY <1>1, <1>2, <1>3, <1>4 DEF TopicInv

\* Messages stay where they are.
Longer == \A q \in Outputs : /\ Len(log[q]) \in Nat /\ Len(log'[q]) \in Nat
                             /\ Len(log[q]) <= Len(log'[q])
                             /\ \A i \in 1 .. Len(log[q]) : log'[q][i] = log[q][i]

\* A commit adds messages after those that are there.
LEMMA LongerCommit ==
    ASSUME TypeOK, ContentInv, NEW p \in Parts, Committed(p)
    PROVE  Longer
  <1> SUFFICES ASSUME NEW q \in Outputs
               PROVE  /\ Len(log[q]) \in Nat /\ Len(log'[q]) \in Nat
                      /\ Len(log[q]) <= Len(log'[q])
                      /\ \A i \in 1 .. Len(log[q]) : log'[q][i] = log[q][i]
    BY DEF Longer
  <1> DEFINE s == log[q]
             r == batch[p].out[q]
  <1>1. s \in Seq(Messages) /\ r \in Seq(Messages) /\ log'[q] = s \o r
    BY TopicTypes DEF Committed
  <1> HIDE DEF s, r
  <1>2. /\ Len(s) \in Nat /\ Len(r) \in Nat /\ Len(s \o r) = Len(s) + Len(r)
        /\ \A i \in 1 .. Len(s) : (s \o r)[i] = s[i]
    BY <1>1, Concat
  <1> QED
    BY <1>1, <1>2 DEF s

\* Other steps add none.
LEMMA LongerSame ==
    ASSUME TypeOK, ContentInv, \A q \in Outputs : log'[q] = log[q]
    PROVE  Longer
  <1>1. \A q \in Outputs : Len(log[q]) \in Nat
    BY TopicTypes
  <1> QED
    BY <1>1 DEF Longer

\* An event stays at its offset.
LEMMA AtStays ==
    ASSUME Longer, NEW p \in TriggerParts, NEW t, NEW u, NEW o \in Nat, At(p, t, u, o)
    PROVE  /\ o < Len(log'[p]) /\ log'[p][o + 1] = log[p][o + 1]
           /\ At(p, t, u, o)'
  <1>1. p \in Outputs /\ o < Len(log[p])
    BY PartsAre DEF At
  <1>2. o + 1 \in 1 .. Len(log[p]) /\ Len(log[p]) \in Nat /\ Len(log'[p]) \in Nat
    BY <1>1 DEF Longer
  <1>3. o < Len(log'[p]) /\ log'[p][o + 1] = log[p][o + 1]
    BY <1>1, <1>2 DEF Longer
  <1> QED
    BY <1>3 DEF At

\* What is held is an event of one of the trigger's partitions.
LEMMA HeldTypes ==
    ASSUME TypeOK, NEW w \in Pods, NEW t \in Triggers, NEW e \in events[w][t]
    PROVE  /\ e \in Held /\ e.part \in TriggerParts /\ e.part \in Partitions[t] /\ e.offset \in Nat
           /\ pos[e.part] \in Nat /\ checkpoint[e.part][t] \in Nat
  <1>1. e \in Held /\ e.part \in Partitions[t]
    BY DEF TypeOK
  <1>2. e.part \in TriggerParts /\ e.part \in Parts /\ e.offset \in Nat
    BY <1>1, PartsAre DEF Held
  <1> QED
    BY <1>1, <1>2 DEF TypeOK

\* What is held stays valid as messages are added and consumed.
LEMMA HoldStays ==
    ASSUME TypeOK, HoldInv, Longer, UNCHANGED <<owner, checkpoint>>,
           \A w \in Pods, t \in Triggers : events'[w][t] \in SUBSET events[w][t],
           \A p \in TriggerParts : pos'[p] = pos[p] \/ pos'[p] = pos[p] + 1
    PROVE  HoldInv'
  <1> SUFFICES ASSUME NEW w \in Pods, NEW t \in Triggers, NEW e \in events'[w][t]
               PROVE  Holds(w, t, e)'
    BY DEF HoldInv
  <1>1. e \in events[w][t]
    OBVIOUS
  <1>2. e.part \in TriggerParts /\ e.offset \in Nat /\ pos[e.part] \in Nat
    BY <1>1, HeldTypes
  <1>3. /\ owner[e.part] = w /\ checkpoint[e.part][t] <= e.offset /\ e.offset < pos[e.part]
        /\ At(e.part, t, [dep |-> e.dep, id |-> e.id], e.offset)
        /\ log[e.part][e.offset + 1].dep = e.dep
    BY <1>1 DEF HoldInv, Holds
  <1>4. /\ At(e.part, t, [dep |-> e.dep, id |-> e.id], e.offset)'
        /\ log'[e.part][e.offset + 1] = log[e.part][e.offset + 1]
    BY <1>2, <1>3, AtStays
  <1>5. e.offset < pos'[e.part]
    BY <1>2, <1>3
  <1> QED
    BY <1>3, <1>4, <1>5 DEF Holds

\* KafkaTriggerConnection.Update: what is held now.
LEMMA HoldTriggered ==
    ASSUME TypeOK, ContentInv, HoldInv, NEW p \in TriggerParts,
           NEW out, NEW offset, Took(p, out, offset),
           NEW t, NEW held, NEW msg, Triggered(p, t, held, msg)
    PROVE  HoldInv'
  <1>0. /\ UNCHANGED <<log, owner>> /\ pos[p] \in Nat /\ pos[p] < Len(log[p])
        /\ pos'[p] = pos[p] + 1 /\ \A x \in TriggerParts \ {p} : pos'[x] = pos[x]
    BY PartsAre DEF Took, Still
  <1>1. owner[p] \in Pods /\ p \in Parts /\ t \in Triggers
    BY PartsAre DEF TypeOK, Triggered
  <1>2. ASSUME NEW w \in Pods, NEW u \in Triggers, NEW e \in events[w][u],
               checkpoint'[e.part][u] = checkpoint[e.part][u]
        PROVE  Holds(w, u, e)'
    <2>1. e.part \in TriggerParts /\ e.offset \in Nat /\ pos[e.part] \in Nat
      BY HeldTypes
    <2>2. /\ owner[e.part] = w /\ checkpoint[e.part][u] <= e.offset /\ e.offset < pos[e.part]
          /\ At(e.part, u, [dep |-> e.dep, id |-> e.id], e.offset)
          /\ log[e.part][e.offset + 1].dep = e.dep
      BY DEF HoldInv, Holds
    <2>3. e.offset < pos'[e.part]
      BY <1>0, <2>1, <2>2
    <2> QED
      BY <1>0, <1>2, <2>2, <2>3 DEF Holds, At
  <1> SUFFICES ASSUME NEW w \in Pods, NEW u \in Triggers, NEW e \in events'[w][u]
               PROVE  Holds(w, u, e)'
    BY DEF HoldInv
  <1>3. CASE <<w, u>> # <<owner[p], t>>
    <2>1. e \in events[w][u]
      BY <1>3 DEF Triggered
    <2>2. e.part \in TriggerParts /\ owner[e.part] = w
      BY <2>1, HeldTypes DEF HoldInv, Holds
    <2>3. <<e.part, u>> # <<p, t>>
      BY <1>3, <2>2
    <2>4. checkpoint'[e.part][u] = checkpoint[e.part][u]
      BY <2>2, <2>3 DEF Triggered
    <2> QED
      BY <1>2, <2>1, <2>4
  <1>4. CASE w = owner[p] /\ u = t
    <2>1. e \in held /\ checkpoint'[p][t] = checkpoint[p][t]
      BY <1>4 DEF Triggered
    <2>2. CASE e \in events[w][t]
      <3>1. e.part \in TriggerParts
        BY <1>1, <2>2, HeldTypes
      <3>2. checkpoint'[e.part][t] = checkpoint[e.part][t]
        BY <1>1, <2>1, <3>1 DEF Triggered
      <3> QED
        BY <1>1, <1>2, <1>4, <2>2, <3>2
    <2>3. CASE /\ e.part = p /\ e.offset = pos[p] /\ e.dep = Msg(p).dep
               /\ [dep |-> e.dep, id |-> e.id] \in Msg(p).evs
      <3>1. checkpoint'[p][t] <= pos[p] /\ Msg(p).key = t
        BY <2>1 DEF Triggered
      <3>2. At(p, t, [dep |-> e.dep, id |-> e.id], pos[p])
        BY <1>0, <2>3, <3>1 DEF At, Msg
      <3> QED
        BY <1>0, <1>4, <2>3, <3>1, <3>2 DEF Msg, Holds, At
    <2> QED
      BY <1>4, <2>1, <2>2, <2>3 DEF Triggered
  <1> QED
    BY <1>3, <1>4

\* Cleanup resets the triggers.
LEMMA HoldRebalance ==
    ASSUME Rebalance
    PROVE  HoldInv'
  BY DEF Rebalance, HoldInv, NoEvents

\* Of two sequences.
LEMMA InConcat ==
    ASSUME NEW s \in Seq(Messages), NEW r \in Seq(Messages), NEW m, In(m, s \o r)
    PROVE  In(m, s) \/ In(m, r)
  <1> DEFINE a == s \o r
  <1>0. /\ \A i \in 1 .. Len(s) : a[i] = s[i]
        /\ \A j \in 1 .. Len(r) : a[Len(s) + j] = r[j]
        /\ \A i \in 1 .. Len(a) : i \in 1 .. Len(s) \/ \E j \in 1 .. Len(r) : i = Len(s) + j
    <2>1. \A i \in 1 .. Len(s) : a[i] = s[i]
      BY ONLY s \in Seq(Messages), r \in Seq(Messages)
    <2>2. \A j \in 1 .. Len(r) : a[Len(s) + j] = r[j]
      BY ONLY s \in Seq(Messages), r \in Seq(Messages)
    <2>3. \A i \in 1 .. Len(a) : i \in 1 .. Len(s) \/ \E j \in 1 .. Len(r) : i = Len(s) + j
      BY ONLY Concat, s \in Seq(Messages), r \in Seq(Messages)
    <2> QED
      BY ONLY <2>1, <2>2, <2>3
  <1> HIDE DEF a
  <1>1. PICK i \in 1 .. Len(a) : a[i] = m
    BY DEF In, a
  <1>2. CASE i \in 1 .. Len(s)
    BY <1>0, <1>1, <1>2 DEF In
  <1>3. CASE i \notin 1 .. Len(s)
    <2>1. PICK j \in 1 .. Len(r) : i = Len(s) + j
      BY <1>0, <1>3
    <2> QED
      BY <1>0, <1>1, <2>1 DEF In
  <1> QED
    BY <1>2, <1>3

\* A message and those before it.
LEMMA OneMore ==
    ASSUME NEW s \in Seq(Messages), NEW m \in Messages
    PROVE  /\ Append(s, m) = s \o <<m>> /\ <<m>> \in Seq(Messages) /\ Apart(<<m>>)
           /\ \A x : In(x, <<m>>) => x = m
           /\ \A j \in 1 .. Len(<<m>>) : <<m>>[j] = m
           /\ In(m, Append(s, m))
           /\ \A x : In(x, s) => In(x, Append(s, m))
  <1>1. Append(s, m) = s \o <<m>> /\ <<m>> \in Seq(Messages)
    OBVIOUS
  <1>2. Len(<<m>>) = 1 /\ <<m>>[1] = m
    OBVIOUS
  <1>3. \A j \in 1 .. Len(<<m>>) : j = 1
    BY <1>2
  <1>4. Apart(<<m>>) /\ \A x : In(x, <<m>>) => x = m
    BY <1>2, <1>3 DEF Apart, In
  <1>5. \A j \in 1 .. Len(<<m>>) : <<m>>[j] = m
    BY <1>2, <1>3
  <1>6. /\ Len(Append(s, m)) = Len(s) + 1 /\ Append(s, m)[Len(s) + 1] = m
        /\ \A i \in 1 .. Len(s) : Append(s, m)[i] = s[i]
        /\ Len(s) \in Nat
    OBVIOUS
  <1>7. Len(s) + 1 \in 1 .. Len(Append(s, m)) /\ \A i \in 1 .. Len(s) : i \in 1 .. Len(Append(s, m))
    BY <1>6
  <1>8. In(m, Append(s, m)) /\ \A x : In(x, s) => In(x, Append(s, m))
    BY <1>6, <1>7 DEF In
  <1> QED
    BY <1>1, <1>4, <1>5, <1>8

\* An event is at one offset of the trigger topic, for a trigger.
LEMMA AtOnce ==
    ASSUME NEW p, Apart(log[p]), Len(log[p]) \in Nat, NEW t, NEW u, NEW o \in Nat, NEW n \in Nat,
           At(p, t, u, o), At(p, t, u, n)
    PROVE  o = n
  <1>1. /\ o + 1 \in 1 .. Len(log[p]) /\ n + 1 \in 1 .. Len(log[p])
        /\ log[p][o + 1].key = log[p][n + 1].key
        /\ u \in log[p][o + 1].evs /\ u \in log[p][n + 1].evs
    BY DEF At
  <1>2. o + 1 = n + 1
    BY <1>1 DEF Apart
  <1> QED
    BY <1>2

\* The checkpoint in memory stays ahead of what is stored.
LEMMA CheckStays ==
    ASSUME TypeOK, TypeOK', CheckInv,
           \A p \in TriggerParts, t \in Triggers : checkpoint[p][t] <= checkpoint'[p][t],
           \A p \in TriggerParts : \A m \in Stored(p)' :
              m \in Stored(p) \/ m = checkpoint[p] \/ m = NoCheckpoint
    PROVE  CheckInv'
  <1> SUFFICES ASSUME NEW p \in TriggerParts, NEW m \in Stored(p)', NEW t \in Triggers
               PROVE  m[t] <= checkpoint'[p][t]
    BY DEF CheckInv
  <1>1. checkpoint[p][t] \in Nat /\ checkpoint'[p][t] \in Nat /\ checkpoint[p][t] <= checkpoint'[p][t]
    BY PartsAre DEF TypeOK
  <1>2. CASE m \in Stored(p)
    <2>1. m[t] \in Nat /\ m[t] <= checkpoint[p][t]
      BY <1>2, PartsAre, StoredTypes DEF CheckInv
    <2> QED
      BY <1>1, <2>1
  <1>3. CASE m = checkpoint[p]
    BY <1>1, <1>3
  <1>4. CASE m = NoCheckpoint
    <2>1. m[t] = 0
      BY <1>4 DEF NoCheckpoint
    <2> QED
      BY <1>1, <2>1
  <1> QED
    BY <1>2, <1>3, <1>4

\* Checkpoints are read back.
LEMMA CheckRebalance ==
    ASSUME TypeOK, Rebalance
    PROVE  CheckInv'
  <1>1. metadata' = metadata /\ checkpoint' = metadata /\ dirty' = [p \in Parts |-> {}]
    BY DEF Rebalance, bus
  <1>2. \A p \in TriggerParts : \A t \in Triggers : metadata[p][t] \in Nat
    BY PartsAre DEF TypeOK
  <1>3. \A p \in TriggerParts : Stored(p)' = {metadata[p]}
    BY <1>1, PartsAre DEF Stored
  <1> QED
    BY <1>1, <1>2, <1>3 DEF CheckInv

\* What a checkpoint covers stays covered.
LEMMA ConsumedStays ==
    ASSUME TypeOK, TypeOK', Longer, NEW m \in Messages, Consumed(m), Forward
    PROVE  Consumed(m)'
  <1> SUFFICES ASSUME HasAnd[m.key], NEW u \in m.evs, NEW p \in Partitions[m.key]
               PROVE  \E o \in Nat : o < metadata'[p][m.key] /\ At(p, m.key, u, o)'
    BY DEF Consumed
  <1>1. m.key \in Triggers /\ p \in TriggerParts /\ p \in Parts
    BY KafkaAssumption, PartsAre DEF Messages, KafkaAssumption
  <1>2. PICK o \in Nat : o < metadata[p][m.key] /\ At(p, m.key, u, o)
    BY DEF Consumed
  <1>3. At(p, m.key, u, o)'
    BY <1>1, <1>2, AtStays
  <1>4. metadata[p][m.key] \in Nat /\ metadata'[p][m.key] \in Nat
    <2>1. metadata \in [Parts -> [Triggers -> Nat]] /\ metadata' \in [Parts -> [Triggers -> Nat]]
      BY DEF TypeOK
    <2> QED
      BY <1>1, <2>1
  <1>5. o < metadata'[p][m.key]
    BY <1>1, <1>2, <1>4 DEF Forward
  <1> QED
    BY <1>3, <1>5

\* A message of the batch stays covered by the checkpoint in memory.
LEMMA FiringStays ==
    ASSUME TypeOK, TypeOK', Longer, NEW p \in TriggerParts, NEW m \in Messages, Firing(p, m),
           Stored(p)' \subseteq Stored(p),
           \A t \in Triggers : checkpoint[p][t] <= checkpoint'[p][t]
    PROVE  Firing(p, m)'
  <1> SUFFICES ASSUME NEW u \in m.evs
               PROVE  \E o \in Nat : /\ \A x \in Stored(p)' : x[m.key] <= o
                                     /\ o < checkpoint'[p][m.key] /\ At(p, m.key, u, o)'
    BY DEF Firing
  <1>1. m.key \in Triggers /\ p \in Parts
    BY PartsAre DEF Messages
  <1>2. PICK o \in Nat : /\ \A x \in Stored(p) : x[m.key] <= o
                         /\ o < checkpoint[p][m.key] /\ At(p, m.key, u, o)
    BY DEF Firing
  <1>3. At(p, m.key, u, o)'
    BY <1>1, <1>2, AtStays
  <1>4. checkpoint[p][m.key] \in Nat /\ checkpoint'[p][m.key] \in Nat
    <2>1. checkpoint \in [Parts -> [Triggers -> Nat]] /\ checkpoint' \in [Parts -> [Triggers -> Nat]]
      BY DEF TypeOK
    <2> QED
      BY <1>1, <2>1
  <1>5. o < checkpoint'[p][m.key]
    BY <1>1, <1>2, <1>4
  <1> QED
    BY <1>2, <1>3, <1>5

\* The action topic does not change.
LEMMA UseLogStays ==
    ASSUME TypeOK, TypeOK', ContentInv, UseInv, Longer, log'[Action] = log[Action], Forward
    PROVE  UseLog'
  <1>1. /\ committed[Event] \in Int /\ committed'[Event] \in Int /\ log[Action] \in Seq(Messages)
        /\ committed[Event] <= committed'[Event]
    BY TopicTypes, PartsAre DEF TypeOK, Forward
  <1>2. Ids(log[Action], 0, committed'[Event])
    <2>1. Ids(log[Action], 0, committed[Event])
      BY DEF UseInv, UseLog
    <2> QED
      BY ONLY <1>1, <2>1, IdsGrow
  <1>3. ASSUME NEW m \in Messages, In(m, log[Action])
        PROVE  Consumed(m)'
    <2>1. Consumed(m)
      BY <1>3 DEF UseInv, UseLog
    <2> QED
      BY <2>1, ConsumedStays
  <1>4. Apart(log[Action])
    BY DEF UseInv, UseLog
  <1> QED
    BY <1>2, <1>3, <1>4 DEF UseLog

\* The trigger topic does not change.
LEMMA FreshStays ==
    ASSUME TypeOK, TypeOK', ContentInv, FreshInv, \A q \in TriggerParts : log'[q] = log[q], Forward
    PROVE  FreshInv'
  <1> SUFFICES ASSUME NEW q \in TriggerParts
               PROVE  Apart(log[q]) /\ Ids(log[q], 0, committed'[Event])
    BY DEF FreshInv
  <1>1. /\ committed[Event] \in Int /\ committed'[Event] \in Int /\ log[q] \in Seq(Messages)
        /\ committed[Event] <= committed'[Event]
    BY TopicTypes, PartsAre DEF TypeOK, Forward
  <1>2. Apart(log[q]) /\ Ids(log[q], 0, committed[Event])
    BY DEF FreshInv
  <1> QED
    BY ONLY <1>1, <1>2, IdsGrow

\* A batch stays as it is, or is forgotten.
LEMMA UseBatchStays ==
    ASSUME TypeOK, TypeOK', UseInv, Longer, NEW p \in TriggerParts,
           batch'[p].out[Action] = batch[p].out[Action] \/ batch'[p].out[Action] = <<>>,
           Stored(p)' \subseteq Stored(p),
           \A t \in Triggers : checkpoint[p][t] <= checkpoint'[p][t]
    PROVE  UseBatch(p)'
  <1>1. Apart(batch'[p].out[Action])
    BY NoneApart DEF UseInv, UseBatch
  <1>2. ASSUME NEW m \in Messages, In(m, batch'[p].out[Action])
        PROVE  Firing(p, m)'
    <2>1. Firing(p, m)
      BY <1>2 DEF UseInv, UseBatch, In
    <2> QED
      BY <2>1, FiringStays
  <1> QED
    BY <1>1, <1>2 DEF UseBatch

\* The messages and offsets of a partition.
LEMMA LogTypes ==
    ASSUME TypeOK, ContentInv, NEW p \in TriggerParts
    PROVE  /\ log[p] \in Seq(Messages) /\ Len(log[p]) \in Nat
           /\ batch[p].out[Action] \in Seq(Messages) /\ log[Action] \in Seq(Messages)
           /\ \A t \in Triggers : metadata[p][t] \in Nat /\ checkpoint[p][t] \in Nat
  <1>1. p \in Parts /\ p \in Outputs /\ Action \in Outputs
    BY PartsAre
  <1>2. log[p] \in Seq(Messages) /\ batch[p].out[Action] \in Seq(Messages) /\ log[Action] \in Seq(Messages)
    BY <1>1, TopicTypes
  <1> QED
    BY <1>1, <1>2 DEF TypeOK

\* Steps that add to neither.
LEMMA UseStays ==
    ASSUME TypeOK, TypeOK', ContentInv, UseInv, Longer, \A q \in Outputs : log'[q] = log[q], Forward,
           \A p \in TriggerParts : Stored(p)' \subseteq Stored(p),
           \A p \in TriggerParts, t \in Triggers : checkpoint[p][t] <= checkpoint'[p][t],
           \A p \in TriggerParts :
              batch'[p].out[Action] = batch[p].out[Action] \/ batch'[p].out[Action] = <<>>
    PROVE  UseInv'
  <1>0. log'[Action] = log[Action] /\ \A q \in TriggerParts : log'[q] = log[q]
    BY PartsAre
  <1>1. FreshInv'
    BY <1>0, FreshStays DEF UseInv
  <1>2. UseLog'
    BY <1>0, UseLogStays
  <1>3. ASSUME NEW p \in TriggerParts PROVE UseBatch(p)'
    BY UseBatchStays
  <1> QED
    BY <1>1, <1>2, <1>3 DEF UseInv

\* Consumption starts again without a batch.
LEMMA UseRebalance ==
    ASSUME TypeOK, TypeOK', ContentInv, OffsetInv, UseInv, Rebalance, Forward
    PROVE  UseInv'
  <1>1. log' = log /\ batch' = batch /\ \A p \in Parts : batch[p] = EmptyBatch
    BY DEF Rebalance, bus, OffsetInv, Behind
  <1>2. Longer
    BY <1>1, LongerSame
  <1>3. UseLog' /\ FreshInv'
    BY <1>1, <1>2, UseLogStays, FreshStays DEF UseInv
  <1>4. ASSUME NEW p \in TriggerParts PROVE UseBatch(p)'
    <2>1. batch'[p].out[Action] = <<>>
      BY <1>1, PartsAre, NoneApart
    <2>2. \A m \in Messages : ~In(m, batch'[p].out[Action])
      BY <2>1 DEF In
    <2> QED
      BY <2>1, <2>2, NoneApart DEF UseBatch
  <1> QED
    BY <1>3, <1>4 DEF UseInv

\* The trigger of a message of partition p has no other partition.
LEMMA OnlyPartition ==
    ASSUME OnePartition, NEW t \in Triggers, NEW p \in Partitions[t], NEW q \in Partitions[t]
    PROVE  q = p
  BY DEF OnePartition

\* What the trigger holds when it fires is at or after its checkpoint.
LEMMA FiredUses ==
    ASSUME OnePartition, TypeOK, ContentInv, HoldInv, NEW p \in TriggerParts,
           NEW out, NEW offset, Took(p, out, offset),
           NEW t, NEW held, NEW msg, Triggered(p, t, held, msg), NEW u \in msg.evs
    PROVE  \E o \in Nat : checkpoint[p][t] <= o /\ o < pos[p] + 1 /\ At(p, t, u, o)
  <1>0. /\ pos[p] \in Nat /\ pos[p] < Len(log[p]) /\ Available(p) /\ p \in Parts /\ p \in Outputs
        /\ owner[p] \in Pods /\ t \in Triggers /\ t = Msg(p).key /\ checkpoint[p][t] \in Nat
    BY PartsAre DEF Took, Triggered, TypeOK
  <1>1. PICK e \in held : u = [dep |-> e.dep, id |-> e.id]
    BY DEF Triggered
  <1>2. CASE e \in events[owner[p]][t]
    <2>1. /\ e.part \in Partitions[t] /\ e.offset \in Nat
      BY <1>0, <1>2, HeldTypes
    <2>2. p \in Partitions[t]
      <3>1. Msg(p) \in Content(p)
        BY <1>0, MsgTypes
      <3> QED
        BY <1>0, <3>1 DEF Content
    <2>3. e.part = p
      BY <1>0, <2>1, <2>2, OnlyPartition
    <2>4. checkpoint[p][t] <= e.offset /\ e.offset < pos[p] /\ At(p, t, u, e.offset)
      <3>1. Holds(owner[p], t, e)
        BY <1>0, <1>2 DEF HoldInv
      <3> QED
        BY <1>1, <2>3, <3>1 DEF Holds
    <2>5. e.offset < pos[p] + 1
      BY <1>0, <2>1, <2>4
    <2> QED
      BY <2>1, <2>4, <2>5
  <1>3. CASE e.part = p /\ e.offset = pos[p] /\ [dep |-> e.dep, id |-> e.id] \in Msg(p).evs
    <2>1. checkpoint[p][t] <= pos[p]
      BY DEF Triggered
    <2>2. At(p, t, u, pos[p])
      BY <1>0, <1>1, <1>3 DEF At, Msg
    <2>3. pos[p] < pos[p] + 1
      BY <1>0
    <2> QED
      BY <1>0, <2>1, <2>2, <2>3
  <1> QED
    BY <1>1, <1>2, <1>3 DEF Triggered

\* KafkaSensor.Trigger moves checkpoints forward.
LEMMA CheckpointGrows ==
    ASSUME TypeOK, ContentInv, NEW p \in TriggerParts, NEW out, NEW offset, Took(p, out, offset),
           NEW t, NEW held, NEW msg, Triggered(p, t, held, msg)
    PROVE  \A x \in TriggerParts, v \in Triggers : checkpoint[x][v] <= checkpoint'[x][v]
  <1>0. pos[p] \in Nat
    BY DEF Took
  <1> SUFFICES ASSUME NEW x \in TriggerParts, NEW v \in Triggers
               PROVE  checkpoint[x][v] <= checkpoint'[x][v]
    OBVIOUS
  <1>1. checkpoint[x][v] \in Nat
    BY LogTypes
  <1>2. CASE <<x, v>> # <<p, t>>
    BY <1>1, <1>2 DEF Triggered
  <1>3. CASE x = p /\ v = t
    <2>1. checkpoint[p][t] <= pos[p]
      BY DEF Triggered
    <2>2. checkpoint'[p][t] = pos[p] + 1 \/ checkpoint'[p][t] = checkpoint[p][t]
      BY DEF Triggered
    <2> QED
      BY <1>0, <1>1, <1>3, <2>1, <2>2
  <1> QED
    BY <1>2, <1>3

\* KafkaSensor.Trigger uses no event again: what the batch or the action topic has of this
\* trigger is before its checkpoint.
LEMMA UseTriggered ==
    ASSUME OnePartition, TypeOK, TypeOK', ContentInv, TopicInv, HoldInv, CheckInv, UseInv,
           Forward,
           NEW p \in TriggerParts, NEW out, NEW offset, Took(p, out, offset),
           NEW t, NEW held, NEW msg, Triggered(p, t, held, msg)
    PROVE  UseInv'
  <1>0. /\ UNCHANGED log /\ pos[p] \in Nat /\ \A x \in TriggerParts : Stored(x)' = Stored(x)
        /\ \A x \in Parts \ {p} : Still(x)
    BY SameStored DEF Took
  <1>1. Longer
    BY <1>0, LongerSame
  <1>2. \A x \in TriggerParts \ {p} : batch'[x] = batch[x]
    BY <1>0, PartsAre DEF Still
  <1>3. \A x \in TriggerParts, v \in Triggers : checkpoint[x][v] <= checkpoint'[x][v]
    BY CheckpointGrows
  <1>4. UseLog' /\ FreshInv'
    BY <1>0, <1>1, UseLogStays, FreshStays DEF UseInv
  <1>5. ASSUME NEW x \in TriggerParts, batch'[x].out[Action] = batch[x].out[Action]
        PROVE  UseBatch(x)'
    BY <1>0, <1>1, <1>3, <1>5, UseBatchStays
  <1>6. ASSUME /\ checkpoint'[p][t] = pos[p] + 1
               /\ batch'[p].out[Action] = Append(batch[p].out[Action], msg)
        PROVE  UseBatch(p)'
    <2> DEFINE s == batch[p].out[Action]
    <2>1. /\ s \in Seq(Messages) /\ msg \in Messages /\ msg.key = t /\ t \in Triggers
          /\ Apart(s) /\ batch'[p].out[Action] = Append(s, msg)
          /\ log[p] \in Seq(Messages) /\ Len(log[p]) \in Nat
          /\ checkpoint[p][t] \in Nat /\ Apart(log[p])
      BY <1>6, LogTypes DEF Triggered, UseInv, UseBatch, FreshInv
    <2>2. \A m \in Messages : In(m, s) => Firing(p, m)
      BY DEF UseInv, UseBatch
    <2> HIDE DEF s
    <2>3. ASSUME NEW i \in 1 .. Len(s), s[i].key = t, NEW u \in s[i].evs, u \in msg.evs
          PROVE  FALSE
      <3>1. s[i] \in Messages /\ In(s[i], s)
        BY <2>1 DEF In
      <3>2. Firing(p, s[i])
        BY <2>2, <3>1
      <3>3. PICK o \in Nat : o < checkpoint[p][t] /\ At(p, t, u, o)
        BY <2>3, <3>2 DEF Firing
      <3>4. PICK n \in Nat : checkpoint[p][t] <= n /\ At(p, t, u, n)
        BY <2>3, FiredUses
      <3>5. o = n
        BY <2>1, <3>3, <3>4, AtOnce
      <3> QED
        BY <2>1, <3>3, <3>4, <3>5
    <2>4. Apart(Append(s, msg))
      <3>1. /\ Append(s, msg) = s \o <<msg>> /\ <<msg>> \in Seq(Messages) /\ Apart(<<msg>>)
            /\ \A j \in 1 .. Len(<<msg>>) : <<msg>>[j] = msg
        BY <2>1, OneMore
      <3>2. \A i \in 1 .. Len(s), j \in 1 .. Len(<<msg>>) :
               s[i].key = <<msg>>[j].key => s[i].evs \cap <<msg>>[j].evs = {}
        BY <2>1, <2>3, <3>1
      <3>3. Apart(s \o <<msg>>)
        <4> DEFINE r == <<msg>>
        <4> HIDE DEF r
        <4> QED
          BY <2>1, <3>1, <3>2, ApartConcat DEF r
      <3> QED
        BY <3>1, <3>3
    <2>5. Firing(p, msg)'
      <3>1. HasAnd[t] /\ p \in Partitions[t]
        <4>1. Available(p) /\ p \in Parts /\ p \in Outputs /\ t = Msg(p).key
          BY PartsAre DEF Took, Triggered
        <4>2. Msg(p) \in Content(p) /\ pos[p] + 1 \in 1 .. Len(log[p])
          BY <1>0, <2>1, <4>1, MsgTypes
        <4>3. Single(log[p][pos[p] + 1])
          BY <4>2 DEF TopicInv, Singles
        <4> QED
          BY <4>1, <4>2, <4>3 DEF Content, Single, Msg
      <3> SUFFICES ASSUME NEW u \in msg.evs
                   PROVE  \E o \in Nat : /\ \A x \in Stored(p)' : x[t] <= o
                                         /\ o < checkpoint'[p][t] /\ At(p, t, u, o)'
        BY <2>1, <3>1 DEF Firing
      <3>2. PICK o \in Nat : checkpoint[p][t] <= o /\ o < pos[p] + 1 /\ At(p, t, u, o)
        BY FiredUses
      <3>3. At(p, t, u, o)'
        BY <1>1, <3>2, AtStays
      <3>4. o < checkpoint'[p][t]
        BY <1>6, <3>2
      <3>5. ASSUME NEW x \in Stored(p)' PROVE x[t] <= o
        <4>1. x \in Stored(p)
          BY <1>0
        <4>2. x[t] \in Nat /\ x[t] <= checkpoint[p][t]
          BY <2>1, <4>1, PartsAre, StoredTypes DEF CheckInv
        <4> QED
          BY <2>1, <3>2, <4>2
      <3> QED
        BY <3>3, <3>4, <3>5
    <2>6. ASSUME NEW m \in Messages, In(m, Append(s, msg))
          PROVE  Firing(p, m)'
      <3>1. CASE In(m, s)
        <4>1. Firing(p, m)
          BY <2>2, <3>1
        <4> QED
          BY <1>0, <1>1, <1>3, <4>1, FiringStays
      <3>2. CASE ~In(m, s)
        <4>1. /\ Append(s, msg) = s \o <<msg>> /\ <<msg>> \in Seq(Messages)
              /\ \A x : In(x, <<msg>>) => x = msg
          BY <2>1, OneMore
        <4>2. In(m, <<msg>>)
          BY <2>1, <2>6, <3>2, <4>1, InConcat
        <4>3. m = msg
          BY <4>1, <4>2
        <4> QED
          BY <2>5, <4>3
      <3> QED
        BY <3>1, <3>2
    <2> QED
      BY <2>1, <2>4, <2>6 DEF UseBatch
  <1>7. UseBatch(p)'
    BY <1>5, <1>6 DEF Triggered
  <1>8. ASSUME NEW x \in TriggerParts PROVE UseBatch(x)'
    BY <1>2, <1>5, <1>7
  <1> QED
    BY <1>4, <1>8 DEF UseInv

\* Events for triggers that need no other go to the action topic once.
LEMMA UseCommitEvent ==
    ASSUME TypeOK, TypeOK', ContentInv, TopicInv, UseInv, Committed(Event), Forward
    PROVE  UseInv'
  <1> DEFINE s == log[Action]
             r == batch[Event].out[Action]
             c == committed[Event]
             d == committed'[Event]
  <1>0. /\ UNCHANGED <<checkpoint>> /\ \A x \in Parts \ {Event} : Still(x)
        /\ log'[Action] = s \o r
    BY PartsAre DEF Committed
  <1>1. Longer
    BY PartsAre, LongerCommit
  <1>2. /\ s \in Seq(Messages) /\ r \in Seq(Messages)
        /\ c \in Int /\ d \in Int /\ c <= d
    BY TopicTypes, EventsSent, PartsAre
  <1>3. \A x \in TriggerParts : batch'[x] = batch[x] /\ Stored(x)' \subseteq Stored(x)
    BY <1>0, PartsAre DEF Still
  <1>4. Apart(r) /\ Ids(r, c, d) /\ \A i \in 1 .. Len(r) : ~HasAnd[r[i].key]
    BY EventsSent, PartsAre DEF TopicInv
  <1>5. /\ Apart(s) /\ Ids(s, 0, c)
        /\ \A m \in Messages : In(m, s) => Consumed(m)
    BY DEF UseInv, UseLog
  <1> HIDE DEF s, r, c, d
  <1>6. Apart(s \o r)
    <2>1. \A i \in 1 .. Len(s), j \in 1 .. Len(r) : s[i].evs \cap r[j].evs = {}
      BY <1>2, <1>4, <1>5, IdsApart
    <2> QED
      BY <1>2, <1>4, <1>5, <2>1, ApartConcat
  <1>7. Ids(s \o r, 0, d)
    <2>1. Ids(s, 0, d)
      BY ONLY <1>2, <1>5, IdsGrow
    <2>2. Ids(r, 0, d)
      <3> SUFFICES ASSUME NEW i \in 1 .. Len(r), NEW u \in r[i].evs PROVE 0 <= u.id /\ u.id < d
        BY DEF Ids
      <3> QED
        BY <1>2, <1>4, IdsTypes DEF Ids
    <2> QED
      BY <1>2, <2>1, <2>2, IdsConcat
  <1>8. FreshInv'
    BY FreshCommit DEF UseInv
  <1>9. ASSUME NEW m \in Messages, In(m, s \o r)
        PROVE  Consumed(m)'
    <2>1. CASE In(m, s)
      <3>1. Consumed(m)
        BY <1>5, <2>1
      <3> QED
        BY <1>1, <3>1, ConsumedStays
    <2>2. CASE In(m, r)
      <3>1. ~HasAnd[m.key]
        BY <1>4, <2>2 DEF In
      <3> QED
        BY <3>1 DEF Consumed
    <2> QED
      BY <1>2, <1>9, <2>1, <2>2, InConcat
  <1>10. UseLog'
    BY <1>0, <1>6, <1>7, <1>9 DEF UseLog, d
  <1>11. ASSUME NEW p \in TriggerParts PROVE UseBatch(p)'
    <2>1. \A t \in Triggers : checkpoint[p][t] <= checkpoint'[p][t]
      BY <1>0, LogTypes
    <2> QED
      BY <1>1, <1>3, <2>1, UseBatchStays
  <1> QED
    BY <1>8, <1>10, <1>11 DEF UseInv

\* KafkaTransaction.Commit: the checkpoint is stored with the messages that it covers.
LEMMA UseCommitTrigger ==
    ASSUME OnePartition, TypeOK, TypeOK', ContentInv, TopicInv, UseInv, Forward,
           NEW p \in TriggerParts, Committed(p)
    PROVE  UseInv'
  <1> DEFINE s == log[Action]
             r == batch[p].out[Action]
             c == committed[Event]
  <1>0. /\ UNCHANGED checkpoint /\ \A x \in Parts \ {p} : Still(x)
        /\ log'[Action] = s \o r /\ batch'[p] = EmptyBatch
        /\ batch[p].out # NoMessages => metadata'[p] = checkpoint[p]
    BY PartsAre DEF Committed
  <1>1. Longer
    BY PartsAre, LongerCommit
  <1>2. /\ s \in Seq(Messages) /\ r \in Seq(Messages) /\ c \in Int /\ committed'[Event] \in Int
        /\ c <= committed'[Event]
    BY TopicTypes, PartsAre DEF TypeOK, Forward
  <1>3. \A x \in TriggerParts \ {p} : batch'[x] = batch[x] /\ Stored(x)' \subseteq Stored(x)
    BY <1>0, PartsAre DEF Still
  <1>4. /\ Apart(s) /\ Ids(s, 0, c) /\ Apart(r)
        /\ \A m \in Messages : In(m, s) => Consumed(m)
        /\ \A m \in Messages : In(m, r) => Firing(p, m)
    BY DEF UseInv, UseLog, UseBatch
  <1>5. ASSUME NEW m, In(m, r) PROVE metadata'[p] = checkpoint[p]
    <2>1. r # <<>>
      BY <1>5 DEF In
    <2> QED
      BY <1>0, <2>1, PartsAre DEF NoMessages
  <1>6. /\ log[p] \in Seq(Messages) /\ Len(log[p]) \in Nat /\ Apart(log[p]) /\ Ids(log[p], 0, c)
    BY LogTypes DEF UseInv, FreshInv
  <1> HIDE DEF s, r, c
  <1>7. ASSUME NEW i \in 1 .. Len(s), NEW j \in 1 .. Len(r), s[i].key = r[j].key,
               NEW u \in s[i].evs, u \in r[j].evs
        PROVE  FALSE
    <2> DEFINE t == r[j].key
    <2>1. s[i] \in Messages /\ In(s[i], s) /\ r[j] \in Messages /\ In(r[j], r)
      BY <1>2 DEF In
    <2>2. Consumed(s[i]) /\ Firing(p, r[j])
      BY <1>4, <2>1
    <2>3. t \in Triggers
      BY <2>1 DEF Messages
    <2>4. PICK o \in Nat : metadata[p][t] <= o /\ At(p, t, u, o)
      <3>1. metadata[p] \in Stored(p)
        BY DEF Stored
      <3> QED
        BY <1>7, <2>2, <3>1 DEF Firing
    <2>5. PICK n \in Nat : n < metadata[p][t] /\ At(p, t, u, n)
      BY <1>7, <2>2 DEF Firing, Consumed
    <2>6. o = n
      BY <1>6, <2>4, <2>5, AtOnce
    <2>7. metadata[p][t] \in Nat
      BY <2>3, LogTypes
    <2> QED
      BY <2>4, <2>5, <2>6, <2>7
  <1>8. Apart(s \o r)
    <2>1. \A i \in 1 .. Len(s), j \in 1 .. Len(r) :
             s[i].key = r[j].key => s[i].evs \cap r[j].evs = {}
      BY <1>7
    <2> QED
      BY <1>2, <1>4, <2>1, ApartConcat
  <1>9. Ids(s \o r, 0, committed'[Event])
    <2>1. Ids(r, 0, c)
      <3> SUFFICES ASSUME NEW i \in 1 .. Len(r), NEW u \in r[i].evs PROVE 0 <= u.id /\ u.id < c
        BY DEF Ids
      <3>1. r[i] \in Messages /\ In(r[i], r)
        BY <1>2 DEF In
      <3>2. Firing(p, r[i])
        BY <1>4, <3>1
      <3>3. PICK o \in Nat : At(p, r[i].key, u, o)
        BY <3>2 DEF Firing
      <3>4. o + 1 \in 1 .. Len(log[p]) /\ u \in log[p][o + 1].evs
        BY <1>6, <3>3 DEF At
      <3> QED
        BY <1>6, <3>4 DEF Ids
    <2>2. Ids(s \o r, 0, c) /\ s \o r \in Seq(Messages)
      BY <1>2, <1>4, <2>1, IdsConcat
    <2> DEFINE all == s \o r
    <2>3. Ids(all, 0, c) /\ all \in Seq(Messages)
      BY <2>2
    <2> HIDE DEF all
    <2>4. Ids(all, 0, committed'[Event])
      BY ONLY <1>2, <2>3, IdsGrow
    <2> QED
      BY <2>4 DEF all
  <1>10. FreshInv'
    <2>1. \A q \in TriggerParts : log'[q] = log[q]
      BY TopicCommitTrigger
    <2> QED
      BY <2>1, FreshStays DEF UseInv
  <1>11. ASSUME NEW m \in Messages, In(m, s \o r)
         PROVE  Consumed(m)'
    <2>1. CASE In(m, s)
      <3>1. Consumed(m)
        BY <1>4, <2>1
      <3> QED
        BY <1>1, <3>1, ConsumedStays
    <2>2. CASE In(m, r)
      <3>1. Firing(p, m) /\ metadata'[p] = checkpoint[p] /\ m.key \in Triggers
        BY <1>4, <1>5, <2>2 DEF Messages
      <3> SUFFICES ASSUME NEW u \in m.evs, NEW q \in Partitions[m.key]
                   PROVE  \E o \in Nat : o < metadata'[q][m.key] /\ At(q, m.key, u, o)'
        BY DEF Consumed
      <3>2. q = p
        BY <3>1, OnlyPartition DEF Firing
      <3>3. PICK o \in Nat : o < checkpoint[p][m.key] /\ At(p, m.key, u, o)
        BY <3>1 DEF Firing
      <3>4. At(p, m.key, u, o)'
        BY <1>1, <3>3, AtStays
      <3> QED
        BY <3>1, <3>2, <3>3, <3>4
    <2> QED
      BY <1>2, <1>11, <2>1, <2>2, InConcat
  <1>12. UseLog'
    BY <1>0, <1>8, <1>9, <1>11 DEF UseLog
  <1>13. ASSUME NEW x \in TriggerParts PROVE UseBatch(x)'
    <2>1. CASE x # p
      <3>1. \A t \in Triggers : checkpoint[x][t] <= checkpoint'[x][t]
        BY <1>0, LogTypes
      <3> QED
        BY <1>1, <1>3, <2>1, <3>1, UseBatchStays
    <2>2. CASE x = p
      <3>1. batch'[p].out[Action] = <<>>
        BY <1>0, PartsAre, NoneApart
      <3>2. \A m \in Messages : ~In(m, batch'[p].out[Action])
        BY <3>1 DEF In
      <3> QED
        BY <2>2, <3>1, <3>2, NoneApart DEF UseBatch
    <2> QED
      BY <2>1, <2>2
  <1> QED
    BY <1>10, <1>12, <1>13 DEF UseInv

\* What is known of the trigger topic and of the uses of its events.  What was committed shows
\* which events were used only while no late commit has put it back.
OnceInv == TopicInv /\ HoldInv /\ CheckInv /\ (~rolledBack => UseInv)

\* Nothing was sent, held or used at the start.
LEMMA OnceInit ==
    ASSUME Init
    PROVE  OnceInv
  <1>1. /\ \A q \in Outputs : log[q] = <<>>
        /\ \A p \in Parts : \A q \in Outputs : batch[p].out[q] = <<>>
        /\ stage[Event] = "idle"
    BY PartsAre, NoneApart DEF Init
  <1>2. TopicInv
    <2>1. \A i \in 1 .. Len(batch[Event].out[Action]) : ~HasAnd[batch[Event].out[Action][i].key]
      BY <1>1, PartsAre
    <2> QED
      BY <1>1, <2>1, PartsAre, NoneApart DEF TopicInv
  <1>3. HoldInv
    BY DEF Init, HoldInv, NoEvents
  <1>4. CheckInv
    <2>1. \A p \in TriggerParts : Stored(p) = {NoCheckpoint} /\ checkpoint[p] = NoCheckpoint
      BY PartsAre DEF Init, Stored
    <2>2. \A t \in Triggers : NoCheckpoint[t] <= NoCheckpoint[t]
      BY DEF NoCheckpoint
    <2> QED
      BY <2>1, <2>2 DEF CheckInv
  <1>5. UseInv
    <2>1. UseLog
      BY <1>1, PartsAre, NoneApart DEF UseLog, In
    <2>2. ASSUME NEW p \in TriggerParts PROVE UseBatch(p)
      <3>1. batch[p].out[Action] = <<>>
        BY <1>1, PartsAre
      <3> QED
        BY <3>1, NoneApart DEF UseBatch, In
    <2>3. FreshInv
      BY <1>1, PartsAre, NoneApart DEF FreshInv
    <2> QED
      BY <2>1, <2>2, <2>3 DEF UseInv
  <1> QED
    BY <1>2, <1>3, <1>4, <1>5 DEF OnceInv

\* Every step is one of these, seen from the trigger topic.
LEMMA TriggerSteps ==
    ASSUME TypeOK, ContentInv, OffsetInv, ActionInv, TopicInv, [Next]_vars
    PROVE  \/ Quiet \/ Rebalance
           \/ \E w \in Pods : Crash(w)
           \/ \E p \in Parts : BeginTxnFails(p)
           \/ HandleEvent
           \/ \E p \in TriggerParts : SkipTrigger(p) \/ HandleTrigger(p)
           \/ Committed(Event)
           \/ \E p \in TriggerParts : Committed(p)
  <1>1. CASE UNCHANGED vars
    BY <1>1, QuietSteps
  <1>2. CASE Publish \/ HandleAction \/ \E w \in Pods : RunAction(w)
    BY <1>2, QuietSteps
  <1>3. ASSUME NEW p \in Parts, CommitOffset(p) \/ CommitTxn(p) \/ MarkFirst(p)
        PROVE  Quiet \/ Committed(Event) \/ \E x \in TriggerParts : Committed(x)
    <2>1. CASE p = Action
      <3>1. batch[Action].out = NoMessages
        BY DEF ActionInv, CollectInv
      <3>2. CommitOffset(Action) \/ MarkFirst(Action)
        BY <1>3, <2>1, <3>1 DEF CommitTxn
      <3> QED
        BY <3>2, QuietSteps
    <2>2. CASE p # Action
      <3>1. Committed(p)
        BY <1>3, CommitSteps, FirstSteps
      <3> QED
        BY <2>2, <3>1, PartsAre
    <2> QED
      BY <2>1, <2>2
  <1> QED
    BY <1>1, <1>2, <1>3 DEF Next

\* While no late commit puts anything back, offsets and checkpoints move forward.
LEMMA ForwardStep ==
    ASSUME TypeOK, TypeOK', OffsetInv, ActionInv, TopicInv, CheckInv, [Next]_vars, ~rolledBack'
    PROVE  ~rolledBack /\ Forward
  <1>0. /\ committed[Event] \in Int /\ committed'[Event] \in Int
        /\ committed[Event] <= pos[Event] /\ pos[Event] \in Nat
    BY PartsAre DEF TypeOK
  <1>1. \A p \in TriggerParts : \A t \in Triggers : metadata[p][t] \in Nat /\ metadata'[p][t] \in Nat
    <2>1. metadata \in [Parts -> [Triggers -> Nat]] /\ metadata' \in [Parts -> [Triggers -> Nat]]
      BY DEF TypeOK
    <2> QED
      BY <2>1, PartsAre
  <1>2. CASE UNCHANGED <<committed, metadata, rolledBack>>
    BY <1>0, <1>1, <1>2 DEF Forward
  <1>3. ASSUME NEW p, NEW offset, NEW meta, SessionCommit(p, offset, meta)
        PROVE  ~rolledBack /\ Forward
    <2>1. /\ ~rolledBack /\ ~(committed'[Event] < committed[Event])
          /\ \A q \in TriggerParts : \A t \in Triggers : ~(metadata'[q][t] < metadata[q][t])
      BY <1>3, RolledForward, PartsAre
    <2> QED
      BY <1>0, <1>1, <2>1 DEF Forward
  <1>4. ASSUME NEW p \in Parts, CommitTxn(p)
        PROVE  ~rolledBack /\ Forward
    <2>1. /\ committed' = [committed EXCEPT ![p] = batch[p].offset]
          /\ metadata' = [metadata EXCEPT ![p] = checkpoint[p]]
          /\ rolledBack' = rolledBack /\ stage[p] = "batch"
      BY <1>4 DEF CommitTxn, faults
    <2>2. committed[Event] <= committed'[Event]
      <3>1. CASE p = Event
        <4>1. committed'[Event] = pos[Event]
          BY <2>1, <3>1 DEF TypeOK, TopicInv
        <4> QED
          BY <1>0, <4>1
      <3>2. CASE p # Event
        <4>1. committed'[Event] = committed[Event]
          BY <2>1, <3>2, PartsAre DEF TypeOK
        <4> QED
          BY <1>0, <4>1
      <3> QED
        BY <3>1, <3>2
    <2>3. ASSUME NEW q \in TriggerParts, NEW t \in Triggers PROVE metadata[q][t] <= metadata'[q][t]
      <3>1. CASE p = q
        <4>1. metadata'[q] = checkpoint[q] /\ metadata[q] \in Stored(q)
          BY <2>1, <3>1, StoredTypes DEF TypeOK
        <4> QED
          BY <4>1 DEF CheckInv
      <3>2. CASE p # q
        <4>1. metadata'[q] = metadata[q]
          BY <2>1, <3>2, PartsAre DEF TypeOK
        <4> QED
          BY <1>1, <4>1
      <3> QED
        BY <3>1, <3>2
    <2> QED
      BY <2>1, <2>2, <2>3 DEF Forward
  <1>5. ASSUME NEW p \in Parts, Handle(p)
        PROVE  UNCHANGED <<committed, metadata, rolledBack>>
    <2>1. ASSUME NEW out, NEW offset, NEW fns, Collect(p, out, offset, fns)
          PROVE  UNCHANGED <<committed, metadata, rolledBack>>
      BY <2>1, CollectKeeps DEF faults
    <2> QED
      BY <1>5, <2>1 DEF Handle, HandleEvent, HandleAction, SkipTrigger, HandleTrigger
  <1>6. CASE Next
    <2>1. Step
      BY <1>6, NextIsStep
    <2>2. CASE Publish \/ Rebalance \/ \E w \in Pods : Crash(w) \/ RunAction(w)
      BY <1>2, <2>2 DEF Publish, Rebalance, Crash, RunAction, bus, faults
    <2>3. ASSUME NEW p \in Parts, BeginTxnFails(p)
          PROVE  UNCHANGED <<committed, metadata, rolledBack>>
      BY <2>3 DEF BeginTxnFails, bus, faults
    <2>4. ASSUME NEW p \in Parts, MarkFirst(p) \/ CommitOffset(p)
          PROVE  ~rolledBack /\ Forward
      BY <1>3, <2>4 DEF MarkFirst, CommitOffset
    <2> QED
      BY <1>2, <1>4, <1>5, <2>1, <2>2, <2>3, <2>4 DEF Step
  <1>7. CASE UNCHANGED vars
    BY <1>2, <1>7 DEF vars, bus, faults
  <1> QED
    BY <1>6, <1>7

\* Every step keeps it.
LEMMA OnceStep ==
    ASSUME OnePartition, TypeOK, ContentInv, OffsetInv, ActionInv, OnceInv, [Next]_vars
    PROVE  OnceInv'
  <1>1. TypeOK' /\ TopicInv /\ HoldInv /\ CheckInv
    BY BaseStep DEF OnceInv
  <1>2. ~rolledBack' => UseInv /\ Forward
    BY <1>1, ForwardStep DEF OnceInv
  <1>3. ASSUME UNCHANGED checkpoint
        PROVE  \A p \in TriggerParts, t \in Triggers : checkpoint[p][t] <= checkpoint'[p][t]
    BY <1>3, LogTypes
  <1>4. CASE Quiet
    <2>1. /\ \A q \in Outputs : log'[q] = log[q]
          /\ UNCHANGED <<owner, events, checkpoint>>
          /\ \A p \in TriggerParts \cup {Event} : Still(p)
      BY <1>4, PartsAre DEF Quiet
    <2>2. Longer
      BY <2>1, LongerSame
    <2>3. TopicInv'
      BY <1>1, <1>4, TopicQuiet
    <2>4. HoldInv'
      BY <1>1, <2>1, <2>2, HoldStays DEF Still
    <2>5. /\ \A p \in TriggerParts : Stored(p)' \subseteq Stored(p) /\ batch'[p] = batch[p]
          /\ \A p \in TriggerParts, t \in Triggers : checkpoint[p][t] <= checkpoint'[p][t]
      BY <1>3, <2>1 DEF Still
    <2>6. CheckInv'
      BY <1>1, <2>5, CheckStays
    <2>7. ASSUME ~rolledBack' PROVE UseInv'
      BY <1>1, <1>2, <2>1, <2>2, <2>5, <2>7, UseStays
    <2> QED
      BY <2>3, <2>4, <2>6, <2>7 DEF OnceInv
  <1>5. CASE Rebalance
    <2>1. TopicInv'
      BY <1>1, <1>5, TopicRebalance
    <2>2. HoldInv'
      BY <1>5, HoldRebalance
    <2>3. CheckInv'
      BY <1>5, CheckRebalance
    <2>4. ASSUME ~rolledBack' PROVE UseInv'
      BY <1>1, <1>2, <1>5, <2>4, UseRebalance
    <2> QED
      BY <2>1, <2>2, <2>3, <2>4 DEF OnceInv
  <1>6. CASE Dropped
    <2>1. /\ UNCHANGED <<log, owner, pos, checkpoint>>
          /\ \A w \in Pods, t \in Triggers : events'[w][t] \in SUBSET events[w][t]
      BY <1>6 DEF Dropped
    <2>2. Longer
      BY <2>1, LongerSame
    <2>3. TopicInv'
      BY <1>1, <1>6, TopicDropped
    <2>4. HoldInv'
      BY <1>1, <2>1, <2>2, HoldStays
    <2>5. /\ \A p \in TriggerParts : Stored(p)' \subseteq Stored(p)
          /\ \A p \in TriggerParts, t \in Triggers : checkpoint[p][t] <= checkpoint'[p][t]
      BY <1>6, <1>3, <2>1, SameStored DEF Dropped
    <2>6. CheckInv'
      BY <1>1, <2>5, CheckStays
    <2>7. ASSUME ~rolledBack' PROVE UseInv'
      <3>1. \A p \in TriggerParts :
               batch'[p].out[Action] = batch[p].out[Action] \/ batch'[p].out[Action] = <<>>
        BY <1>6, PartsAre, NoneApart DEF Dropped
      <3> QED
        BY <1>1, <1>2, <2>1, <2>2, <2>5, <2>7, <3>1, UseStays
    <2> QED
      BY <2>3, <2>4, <2>6, <2>7 DEF OnceInv
  <1>7. CASE HandleEvent
    <2>1. UNCHANGED <<events, checkpoint>>
      BY <1>7, EventTakes
    <2>2. PICK out \in EventOutputs(pos[Event], Msg(Event)) :
             Took(Event, [q \in Outputs |-> batch[Event].out[q] \o out[q]], pos[Event] + 1)
      BY <1>7, EventTakes
    <2>3. UNCHANGED <<log, owner>> /\ \A p \in TriggerParts : Still(p)
      BY <2>2, PartsAre DEF Took
    <2>4. Longer
      BY <2>3, LongerSame
    <2>5. TopicInv'
      BY <1>1, <2>2, TopicEvent
    <2>6. HoldInv'
      BY <1>1, <2>1, <2>3, <2>4, HoldStays DEF Still
    <2>7. /\ \A p \in TriggerParts : Stored(p)' \subseteq Stored(p) /\ batch'[p] = batch[p]
          /\ \A p \in TriggerParts, t \in Triggers : checkpoint[p][t] <= checkpoint'[p][t]
      BY <1>3, <2>1, <2>3 DEF Still
    <2>8. CheckInv'
      BY <1>1, <2>7, CheckStays
    <2>9. ASSUME ~rolledBack' PROVE UseInv'
      BY <1>1, <1>2, <2>3, <2>4, <2>7, <2>9, UseStays
    <2> QED
      BY <2>5, <2>6, <2>8, <2>9 DEF OnceInv
  <1>8. ASSUME NEW p \in TriggerParts, SkipTrigger(p)
        PROVE  OnceInv'
    <2>1. UNCHANGED <<events, checkpoint>> /\ Took(p, batch[p].out, batch[p].offset)
      BY <1>8, SkipTakes
    <2>2. /\ UNCHANGED <<log, metadata, dirty, owner>> /\ \A x \in Parts \ {p} : Still(x)
          /\ batch'[p].out = batch[p].out /\ pos'[p] = pos[p] + 1
      BY <2>1 DEF Took
    <2>3. Longer
      BY <2>2, LongerSame
    <2>4. TopicInv'
      BY <1>1, <2>1, <2>2, TopicTrigger
    <2>5. HoldInv'
      <3>1. \A x \in TriggerParts : pos'[x] = pos[x] \/ pos'[x] = pos[x] + 1
        BY <2>2, PartsAre DEF Still
      <3> QED
        BY <1>1, <2>1, <2>2, <2>3, <3>1, HoldStays
    <2>6. /\ \A x \in TriggerParts : Stored(x)' \subseteq Stored(x)
          /\ \A x \in TriggerParts, t \in Triggers : checkpoint[x][t] <= checkpoint'[x][t]
      BY <1>3, <2>1, <2>2 DEF Stored
    <2>7. CheckInv'
      BY <1>1, <2>6, CheckStays
    <2>8. ASSUME ~rolledBack' PROVE UseInv'
      <3>1. \A x \in TriggerParts : batch'[x].out[Action] = batch[x].out[Action]
        BY <2>2, PartsAre DEF Still
      <3> QED
        BY <1>1, <1>2, <2>2, <2>3, <2>6, <2>8, <3>1, UseStays
    <2> QED
      BY <2>4, <2>5, <2>7, <2>8 DEF OnceInv
  <1>9. ASSUME NEW p \in TriggerParts, HandleTrigger(p)
        PROVE  OnceInv'
    <2>0. Singles(log[p])
      BY <1>1 DEF TopicInv
    <2>1. PICK out, offset : Took(p, out, offset)
      BY <1>9, <2>0, TriggerTakes
    <2>2. PICK t, held, msg : Triggered(p, t, held, msg)
      BY <1>9, <2>0, TriggerTakes
    <2>3. TopicInv'
      BY <1>1, <2>1, <2>2, TopicTrigger DEF Triggered
    <2>4. HoldInv'
      BY <1>1, <2>1, <2>2, HoldTriggered
    <2>5. CheckInv'
      <3>1. \A x \in TriggerParts, u \in Triggers : checkpoint[x][u] <= checkpoint'[x][u]
        BY <2>1, <2>2, CheckpointGrows
      <3>2. \A x \in TriggerParts : Stored(x)' = Stored(x)
        BY <2>1 DEF Took, Stored
      <3> QED
        BY <1>1, <3>1, <3>2, CheckStays
    <2>6. ASSUME ~rolledBack' PROVE UseInv'
      BY <1>1, <1>2, <2>1, <2>2, <2>6, UseTriggered
    <2> QED
      BY <2>3, <2>4, <2>5, <2>6 DEF OnceInv
  <1>10. ASSUME NEW p \in TriggerParts \cup {Event}, Committed(p)
        PROVE  OnceInv'
    <2>0. p \in Parts
      BY PartsAre
    <2>1. UNCHANGED <<owner, pos, events, checkpoint>>
      BY <1>10 DEF Committed
    <2>2. Longer
      BY <1>10, <2>0, LongerCommit
    <2>3. HoldInv'
      BY <1>1, <2>1, <2>2, HoldStays
    <2>4. TopicInv'
      BY <1>1, <1>10, TopicCommitEvent, TopicCommitTrigger
    <2>5. CheckInv'
      <3>1. \A x \in TriggerParts : \A m \in Stored(x)' :
               m \in Stored(x) \/ m = checkpoint[x] \/ m = NoCheckpoint
        BY <1>10, PartsAre DEF Committed, Still
      <3>2. \A x \in TriggerParts, t \in Triggers : checkpoint[x][t] <= checkpoint'[x][t]
        BY <1>3, <2>1
      <3> QED
        BY <1>1, <3>1, <3>2, CheckStays
    <2>6. ASSUME ~rolledBack' PROVE UseInv'
      BY <1>1, <1>2, <1>10, <2>6, UseCommitEvent, UseCommitTrigger
    <2> QED
      BY <2>3, <2>4, <2>5, <2>6 DEF OnceInv
  <1> QED
    BY <1>1, <1>4, <1>5, <1>6, <1>7, <1>8, <1>9, <1>10, TriggerSteps, DropSteps

-----------------------------------------------------------------------------
(* Events of the trigger topic are not forgotten                           *)

\* A trigger-topic message is over: it was used, or superseded.
Done(p, o) == \/ \A u \in log[p][o + 1].evs : Used(log[p][o + 1].key, u)
              \/ Superseded(p, o + 1)

\* A message that the batch collected uses it.
InBatch(p, o) == \E m \in Messages :
                    /\ In(m, batch[p].out[Action]) /\ m.key = log[p][o + 1].key
                    /\ log[p][o + 1].evs \subseteq m.evs

\* The pod that has claimed the partition holds the event of that offset.
HeldAt(p, o) == \E e \in events[owner[p]][log[p][o + 1].key] : e.part = p /\ e.offset = o

\* What is committed or checkpointed, or may be by a late commit, is over, with the batch in
\* memory; what was consumed is, or is held.
Kept(p, o) ==
    /\ \A c \in Marks(p) : o < c => Done(p, o)
    /\ \A m \in Stored(p) : o < m[log[p][o + 1].key] => Done(p, o)
    /\ stage[p] # "off" =>
          /\ o < checkpoint[p][log[p][o + 1].key] => Done(p, o) \/ InBatch(p, o)
          /\ o < pos[p] => Done(p, o) \/ InBatch(p, o) \/ HeldAt(p, o)
AllKept == \A p \in TriggerParts, o \in Nat : o < Len(log[p]) => Kept(p, o)
KeptInv == oldest /\ txnErrors = 0 => AllKept

\* Checkpoints do not run ahead of the log.
CoverInv == \A p \in TriggerParts : \A t \in Triggers : checkpoint[p][t] <= Len(log[p])

\* A group that starts with the oldest message does not mark its first one.
FirstInv == oldest => \A p \in Parts : ~first[p]

\* An event is used when a message of the action topic has it, for its trigger.
LEMMA UsedMeans ==
    ASSUME NEW t, NEW u
    PROVE  Used(t, u) <=> \E i \in 1 .. Len(log[Action]) :
                              log[Action][i].key = t /\ u \in log[Action][i].evs
  <1>1. ASSUME NEW i
        PROVE  <<t, u>> \in UsedIn(i) <=> log[Action][i].key = t /\ u \in log[Action][i].evs
    BY DEF UsedIn
  <1> QED
    BY <1>1 DEF Used

\* Messages that are over stay so.
LEMMA DoneStays ==
    ASSUME Longer, NEW p \in TriggerParts, NEW o \in Nat, o < Len(log[p])
    PROVE  /\ log'[p][o + 1] = log[p][o + 1] /\ o < Len(log'[p])
           /\ Done(p, o) => Done(p, o)'
  <1>0. /\ p \in Outputs /\ Action \in Outputs
        /\ Len(log[p]) \in Nat /\ Len(log'[p]) \in Nat /\ Len(log[p]) <= Len(log'[p])
        /\ \A i \in 1 .. Len(log[p]) : log'[p][i] = log[p][i]
    BY PartsAre DEF Longer
  <1>1. o + 1 \in 1 .. Len(log[p]) /\ o < Len(log'[p])
    BY <1>0
  <1>2. log'[p][o + 1] = log[p][o + 1]
    BY <1>0, <1>1
  <1>3. ASSUME \A u \in log[p][o + 1].evs : Used(log[p][o + 1].key, u)
        PROVE  Done(p, o)'
    <2> DEFINE t == log[p][o + 1].key
    <2>1. ASSUME NEW u \in log[p][o + 1].evs
          PROVE  \E i \in 1 .. Len(log'[Action]) : <<t, u>> \in UsedIn(i)'
      <3>1. PICK i \in 1 .. Len(log[Action]) : log[Action][i].key = t /\ u \in log[Action][i].evs
        BY <1>3, <2>1, UsedMeans
      <3>2. i \in 1 .. Len(log'[Action]) /\ log'[Action][i] = log[Action][i]
        BY <1>0 DEF Longer
      <3>3. <<t, u>> \in UsedIn(i)'
        BY <3>1, <3>2 DEF UsedIn
      <3> QED
        BY <3>2, <3>3
    <2> QED
      BY <1>2, <2>1 DEF Done, Used
  <1>4. ASSUME Superseded(p, o + 1)
        PROVE  Done(p, o)'
    <2>1. PICK j \in (o + 1) + 1 .. Len(log[p]) :
             log[p][j].key = log[p][o + 1].key /\ log[p][j].dep = log[p][o + 1].dep
      BY <1>4 DEF Superseded
    <2>2. /\ j \in (o + 1) + 1 .. Len(log'[p]) /\ j \in 1 .. Len(log[p])
      BY <1>0, <2>1
    <2>3. log'[p][j] = log[p][j]
      BY <1>0, <2>2
    <2>4. Superseded(p, o + 1)'
      BY <1>2, <2>1, <2>2, <2>3 DEF Superseded
    <2> QED
      BY <2>4 DEF Done
  <1> QED
    BY <1>1, <1>2, <1>3, <1>4 DEF Done

\* The key of a message.
LEMMA KeyTypes ==
    ASSUME TypeOK, ContentInv, NEW p \in TriggerParts, NEW o \in Nat, o < Len(log[p])
    PROVE  /\ o + 1 \in 1 .. Len(log[p]) /\ log[p][o + 1] \in Content(p)
           /\ log[p][o + 1] \in Messages
           /\ log[p][o + 1].key \in Triggers /\ p \in Partitions[log[p][o + 1].key]
           /\ committed[p] \in Int /\ pos[p] \in Nat /\ committed[p] <= pos[p]
           /\ pos[p] <= Len(log[p]) /\ Len(log[p]) \in Nat
  <1>0. p \in Parts /\ p \in Outputs /\ Len(log[p]) \in Nat
    BY PartsAre, LogTypes
  <1>1. o + 1 \in 1 .. Len(log[p]) /\ log[p] \in Seq(Content(p))
    BY <1>0 DEF ContentInv
  <1>2. log[p][o + 1] \in Content(p)
    BY <1>1
  <1> QED
    BY <1>0, <1>1, <1>2 DEF Content, Messages, TypeOK

\* A partition where nothing happens, except that messages are added.
LEMMA KeptStill ==
    ASSUME TypeOK, ContentInv, TypeOK', ContentInv', CheckInv, CoverInv, Longer,
           NEW p \in TriggerParts, Still(p), owner' = owner,
           \A t \in Triggers : checkpoint'[p][t] = checkpoint[p][t],
           \A t \in Triggers : p \in Partitions[t] => events'[owner[p]][t] = events[owner[p]][t],
           \A o \in Nat : o < Len(log[p]) => Kept(p, o),
           NEW o \in Nat, o < Len(log'[p])
    PROVE  Kept(p, o)'
  <1>0. /\ Marks(p)' \subseteq Marks(p) /\ Stored(p)' \subseteq Stored(p)
        /\ pos'[p] = pos[p] /\ stage'[p] = stage[p] /\ batch'[p] = batch[p]
    BY DEF Still
  <1>1. CASE o < Len(log[p])
    <2>1. /\ log'[p][o + 1] = log[p][o + 1] /\ log[p][o + 1].key \in Triggers
          /\ p \in Partitions[log[p][o + 1].key]
          /\ Done(p, o) => Done(p, o)'
      BY <1>1, DoneStays, KeyTypes
    <2>2. InBatch(p, o) => InBatch(p, o)'
      BY <1>0, <2>1 DEF InBatch
    <2>3. HeldAt(p, o) => HeldAt(p, o)'
      BY <2>1 DEF HeldAt
    <2>4. Kept(p, o)
      BY <1>1
    <2> QED
      BY <1>0, <2>1, <2>2, <2>3, <2>4 DEF Kept
  <1>2. CASE ~(o < Len(log[p]))
    <2> DEFINE t == log'[p][o + 1].key
    <2>1. t \in Triggers
      <3>1. log'[p] \in Seq(Content(p)) /\ Len(log'[p]) \in Nat
        BY PartsAre DEF ContentInv, Longer, Content
      <3>2. log'[p][o + 1] \in Content(p)
        BY <3>1
      <3> QED
        BY <3>2 DEF Content, Messages
    <2>2. /\ Len(log[p]) \in Nat /\ checkpoint[p][t] \in Nat /\ checkpoint[p][t] <= Len(log[p])
          /\ \A m \in Stored(p) : m[t] \in Nat /\ m[t] <= checkpoint[p][t]
      BY <2>1, LogTypes, StoredTypes, PartsAre DEF CoverInv, CheckInv
    <2>3. /\ pos[p] \in Nat /\ pos[p] <= Len(log[p])
          /\ \A c \in Marks(p) : c \in Int /\ c <= pos[p]
      BY StoredTypes, PartsAre DEF TypeOK
    <2>4. checkpoint'[p][t] = checkpoint[p][t]
      BY <2>1
    <2> HIDE DEF t
    <2>5. Len(log[p]) <= o
      BY <1>2, <2>2
    <2>6. ~(o < checkpoint'[p][t]) /\ \A m \in Stored(p) : ~(o < m[t])
      BY <2>2, <2>4, <2>5
    <2>7. ~(o < pos'[p]) /\ \A c \in Marks(p) : ~(o < c)
      BY <1>0, <2>2, <2>3, <2>5
    <2> QED
      BY <1>0, <2>6, <2>7 DEF Kept, t
  <1> QED
    BY <1>1, <1>2

\* A pod that dies keeps nothing in memory: only what is stored counts.
LEMMA KeptCrash ==
    ASSUME Longer, UNCHANGED <<log, committed, metadata, mark, dirty>>,
           NEW p \in TriggerParts, stage'[p] = "off",
           NEW o \in Nat, o < Len(log[p]), Kept(p, o)
    PROVE  Kept(p, o)'
  <1>1. Done(p, o) => Done(p, o)'
    BY DoneStays
  <1>2. Marks(p)' = Marks(p) /\ Stored(p)' = Stored(p)
    BY SameStored
  <1> QED
    BY <1>1, <1>2 DEF Kept

\* KafkaHandler.Setup: consumption resumes where the committed offset and the checkpoints are.
LEMMA KeptRebalance ==
    ASSUME TypeOK, ContentInv, Longer, Rebalance, oldest,
           NEW p \in TriggerParts, NEW o \in Nat, o < Len(log[p]), Kept(p, o)
    PROVE  Kept(p, o)'
  <1>0. p \in Parts /\ committed[p] \in Int
    BY PartsAre DEF TypeOK
  <1>1. /\ UNCHANGED <<log, committed, metadata>> /\ checkpoint' = metadata
        /\ pos'[p] = committed[p] \/ pos'[p] = 0
        /\ mark' = committed /\ dirty'[p] = {}
    BY <1>0 DEF Rebalance, bus
  <1>2. Done(p, o) => Done(p, o)'
    BY DoneStays
  <1>3. o < pos'[p] => o < committed[p]
    BY <1>1
  <1>4. /\ Marks(p)' \subseteq Marks(p) /\ Stored(p)' \subseteq Stored(p)
        /\ committed[p] \in Marks(p) /\ metadata[p] \in Stored(p)
    BY <1>1 DEF Marks, Stored
  <1> QED
    BY <1>1, <1>2, <1>3, <1>4 DEF Kept

\* A message is skipped when it is below the checkpoint: it is over.
LEMMA KeptSkip ==
    ASSUME TypeOK, ContentInv, Longer, NEW p \in TriggerParts,
           UNCHANGED <<events, checkpoint>>, pos[p] < checkpoint[p][Msg(p).key],
           Took(p, batch[p].out, batch[p].offset),
           NEW o \in Nat, o < Len(log[p]), Kept(p, o)
    PROVE  Kept(p, o)'
  <1>0. /\ UNCHANGED <<log, owner>> /\ Marks(p)' = Marks(p) /\ Stored(p)' = Stored(p)
        /\ pos[p] \in Nat /\ pos'[p] = pos[p] + 1 /\ batch'[p].out = batch[p].out
        /\ stage[p] # "off"
    BY SameStored DEF Took, Available, Waiting
  <1>1. Done(p, o) => Done(p, o)'
    BY DoneStays
  <1>2. InBatch(p, o) => InBatch(p, o)'
    BY <1>0 DEF InBatch
  <1>3. HeldAt(p, o) => HeldAt(p, o)'
    BY <1>0 DEF HeldAt
  <1>4. o < pos'[p] => o < pos[p] \/ o < checkpoint[p][log[p][o + 1].key]
    <2>1. o < pos'[p] => o < pos[p] \/ o = pos[p]
      BY <1>0
    <2> QED
      BY <2>1 DEF Msg
  <1> QED
    BY <1>0, <1>1, <1>2, <1>3, <1>4 DEF Kept

\* What the committed messages use is used.
LEMMA BatchUsed ==
    ASSUME TypeOK, ContentInv, Longer, NEW p \in TriggerParts, Committed(p), log'[p] = log[p],
           NEW o \in Nat, InBatch(p, o)
    PROVE  Done(p, o)'
  <1> DEFINE s == log[Action]
             r == batch[p].out[Action]
             t == log[p][o + 1].key
  <1>1. s \in Seq(Messages) /\ r \in Seq(Messages) /\ log'[Action] = s \o r
    BY LogTypes, PartsAre DEF Committed
  <1>2. PICK m \in Messages : In(m, r) /\ m.key = t /\ log[p][o + 1].evs \subseteq m.evs
    BY DEF InBatch
  <1> HIDE DEF s, r
  <1>3. PICK j \in 1 .. Len(r) : r[j] = m
    BY <1>2 DEF In
  <1>4. /\ Len(s) \in Nat /\ Len(r) \in Nat /\ Len(s \o r) = Len(s) + Len(r)
        /\ (s \o r)[Len(s) + j] = r[j]
    BY <1>1, Concat
  <1>5. PICK n \in 1 .. Len(log'[Action]) : log'[Action][n] = m
    <2>1. Len(s) + j \in 1 .. Len(log'[Action]) /\ log'[Action][Len(s) + j] = m
      BY <1>1, <1>3, <1>4
    <2> QED
      BY <2>1
  <1>6. ASSUME NEW u \in log[p][o + 1].evs
        PROVE  \E i \in 1 .. Len(log'[Action]) : <<t, u>> \in UsedIn(i)'
    <2>1. <<t, u>> \in UsedIn(n)'
      BY <1>2, <1>5 DEF UsedIn
    <2> QED
      BY <1>5, <2>1
  <1> QED
    BY <1>6 DEF Done, Used

\* KafkaTransaction.Commit: the offset is not past anything held, and what the checkpoint covers
\* is used by the messages committed with it.
LEMMA KeptCommit ==
    ASSUME TypeOK, ContentInv, OffsetInv, Longer, NEW p \in TriggerParts, ~first[p], Committed(p),
           log'[p] = log[p], NEW o \in Nat, o < Len(log[p]), Kept(p, o)
    PROVE  Kept(p, o)'
  <1> DEFINE t == log[p][o + 1].key
  <1>0. /\ UNCHANGED <<owner, pos, events, checkpoint>> /\ stage[p] # "off"
        /\ \A c \in Marks(p)' : c \in Marks(p) \/ c = batch[p].offset
        /\ \A m \in Stored(p)' : m \in Stored(p) \/ m = checkpoint[p]
    BY DEF Committed
  <1>1. Done(p, o) => Done(p, o)'
    BY DoneStays
  <1>2. InBatch(p, o) => Done(p, o)'
    BY BatchUsed
  <1>3. HeldAt(p, o) => HeldAt(p, o)'
    BY <1>0 DEF HeldAt
  <1>4. t \in Triggers /\ p \in Parts /\ owner[p] \in Pods /\ pos[p] \in Nat
    BY KeyTypes, PartsAre DEF TypeOK
  <1>5. batch[p].offset \in Nat /\ batch[p].offset <= pos[p]
    BY <1>4 DEF OffsetInv, Behind, TypeOK, Batches
  <1>6. ASSUME o < batch[p].offset PROVE ~HeldAt(p, o)
    <2> SUFFICES ASSUME NEW e \in events[owner[p]][t], e.part = p, e.offset = o PROVE FALSE
      BY DEF HeldAt
    <2>1. e \in HeldOf(p)
      BY <1>4 DEF HeldOf, KeptOf
    <2>2. batch[p].offset <= e.offset
      BY <1>4, <2>1 DEF OffsetInv, Behind
    <2> QED
      BY <1>5, <1>6, <2>2
  <1>7. o < batch[p].offset => Done(p, o)'
    <2>1. o < batch[p].offset => o < pos[p]
      BY <1>4, <1>5
    <2> QED
      BY <1>0, <1>1, <1>2, <1>6, <2>1 DEF Kept
  <1>8. /\ \A c \in Marks(p) : o < c => Done(p, o)'
        /\ \A m \in Stored(p) : o < m[t] => Done(p, o)'
        /\ o < checkpoint[p][t] => Done(p, o)'
    BY <1>0, <1>1, <1>2 DEF Kept
  <1>9. \A c \in Marks(p)' : o < c => Done(p, o)'
    BY <1>0, <1>7, <1>8
  <1>10. \A m \in Stored(p)' : o < m[t] => Done(p, o)'
    BY <1>0, <1>8
  <1>11. o < pos[p] => Done(p, o)' \/ HeldAt(p, o)'
    BY <1>0, <1>1, <1>2, <1>3 DEF Kept
  <1> QED
    BY <1>0, <1>8, <1>9, <1>10, <1>11 DEF Kept

\* KafkaSensor.Trigger: the new event replaces one that it supersedes, and the others are held or
\* go into the message for the action topic.
LEMMA KeptTriggered ==
    ASSUME TypeOK, ContentInv, TopicInv, HoldInv, Longer, NEW p \in TriggerParts,
           NEW out, NEW offset, Took(p, out, offset),
           NEW t, NEW held, NEW msg, Triggered(p, t, held, msg),
           NEW o \in Nat, o < Len(log[p]), Kept(p, o)
    PROVE  Kept(p, o)'
  <1> DEFINE m == log[p][o + 1]
             k == m.key
  <1>0. /\ UNCHANGED <<log, owner>> /\ Marks(p)' = Marks(p) /\ Stored(p)' = Stored(p)
        /\ pos[p] \in Nat /\ pos'[p] = pos[p] + 1 /\ pos[p] < Len(log[p])
        /\ stage[p] # "off"
    BY SameStored DEF Took, Available, Waiting
  <1>1. /\ o + 1 \in 1 .. Len(log[p]) /\ k \in Triggers /\ Len(log[p]) \in Nat
        /\ owner[p] \in Pods /\ msg \in Messages /\ t \in Triggers
    BY KeyTypes, PartsAre DEF TypeOK, Triggered
  <1>2. Done(p, o) => Done(p, o)'
    BY DoneStays
  <1>3. \A x : In(x, batch[p].out[Action]) => In(x, batch'[p].out[Action])
    <2>1. batch[p].out[Action] \in Seq(Messages)
      BY LogTypes
    <2>2. \A x : In(x, batch[p].out[Action]) => In(x, Append(batch[p].out[Action], msg))
      BY <1>1, <2>1, OneMore
    <2> QED
      BY <2>2 DEF Triggered
  <1>4. InBatch(p, o) => InBatch(p, o)'
    BY <1>0, <1>3 DEF InBatch
  <1>5. ASSUME k = t, o < pos[p] + 1
        PROVE  \/ Done(p, o) \/ InBatch(p, o)
               \/ \E e \in held : /\ e.part = p /\ e.offset = o
                                  /\ [dep |-> e.dep, id |-> e.id] \in m.evs
    <2>1. CASE o = pos[p]
      <3>1. m = Msg(p)
        BY <2>1 DEF Msg
      <3> QED
        BY <2>1, <3>1 DEF Triggered
    <2>2. CASE o < pos[p] /\ HeldAt(p, o)
      <3>1. PICK e \in events[owner[p]][t] : e.part = p /\ e.offset = o
        BY <1>5, <2>2 DEF HeldAt
      <3>2. [dep |-> e.dep, id |-> e.id] \in m.evs /\ m.dep = e.dep
        <4>1. Holds(owner[p], t, e)
          BY <1>1, <3>1 DEF HoldInv
        <4> QED
          BY <3>1, <4>1 DEF Holds, At
      <3>3. CASE e \in held
        BY <3>1, <3>2, <3>3
      <3>4. CASE e.dep = Msg(p).dep
        <4>1. pos[p] + 1 \in (o + 1) + 1 .. Len(log[p])
          BY <1>0, <1>1, <2>2
        <4>2. log[p][pos[p] + 1].key = k /\ log[p][pos[p] + 1].dep = m.dep
          BY <1>5, <3>2, <3>4 DEF Triggered, Msg
        <4>3. Superseded(p, o + 1)
          BY <4>1, <4>2 DEF Superseded
        <4> QED
          BY <4>3 DEF Done
      <3> QED
        BY <3>1, <3>3, <3>4 DEF Triggered
    <2>3. CASE o < pos[p] /\ ~HeldAt(p, o)
      BY <1>0, <2>3 DEF Kept
    <2>4. o = pos[p] \/ o < pos[p]
      BY <1>0, <1>5
    <2> QED
      BY <2>1, <2>2, <2>3, <2>4
  <1>6. /\ \A c \in Marks(p)' : o < c => Done(p, o)'
        /\ \A x \in Stored(p)' : o < x[k] => Done(p, o)'
    BY <1>0, <1>2 DEF Kept
  <1>7. CASE k # t
    <2>1. checkpoint'[p][k] = checkpoint[p][k] /\ events'[owner[p]][k] = events[owner[p]][k]
      BY <1>1, <1>7 DEF Triggered
    <2>2. HeldAt(p, o) => HeldAt(p, o)'
      BY <1>0, <2>1 DEF HeldAt
    <2>3. o < pos'[p] => o < pos[p]
      <3>1. o # pos[p]
        BY <1>7 DEF Triggered, Msg
      <3> QED
        BY <1>0, <3>1
    <2>4. /\ o < checkpoint'[p][k] => Done(p, o)' \/ InBatch(p, o)'
          /\ o < pos'[p] => Done(p, o)' \/ InBatch(p, o)' \/ HeldAt(p, o)'
      BY <1>0, <1>2, <1>4, <2>1, <2>2, <2>3 DEF Kept
    <2> QED
      BY <1>0, <1>6, <2>4 DEF Kept
  <1>8. CASE /\ k = t /\ checkpoint'[p][t] = pos[p] + 1
             /\ batch'[p].out[Action] = Append(batch[p].out[Action], msg)
    <2>1. ASSUME NEW e \in held, [dep |-> e.dep, id |-> e.id] \in m.evs
          PROVE  InBatch(p, o)'
      <3>1. PICK i \in Nat : m.evs = {[dep |-> m.dep, id |-> i]}
        <4>1. Single(m)
          BY <1>1 DEF TopicInv, Singles
        <4> QED
          BY <4>1 DEF Single
      <3>2. m.evs \subseteq msg.evs
        <4>1. [dep |-> e.dep, id |-> e.id] \in msg.evs
          BY <2>1 DEF Triggered
        <4>2. [dep |-> e.dep, id |-> e.id] = [dep |-> m.dep, id |-> i]
          BY <2>1, <3>1
        <4> QED
          BY <3>1, <4>1, <4>2
      <3>3. In(msg, batch'[p].out[Action])
        <4>1. batch[p].out[Action] \in Seq(Messages)
          BY LogTypes
        <4>2. In(msg, Append(batch[p].out[Action], msg))
          BY <1>1, <4>1, OneMore
        <4> QED
          BY <1>8, <4>2
      <3>4. msg.key = k
        BY <1>8 DEF Triggered
      <3> QED
        BY <1>0, <1>1, <3>2, <3>3, <3>4 DEF InBatch
    <2>2. o < pos[p] + 1 => Done(p, o)' \/ InBatch(p, o)'
      BY <1>2, <1>4, <1>5, <1>8, <2>1
    <2> QED
      BY <1>0, <1>6, <1>8, <2>2 DEF Kept
  <1>9. CASE /\ k = t /\ events'[owner[p]][t] = held /\ checkpoint'[p][t] = checkpoint[p][t]
    <2>1. ASSUME NEW e \in held, e.part = p, e.offset = o
          PROVE  HeldAt(p, o)'
      BY <1>0, <1>9, <2>1 DEF HeldAt
    <2>2. o < pos[p] + 1 => Done(p, o)' \/ InBatch(p, o)' \/ HeldAt(p, o)'
      BY <1>2, <1>4, <1>5, <1>9, <2>1
    <2>3. o < checkpoint'[p][k] => Done(p, o)' \/ InBatch(p, o)'
      BY <1>0, <1>2, <1>4, <1>9 DEF Kept
    <2> QED
      BY <1>0, <1>6, <2>2, <2>3 DEF Kept
  <1> QED
    BY <1>7, <1>8, <1>9 DEF Triggered

\* Messages stay where they are, in every step.
LEMMA LongerStep ==
    ASSUME TypeOK, ContentInv, OffsetInv, ActionInv, TopicInv, [Next]_vars
    PROVE  Longer
  <1>1. CASE Quiet
    BY <1>1, LongerSame DEF Quiet
  <1>2. CASE \E p \in Parts : Committed(p)
    BY <1>2, LongerCommit
  <1>3. CASE UNCHANGED log
    BY <1>3, LongerSame
  <1> QED
    BY <1>1, <1>2, <1>3, TriggerSteps, PartsAre
    DEF Rebalance, Crash, BeginTxnFails, HandleEvent, SkipTrigger, HandleTrigger, Collect, bus

\* Checkpoints do not run ahead of the log: they are set to what was consumed.
LEMMA CoverStep ==
    ASSUME TypeOK, ContentInv, OffsetInv, ActionInv, TopicInv, CheckInv, CoverInv, [Next]_vars
    PROVE  CoverInv'
  <1> DEFINE Set(p, t) ==
                \/ checkpoint'[p][t] = checkpoint[p][t] \/ checkpoint'[p][t] = metadata[p][t]
                \/ checkpoint'[p][t] = pos[p] + 1 /\ pos[p] \in Nat /\ pos[p] < Len(log[p])
  <1>0. Longer
    BY LongerStep
  <1>1. ASSUME \A p \in TriggerParts, t \in Triggers : Set(p, t)
        PROVE  CoverInv'
    <2> SUFFICES ASSUME NEW p \in TriggerParts, NEW t \in Triggers
                 PROVE  checkpoint'[p][t] <= Len(log'[p])
      BY DEF CoverInv
    <2>1. Len(log[p]) \in Nat /\ Len(log'[p]) \in Nat /\ Len(log[p]) <= Len(log'[p])
      BY <1>0, PartsAre DEF Longer
    <2>2. /\ metadata[p][t] \in Nat /\ checkpoint[p][t] \in Nat
          /\ metadata[p][t] <= checkpoint[p][t] /\ checkpoint[p][t] <= Len(log[p])
      BY LogTypes DEF CoverInv, CheckInv, Stored
    <2>3. Set(p, t)
      BY <1>1
    <2> QED
      BY <2>1, <2>2, <2>3
  <1>2. CASE Quiet
    <2>1. UNCHANGED checkpoint
      BY <1>2 DEF Quiet
    <2> QED
      BY <1>1, <2>1
  <1>3. CASE Rebalance
    <2>1. checkpoint' = metadata
      BY <1>3 DEF Rebalance
    <2> QED
      BY <1>1, <2>1
  <1>4. CASE UNCHANGED checkpoint
    BY <1>1, <1>4
  <1>5. ASSUME NEW p \in TriggerParts, HandleTrigger(p)
        PROVE  CoverInv'
    <2>0. Singles(log[p])
      BY DEF TopicInv
    <2>1. PICK out, offset : Took(p, out, offset)
      BY <1>5, <2>0, TriggerTakes
    <2>2. PICK t, held, msg : Triggered(p, t, held, msg)
      BY <1>5, <2>0, TriggerTakes
    <2>3. pos[p] \in Nat /\ pos[p] < Len(log[p])
      BY <2>1 DEF Took
    <2>4. /\ \A x \in TriggerParts, u \in Triggers :
                <<x, u>> # <<p, t>> => checkpoint'[x][u] = checkpoint[x][u]
          /\ checkpoint'[p][t] = checkpoint[p][t] \/ checkpoint'[p][t] = pos[p] + 1
      BY <2>2 DEF Triggered
    <2> QED
      BY <1>1, <2>3, <2>4
  <1>6. ASSUME NEW p \in Parts, Committed(p)
        PROVE  CoverInv'
    BY <1>1, <1>6 DEF Committed
  <1> QED
    BY <1>2, <1>3, <1>4, <1>5, <1>6, TriggerSteps, PartsAre
    DEF Crash, BeginTxnFails, EndBatch, HandleEvent, SkipTrigger

\* No message that is neither used nor superseded is forgotten, in every step except one where a
\* transaction could not begin.
LEMMA KeptStep ==
    ASSUME OnePartition, TypeOK, ContentInv, OffsetInv, ActionInv, OnceInv, CoverInv, FirstInv,
           oldest, AllKept, [Next]_vars, \A p \in Parts : ~BeginTxnFails(p)
    PROVE  AllKept'
  <1>0. TypeOK' /\ ContentInv' /\ Longer /\ TopicInv /\ HoldInv /\ CheckInv
    BY BaseStep, LongerStep DEF OnceInv
  <1>1. ASSUME NEW p \in TriggerParts, Still(p), owner' = owner,
               \A t \in Triggers : checkpoint'[p][t] = checkpoint[p][t],
               \A t \in Triggers : p \in Partitions[t] => events'[owner[p]][t] = events[owner[p]][t],
               NEW o \in Nat, o < Len(log'[p])
        PROVE  Kept(p, o)'
    <2>1. \A n \in Nat : n < Len(log[p]) => Kept(p, n)
      BY DEF AllKept
    <2> QED
      BY <1>0, <1>1, <2>1, KeptStill
  <1> SUFFICES ASSUME NEW p \in TriggerParts, NEW o \in Nat, o < Len(log'[p])
               PROVE  Kept(p, o)'
    BY DEF AllKept
  <1>2. ~first[p] /\ p \in Parts /\ owner[p] \in Pods
    BY PartsAre DEF FirstInv, TypeOK
  <1>3. o < Len(log[p]) => Kept(p, o)
    BY DEF AllKept
  <1>4. CASE Quiet
    <2>1. Still(p) /\ UNCHANGED <<owner, events, checkpoint>>
      BY <1>2, <1>4, PartsAre DEF Quiet
    <2> QED
      BY <1>1, <2>1
  <1>5. CASE Rebalance
    <2>1. log' = log
      BY <1>5 DEF Rebalance, bus
    <2> QED
      BY <1>0, <1>3, <1>5, <2>1, KeptRebalance
  <1>6. ASSUME NEW w \in Pods, Crash(w)
        PROVE  Kept(p, o)'
    <2>1. UNCHANGED <<log, committed, metadata, mark, dirty, owner, pos, checkpoint>>
      BY <1>6 DEF Crash, bus, marks
    <2>2. CASE owner[p] = w
      <3>1. stage'[p] = "off"
        BY <1>2, <1>6, <2>2 DEF Crash
      <3> QED
        BY <1>0, <1>3, <2>1, <3>1, KeptCrash
    <2>3. CASE owner[p] # w
      <3>1. stage'[p] = stage[p] /\ batch'[p] = batch[p]
        BY <1>2, <1>6, <2>3 DEF Crash
      <3>2. events'[owner[p]] = events[owner[p]]
        BY <1>2, <1>6, <2>3 DEF Crash, TypeOK
      <3>3. Still(p)
        BY <2>1, <3>1, SameStored DEF Still
      <3> QED
        BY <1>1, <2>1, <3>2, <3>3
    <2> QED
      BY <2>2, <2>3
  <1>7. CASE HandleEvent
    <2>1. UNCHANGED <<events, checkpoint>>
      BY <1>7, EventTakes
    <2>2. PICK out, offset : Took(Event, out, offset)
      BY <1>7, EventTakes
    <2>3. Still(p) /\ owner' = owner
      BY <2>2, PartsAre DEF Took
    <2> QED
      BY <1>1, <2>1, <2>3
  <1>8. ASSUME NEW x \in TriggerParts, SkipTrigger(x)
        PROVE  Kept(p, o)'
    <2>1. /\ UNCHANGED <<events, checkpoint>> /\ pos[x] < checkpoint[x][Msg(x).key]
          /\ Took(x, batch[x].out, batch[x].offset)
      BY <1>8, SkipTakes
    <2>2. log' = log /\ owner' = owner /\ \A y \in Parts \ {x} : Still(y)
      BY <2>1 DEF Took
    <2>3. CASE x = p
      BY <1>0, <1>3, <2>1, <2>2, <2>3, KeptSkip
    <2>4. CASE x # p
      BY <1>1, <1>2, <2>1, <2>2, <2>4
    <2> QED
      BY <2>3, <2>4
  <1>9. ASSUME NEW x \in TriggerParts, HandleTrigger(x)
        PROVE  Kept(p, o)'
    <2>0. Singles(log[x])
      BY <1>0 DEF TopicInv
    <2>1. PICK out, offset : Took(x, out, offset)
      BY <1>9, <2>0, TriggerTakes
    <2>2. PICK t, held, msg : Triggered(x, t, held, msg)
      BY <1>9, <2>0, TriggerTakes
    <2>3. /\ log' = log /\ owner' = owner /\ \A y \in Parts \ {x} : Still(y)
          /\ pos[x] \in Nat /\ pos[x] < Len(log[x])
      BY <2>1 DEF Took
    <2>4. CASE x = p
      BY <1>0, <1>3, <2>1, <2>2, <2>3, <2>4, KeptTriggered
    <2>5. CASE x # p
      <3>1. x \in Partitions[t] /\ t \in Triggers
        BY <2>2, <2>3, KeyTypes DEF Triggered, Msg
      <3>2. \A u \in Triggers : p \in Partitions[u] => u # t
        BY <2>5, <3>1, OnlyPartition
      <3>3. /\ \A u \in Triggers : checkpoint'[p][u] = checkpoint[p][u]
            /\ \A u \in Triggers : u # t => events'[owner[p]][u] = events[owner[p]][u]
        BY <1>2, <2>2, <2>5 DEF Triggered
      <3> QED
        BY <1>1, <1>2, <2>3, <2>5, <3>2, <3>3
    <2> QED
      BY <2>4, <2>5
  <1>10. ASSUME NEW x \in Parts, Committed(x), x # p
         PROVE  Kept(p, o)'
    <2>1. UNCHANGED <<owner, events, checkpoint>> /\ Still(p)
      BY <1>2, <1>10 DEF Committed
    <2> QED
      BY <1>1, <2>1
  <1>11. CASE Committed(p)
    <2>1. log'[p] = log[p]
      BY <1>0, <1>11, TopicCommitTrigger
    <2> QED
      BY <1>0, <1>2, <1>3, <1>11, <2>1, KeptCommit
  <1> QED
    BY <1>0, <1>4, <1>5, <1>6, <1>7, <1>8, <1>9, <1>10, <1>11, TriggerSteps, PartsAre

\* At the start there is no message.
LEMMA KeptInit ==
    ASSUME Init
    PROVE  CoverInv /\ FirstInv /\ KeptInv
  <1>1. CoverInv
    BY PartsAre DEF Init, CoverInv, NoCheckpoint
  <1>2. FirstInv
    BY DEF Init, FirstInv
  <1>3. KeptInv
    BY PartsAre DEF Init, KeptInv, AllKept
  <1> QED
    BY <1>1, <1>2, <1>3

\* What is known of the messages that are pending, in every step.
PendingInv == CoverInv /\ FirstInv /\ KeptInv

\* Every step keeps it.
LEMMA PendingStep ==
    ASSUME OnePartition, TypeOK, ContentInv, OffsetInv, ActionInv, OnceInv, PendingInv, [Next]_vars
    PROVE  PendingInv'
  <1>0. CoverInv /\ FirstInv /\ TopicInv /\ CheckInv
    BY DEF PendingInv, OnceInv
  <1>1. CoverInv'
    BY <1>0, CoverStep
  <1>2. FirstInv' /\ oldest' = oldest
    <2>1. \A a \in Parts : (oldest' = oldest) /\ (oldest' => ~first'[a])
      BY <1>0, FirstStep DEF FirstInv
    <2> QED
      BY <2>1, PartsAre DEF FirstInv
  <1>3. KeptInv'
    <2>1. CASE \E p \in Parts : BeginTxnFails(p)
      <3>1. txnErrors \in Nat /\ txnErrors' = txnErrors + 1
        BY <2>1 DEF BeginTxnFails, TypeOK
      <3>2. txnErrors' # 0
        BY <3>1
      <3> QED
        BY <3>2 DEF KeptInv
    <2>2. CASE \A p \in Parts : ~BeginTxnFails(p)
      <3>1. txnErrors' = txnErrors
        BY <1>0, <2>2, TriggerSteps, PartsAre
        DEF Quiet, Rebalance, Crash, HandleEvent, SkipTrigger, HandleTrigger, Collect, Committed, bounds
      <3>2. ASSUME oldest, AllKept PROVE AllKept'
        BY <1>0, <2>2, <3>2, KeptStep
      <3> QED
        BY <1>2, <3>1, <3>2 DEF KeptInv, PendingInv
    <2> QED
      BY <2>1, <2>2
  <1> QED
    BY <1>1, <1>2, <1>3 DEF PendingInv

-----------------------------------------------------------------------------
(* Theorems                                                                *)

\* Unless its trigger asks for AtLeastOnce, an action runs at most once for a message of the action
\* topic, whatever crashes and rebalances happen: KafkaSensor.Action leaves it to the function
\* that KafkaHandler runs after KafkaTransaction.Commit.  The exceptions are the messages for which
\* that commit of the offset failed, which the code does not notice.
THEOREM ActionsAtMostOnce == Spec => []ActionAtMostOnce
  <1> DEFINE Inv == TypeOK /\ ContentInv /\ OffsetInv /\ ActionInv
  <1>1. Init => Inv
    BY InitKeeps, ActionInit
  <1>2. Inv /\ [Next]_vars => Inv'
    BY BaseStep, ActionStep
  <1>3. Inv => ActionAtMostOnce
    BY DEF ActionInv, RanInv
  <1> QED
    BY <1>1, <1>2, <1>3, PTL DEF Spec

\* With AtLeastOnce, an action has run before the offset of its message is committed: a pod that
\* dies leaves the message to be read again (KafkaSensor.Action runs it in the handler).
THEOREM ActionsAtLeastOnce == Spec => []ActionAtLeastOnce
  <1> DEFINE Inv == TypeOK /\ ContentInv /\ OffsetInv /\ ActionInv /\ PassedInv
  <1>1. Init => Inv
    BY InitKeeps, ActionInit
  <1>2. Inv /\ [Next]_vars => Inv'
    BY BaseStep, ActionStep, PassedStep
  <1>3. Inv => ActionAtLeastOnce
    <2> SUFFICES ASSUME Inv, NEW i \in 1 .. Len(log[Action]), oldest,
                        AtLeastOnce[log[Action][i].key], committed[Action] >= i
                 PROVE  \E k \in 1 .. Len(actions) : actions[k].offset = i - 1
      BY DEF ActionAtLeastOnce
    <2>1. committed[Action] \in Int /\ pos[Action] \in Nat /\ committed[Action] <= pos[Action]
      BY CallTypes
    <2>2. i \in 1 .. pos[Action]
      BY <2>1
    <2> QED
      BY <2>2 DEF PassedInv
  <1> QED
    BY <1>1, <1>2, <1>3, PTL DEF Spec

\* With one partition per trigger, no event is used twice by a trigger: the transaction stores the
\* checkpoint with the message, and consumption resumes with what it does not cover
\* (KafkaSensor.Trigger, KafkaTransaction.Commit and KafkaHandler.Setup).  A commit that fails does
\* no harm by itself; once its mark is sent late and puts an offset or checkpoint back, the events
\* that are read again may be used again.
THEOREM EventsEvaluatedOnce ==
    ASSUME OnePartition PROVE Spec => []EvaluatedOnce
  <1> DEFINE Inv == TypeOK /\ ContentInv /\ OffsetInv /\ ActionInv /\ OnceInv
  <1>1. Init => Inv
    BY InitKeeps, ActionInit, OnceInit
  <1>2. Inv /\ [Next]_vars => Inv'
    BY BaseStep, ActionStep, OnceStep
  <1>3. Inv => EvaluatedOnce
    <2> SUFFICES ASSUME ~rolledBack, Apart(log[Action]) PROVE EvaluatedOnce
      BY DEF OnceInv, UseInv, UseLog, EvaluatedOnce
    <2> SUFFICES ASSUME NEW i \in 1 .. Len(log[Action]), NEW j \in 1 .. Len(log[Action]), i # j,
                        NEW x \in UsedIn(i), x \in UsedIn(j)
                 PROVE  FALSE
      BY DEF EvaluatedOnce
    <2>1. PICK u \in log[Action][i].evs : x = <<log[Action][i].key, u>>
      BY DEF UsedIn
    <2>2. PICK v \in log[Action][j].evs : x = <<log[Action][j].key, v>>
      BY DEF UsedIn
    <2>3. log[Action][i].key = log[Action][j].key /\ u = v
      BY <2>1, <2>2
    <2> QED
      BY <2>1, <2>2, <2>3 DEF Apart
  <1> QED
    BY <1>1, <1>2, <1>3, PTL DEF Spec

\* With one partition per trigger, a message of the trigger topic that is neither used nor
\* superseded is not passed by the committed offset nor by the stored checkpoint, so that it is
\* read again after a crash or a rebalance, failed and late commits included
\* (KafkaTriggerConnection.Offset, KafkaSensor.Trigger
\* and KafkaTransaction.Commit).
THEOREM PendingEventsKept ==
    ASSUME OnePartition PROVE Spec => []PendingKept
  <1> DEFINE Inv == TypeOK /\ ContentInv /\ OffsetInv /\ ActionInv /\ OnceInv /\ PendingInv
  <1>1. Init => Inv
    BY InitKeeps, ActionInit, OnceInit, KeptInit DEF PendingInv
  <1>2. Inv /\ [Next]_vars => Inv'
    BY BaseStep, ActionStep, OnceStep, PendingStep
  <1>3. Inv => PendingKept
    <2> SUFFICES ASSUME Inv, oldest, txnErrors = 0,
                        NEW p \in TriggerParts, NEW i \in 1 .. Len(log[p])
                 PROVE  \/ \A u \in log[p][i].evs : Used(log[p][i].key, u)
                        \/ Superseded(p, i)
                        \/ committed[p] < i /\ metadata[p][log[p][i].key] < i
      BY DEF PendingKept
    <2>1. PICK o \in Nat : i = o + 1 /\ o < Len(log[p])
      <3>1. Len(log[p]) \in Nat
        BY LogTypes
      <3>2. i - 1 \in Nat /\ i = (i - 1) + 1 /\ i - 1 < Len(log[p])
        BY <3>1
      <3> QED
        BY <3>2
    <2>2. committed[p] \in Int /\ metadata[p][log[p][i].key] \in Nat
      BY <2>1, KeyTypes, LogTypes
    <2>3. Kept(p, o)
      BY <2>1 DEF PendingInv, KeptInv, AllKept
    <2>4. CASE Done(p, o)
      BY <2>1, <2>4 DEF Done
    <2>5. CASE ~Done(p, o)
      <3>1. ~(o < committed[p]) /\ ~(o < metadata[p][log[p][i].key])
        BY <2>1, <2>3, <2>5 DEF Kept, Marks, Stored
      <3> QED
        BY <2>1, <2>2, <3>1
    <2> QED
      BY <2>4, <2>5
  <1> QED
    BY <1>1, <1>2, <1>3, PTL DEF Spec
=============================================================================
