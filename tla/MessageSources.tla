--------------------------- MODULE MessageSources ---------------------------
(***************************************************************************)
(* The event sources that consume messages of a broker                     *)
(* (pkg/eventsources/sources): in which order they dispatch an event to    *)
(* the event bus and settle its message, and what the broker then does     *)
(* when dispatch fails, the event source's filter rejects the event, a     *)
(* message cannot be marshalled or the pod dies.                           *)
(*                                                                         *)
(* A source is described by a record: how its StartListening settles a     *)
(* message (from the source), and when its broker delivers again (external,*)
(* from the receive mode the source asks for).  Messages are numbered in   *)
(* the order in which the broker got them.                                 *)
(***************************************************************************)
EXTENDS Integers, FiniteSets

CONSTANTS
    Kinds,         \* the sources considered
    MaxMsg,        \* bound: number of messages
    Bads,          \* sets of messages that cannot be marshalled
    Filters,       \* sets of messages that the event source's filter rejects or fails on
    MaxBatch,      \* messages of one read, for sources that read several
    Faults, Budgets

\* protocol: "push" a broker without acknowledgements, "queue" with one for each
\* message, "stream" a Redis stream, "log" a Kafka consumer group.
\* durable: does the broker keep messages for a source that is away: "never", "always",
\* or once the consumer group has "committed" an offset.
KindType == [protocol : {"push", "queue", "stream", "log"}, batch : {1, MaxBatch},
             onOk : {"ack", "leave"}, onError : {"ack", "leave", "stop"},
             onBad : {"ack", "leave", "dispatch"}, redelivery : {"none", "timeout", "restart"},
             durable : {"never", "committed", "always"}, deadLetters : BOOLEAN]

ASSUME SourcesAssumption ==
    /\ MaxMsg \in Nat /\ MaxBatch \in Nat \ {0}
    /\ Kinds \subseteq KindType /\ Bads \subseteq SUBSET (1 .. MaxMsg)
    /\ Filters \subseteq SUBSET (1 .. MaxMsg)
    /\ \A b \in Budgets : b \in [Faults -> Nat]
-----------------------------------------------------------------------------
(* The sources *)

\* Delivered once, whatever becomes of it.
volatile == [protocol |-> "push", batch |-> 1, onOk |-> "leave", onError |-> "leave",
             onBad |-> "leave", redelivery |-> "none", durable |-> "never",
             deadLetters |-> FALSE]
mqtt == volatile
nats == volatile
emitter == volatile
redis == volatile
generic == volatile
minio == volatile
\* The notifications are those that match the path and the type of operation.
file == volatile
hdfs == volatile
\* Each partition is read from its end, without a checkpoint.
azureEventsHub == [volatile EXCEPT !.batch = MaxBatch]
\* sarama.OffsetNewest
kafkaPartition == volatile

\* The message is deleted after a successful dispatch; after a failure its
\* visibility timeout expires.
awsSqs(dlq) == [protocol |-> "queue", batch |-> MaxBatch, onOk |-> "ack", onError |-> "leave",
                onBad |-> IF dlq THEN "leave" ELSE "ack", redelivery |-> "timeout",
                durable |-> "always", deadLetters |-> dlq]
azureQueueStorage(dlq) == awsSqs(dlq)
\* Ack or Nack.
gcpPubSub == [awsSqs(FALSE) EXCEPT !.batch = 1, !.onBad = "leave"]
\* The handler's error requeues the message; the client gives up after some attempts.
nsq == [gcpPubSub EXCEPT !.deadLetters = TRUE]
\* ReceiveModePeekLock or ReceiveModeReceiveAndDelete.
azureServiceBus(deferDelete) == IF deferDelete THEN gcpPubSub
                                ELSE [volatile EXCEPT !.durable = "always"]
\* Deleted after dispatch, successful or not; what json.Marshal returned with an error
\* is dispatched too.
alibabaMns == [awsSqs(FALSE) EXCEPT !.batch = 1, !.onError = "ack", !.onBad = "dispatch"]
\* Acknowledged after handleOne, successful or not.
pulsar == [alibabaMns EXCEPT !.onBad = "ack", !.redelivery = "restart"]
\* Nothing acknowledges a delivery: with AutoAck the server forgets it at once,
\* without it the server keeps it until the connection ends.  The default queue is
\* exclusive and without a name: it ends with the connection that declared it.
amqp(autoAck, exclusive) ==
    [volatile EXCEPT !.protocol = IF autoAck THEN "push" ELSE "queue",
                     !.redelivery = IF autoAck THEN "none" ELSE "restart",
                     !.durable = IF exclusive THEN "never" ELSE "always"]
\* What a read returned is acknowledged together, less what failed.
redisStream == [protocol |-> "stream", batch |-> MaxBatch, onOk |-> "ack", onError |-> "leave",
                onBad |-> "leave", redelivery |-> "restart", durable |-> "always",
                deadLetters |-> FALSE]
\* An error of the event bus ends the session; another one skips the message.  Until
\* the group has committed an offset a session starts at the end of the log
\* (OffsetNewest), unless consumerGroup.oldest is set.
kafkaGroup(oldest) ==
    [protocol |-> "log", batch |-> 1, onOk |-> "ack", onError |-> "stop", onBad |-> "leave",
     redelivery |-> "restart", durable |-> IF oldest THEN "always" ELSE "committed",
     deadLetters |-> FALSE]
-----------------------------------------------------------------------------
Msgs == 1 .. MaxMsg

VARIABLES
    kind, bad, filtered,
    arrived,     \* messages 1 .. arrived were sent to the broker
    unread,      \* messages the broker will deliver
    pending,     \* delivered, and kept until acknowledged
    dead,        \* in the dead-letter queue, or given up by the client
    running,     \* StartListening runs
    batch,       \* what it has read and not yet handled
    acks,        \* redisStream: msgsToAcknowledge
    last,        \* redisStream: pending messages are read after this one; -1 for ">"
    marked,      \* kafkaGroup: the offset marked in this session
    committed,   \* kafkaGroup: an offset was committed
    skipped,     \* messages gone with a subscription that was not kept
    published,   \* messages whose event is in the bus
    failed,      \* messages whose dispatch failed in the current session
    budget

spec == <<kind, bad, filtered>>
source == <<running, batch, acks, last, marked, failed>>
vars == <<kind, bad, filtered, arrived, unread, pending, dead, running, batch, acks, last,
          marked, committed, skipped, published, failed, budget>>

Removed == (1 .. arrived) \ (unread \cup pending)

TypeOK ==
    /\ kind \in Kinds /\ bad \in Bads /\ filtered \in Filters /\ arrived \in 0 .. MaxMsg
    /\ unread \subseteq 1 .. arrived /\ pending \subseteq 1 .. arrived
    /\ unread \cap pending = {} /\ dead \subseteq Removed
    /\ running \in BOOLEAN /\ batch \subseteq 1 .. arrived /\ Cardinality(batch) <= kind.batch
    /\ acks \subseteq Msgs /\ last \in -1 .. MaxMsg /\ marked \in 0 .. MaxMsg
    /\ committed \in BOOLEAN /\ skipped \subseteq 1 .. arrived
    /\ published \subseteq (1 .. arrived) \ filtered /\ failed \subseteq Msgs
    /\ budget \in [Faults -> Nat]

\* The fields of a Redis stream are strings, which can always be marshalled.
Init ==
    /\ kind \in Kinds /\ bad \in Bads /\ filtered \in Filters /\ arrived = 0
    /\ kind.protocol = "stream" => bad = {}
    /\ unread = {} /\ pending = {} /\ dead = {}
    /\ running = TRUE /\ batch = {} /\ acks = {} /\ last = 0 /\ marked = 0 /\ failed = {}
    /\ committed = FALSE /\ skipped = {} /\ published = {} /\ budget \in Budgets

Fault(k) == budget[k] > 0 /\ budget' = [budget EXCEPT ![k] = @ - 1]

First(S) == CHOOSE m \in S : \A n \in S : m <= n
Last(S) == CHOOSE m \in S : \A n \in S : n <= m
-----------------------------------------------------------------------------
(* The broker *)

\* The broker keeps messages for a source that is away.
Keeps == kind.durable = "always" \/ (kind.durable = "committed" /\ committed)

\* What nobody is subscribed to is dropped.
Arrive ==
    /\ arrived < MaxMsg
    /\ arrived' = arrived + 1
    /\ IF running \/ Keeps
         THEN unread' = unread \cup {arrived + 1} /\ UNCHANGED skipped
         ELSE skipped' = skipped \cup {arrived + 1} /\ UNCHANGED unread
    /\ UNCHANGED <<spec, pending, dead, source, committed, published, budget>>

\* An unacknowledged message is delivered again, or is moved to the dead letters.
Timeout(m) ==
    /\ kind.redelivery = "timeout" /\ m \in pending
    /\ m \in batch => Fault("slow")
    /\ m \notin batch => UNCHANGED budget
    /\ pending' = pending \ {m}
    /\ \/ unread' = unread \cup {m} /\ UNCHANGED dead
       \/ kind.deadLetters /\ dead' = dead \cup {m} /\ UNCHANGED unread
    /\ UNCHANGED <<spec, arrived, source, committed, skipped, published>>

\* The offsets marked by a consumer group are committed from time to time.
Commit ==
    /\ kind.protocol = "log" /\ pending \cap 1 .. marked # {}
    /\ pending' = pending \ 1 .. marked /\ committed' = TRUE
    /\ UNCHANGED <<spec, arrived, unread, dead, source, skipped, published, budget>>
-----------------------------------------------------------------------------
(* The pod, the session *)

Forget == batch' = {} /\ acks' = {} /\ last' = 0 /\ marked' = 0 /\ failed' = {}

\* A subscription that is not kept takes its messages with it.  Without
\* acknowledgements the broker may have sent any of them already.
Crash ==
    /\ running /\ Fault("crash")
    /\ running' = FALSE
    /\ IF Keeps
         THEN /\ unread' \in IF kind.protocol = "push" THEN SUBSET unread ELSE {unread}
              /\ UNCHANGED <<pending, skipped>>
         ELSE /\ unread' = {} /\ pending' = {}
              /\ skipped' = skipped \cup unread \cup pending
    /\ Forget
    /\ UNCHANGED <<spec, arrived, dead, committed, published>>

\* A new connection gets what the old one left, the consumer of a stream when it
\* asks for its pending messages.
Restart ==
    /\ ~running /\ running' = TRUE
    /\ IF kind.redelivery = "restart" /\ kind.protocol # "stream"
         THEN unread' = unread \cup pending /\ pending' = {}
         ELSE UNCHANGED <<unread, pending>>
    /\ UNCHANGED <<spec, arrived, dead, batch, acks, last, marked, committed, skipped, published,
                   failed, budget>>
-----------------------------------------------------------------------------
(* StartListening *)

\* One read of up to kind.batch messages, for a log and a stream the first ones.
Read ==
    /\ running /\ batch = {}
    /\ kind.protocol = "stream" => acks = {} /\ last = -1
    /\ \E S \in SUBSET unread :
          /\ S # {} /\ Cardinality(S) <= kind.batch
          /\ kind.protocol \in {"log", "stream"} => \A m \in S, n \in unread \ S : m < n
          /\ batch' = S /\ unread' = unread \ S
          /\ pending' = IF kind.protocol = "push" THEN pending ELSE pending \cup S
    /\ UNCHANGED <<spec, arrived, dead, running, acks, last, marked, committed, skipped, published,
                   failed, budget>>

\* XREADGROUP with an ID returns the consumer's own pending messages; when there are
\* none left, the new ones are asked for.
ReadPending ==
    LET own == {m \in pending : m > last}
    IN  /\ running /\ kind.protocol = "stream" /\ last # -1 /\ batch = {} /\ acks = {}
        /\ IF own = {}
             THEN last' = -1 /\ UNCHANGED batch
             ELSE /\ \E S \in SUBSET own :
                        /\ Cardinality(S) = IF Cardinality(own) < kind.batch
                                              THEN Cardinality(own) ELSE kind.batch
                        /\ \A m \in S, n \in own \ S : m < n
                        /\ batch' = S
                  /\ UNCHANGED last
        /\ UNCHANGED <<spec, arrived, unread, pending, dead, running, acks, marked, committed,
                       skipped, published, failed, budget>>

\* The message is acknowledged; a receipt that has timed out may still be accepted.
\* When it fails, the Pulsar source returns and is started again, with a new
\* connection; the others go on.
Ack(m) ==
    /\ \/ pending' = pending \ {m} /\ UNCHANGED <<unread, budget>>
       \/ m \in unread /\ unread' = unread \ {m} /\ UNCHANGED <<pending, budget>>
       \/ /\ Fault("ack")
          /\ IF kind.redelivery = "restart"
               THEN unread' = unread \cup pending /\ pending' = {}
               ELSE UNCHANGED <<unread, pending>>
    /\ UNCHANGED <<acks, marked>>

Settle(m, how) ==
    CASE how = "ack" /\ kind.protocol = "queue" -> Ack(m)
      [] how = "ack" /\ kind.protocol = "stream" ->
            acks' = acks \cup {m} /\ UNCHANGED <<unread, pending, marked, budget>>
      [] how = "ack" /\ kind.protocol = "log" ->
            marked' = m /\ UNCHANGED <<unread, pending, acks, budget>>
      [] how = "leave" \/ kind.protocol = "push" ->
            UNCHANGED <<unread, pending, acks, marked, budget>>

\* The source calls dispatch.
Dispatches(m) == m \notin bad \/ kind.onBad = "dispatch"

\* Mutant: the message is settled before the dispatch.
ackBeforeDispatch(m) ==
    /\ Dispatches(m)
    /\ batch' = batch \ {m}
    /\ Settle(m, kind.onOk)
    /\ published' \in {published, published \cup ({m} \ filtered)}
    /\ UNCHANGED <<dead, last, committed, skipped, failed>>

\* dispatch returns nil: the event is in the bus, or the filter did not let it through.
dispatched(m) ==
    /\ Dispatches(m)
    /\ batch' = batch \ {m}
    /\ Settle(m, kind.onOk)
    /\ published' = published \cup ({m} \ filtered)
    /\ UNCHANGED <<dead, last, committed, skipped, failed>>

\* An error of dispatch, after which the event may be in the bus.
dispatchFailed(m) ==
    /\ Dispatches(m) /\ m \notin filtered /\ kind.onError # "stop"
    /\ budget["dispatch"] > 0
    /\ batch' = batch \ {m}
    /\ \/ /\ kind.onError = "ack" /\ kind.protocol = "queue"
          /\ pending' = pending \ {m}
       \/ kind.onError = "leave" /\ UNCHANGED pending
    /\ budget' = [budget EXCEPT !["dispatch"] = @ - 1]
    /\ published' \in {published, published \cup {m}}
    /\ failed' = failed \cup {m}
    /\ UNCHANGED <<dead, unread, acks, last, marked, committed, skipped>>

\* The next session of the consumer group reads on after message c; when no offset
\* was ever committed, at the end of the log or at its beginning.
NextSession(c) ==
    /\ committed' = (committed \/ c > 0)
    /\ IF kind.durable = "committed" /\ ~(committed \/ c > 0)
         THEN unread' = {} /\ skipped' = skipped \cup unread \cup pending
         ELSE unread' = unread \cup (pending \ 1 .. c) /\ UNCHANGED skipped
    /\ pending' = {}
    /\ Forget

\* Mutant: the session goes on after an error of the event bus.
sessionGoesOn(m) ==
    /\ Dispatches(m) /\ m \notin filtered /\ kind.onError = "stop"
    /\ Fault("dispatch")
    /\ published' \in {published, published \cup {m}}
    /\ batch' = {} /\ failed' = failed \cup {m}
    /\ UNCHANGED <<dead, unread, pending, acks, last, marked, committed, skipped>>

\* ConsumeClaim returns: the session tries to commit what was marked, and the next
\* one begins.
sessionEnds(m) ==
    /\ Dispatches(m) /\ m \notin filtered /\ kind.onError = "stop"
    /\ Fault("dispatch")
    /\ published' \in {published, published \cup {m}}
    /\ \E c \in {0, marked} : NextSession(c)
    /\ UNCHANGED dead

\* Mutant: a message that cannot be marshalled ends the session like any other error.
stopOnBad(m) ==
    /\ ~Dispatches(m)
    /\ IF kind.onError = "stop"
         THEN NextSession(marked) /\ UNCHANGED budget
         ELSE /\ batch' = batch \ {m} /\ Settle(m, kind.onBad)
              /\ UNCHANGED <<last, committed, skipped, failed>>
    /\ UNCHANGED <<dead, published>>

badMessage(m) ==
    /\ ~Dispatches(m)
    /\ batch' = batch \ {m}
    /\ Settle(m, kind.onBad)
    /\ UNCHANGED <<dead, published, last, committed, skipped, failed>>

handleOne ==
    /\ batch # {}
    /\ LET m == First(batch)
       IN  dispatched(m) \/ dispatchFailed(m) \/ sessionEnds(m) \/ badMessage(m)
    /\ UNCHANGED <<spec, arrived, running>>

\* XAck of the messages that were dispatched, whose failure is logged.  Pending
\* messages are read on after the last of them.
XAck ==
    /\ kind.protocol = "stream" /\ batch = {} /\ acks # {}
    /\ \/ pending' = pending \ acks /\ UNCHANGED budget
       \/ Fault("ack") /\ UNCHANGED pending
    /\ last' = IF last = -1 THEN -1 ELSE Last(acks)
    /\ acks' = {}
    /\ UNCHANGED <<spec, arrived, unread, dead, running, batch, marked, committed, skipped,
                   published, failed>>

Listen == Read \/ ReadPending \/ handleOne \/ XAck

Next == Arrive \/ (\E m \in pending : Timeout(m)) \/ Commit \/ Crash \/ Restart \/ Listen

Spec == Init /\ [][Next]_vars

\* The broker does not pass over a message for ever.
Fairness ==
    /\ \A m \in Msgs : /\ WF_vars(m \notin batch /\ Timeout(m))
                       /\ SF_vars(m \in unread /\ Read /\ m \in batch')
    /\ WF_vars(Restart) /\ WF_vars(Listen)

FairSpec == Spec /\ Fairness
-----------------------------------------------------------------------------
\* Sources that settle a message only after its event is in the bus, of a broker that
\* keeps messages for them.  An AMQP queue is one when it has a name and is not exclusive.
Reliable == kind.protocol # "push" /\ kind.onError # "ack" /\ kind.durable # "never"

\* What no dispatch puts into the bus: the source logs it or the filter rejects it.
Dropped == bad \cup filtered

\* A reliable source loses nothing: a message that the broker no longer holds is in
\* the bus or among the dead letters, whatever failed, timed out or crashed.  It may
\* drop what cannot be marshalled and what the filter rejects or fails on.  A Kafka
\* consumer group without consumerGroup.oldest also skips what a session left before
\* the group's first commit, and what arrived before the next session.
RemovedMeansPublished ==
    Reliable => /\ Removed \ Dropped \subseteq published \cup dead \cup skipped
                /\ kind.durable = "always" => skipped = {}

\* A Kafka consumer group publishes in the order of the offsets: no message gets
\* ahead of one whose dispatch failed, because ConsumeClaim stops there and the next
\* session reads it again, unless that session starts at the end of the log.
PublishedInOrder ==
    kind.protocol = "log" =>
        \A m \in published : \A n \in 1 .. m - 1 : n \in published \cup Dropped \cup skipped

\* A reliable source publishes every message in the end, and a message that cannot
\* be marshalled holds up no other.  Exceptions: dead letters, what a consumer group
\* skipped before its first commit, and sources whose broker waits for a new
\* connection, while a message is left from a failed dispatch.
EventuallyPublished ==
    \A m \in Msgs :
        Reliable /\ m <= arrived /\ m \notin Dropped ~>
            \/ m \in published \cup dead \cup skipped
            \/ kind.redelivery = "restart" /\ m \in failed
=============================================================================
