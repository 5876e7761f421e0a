# A TLA+ model of Argo Events

Argo Events connects *event sources* to *sensors* through an *event bus*.  An
event source turns what happens outside (a webhook call, a calendar tick, a
message of another system) into cloud events and publishes them; a sensor
subscribes to the events its *dependencies* name and, when the *conditions* of
one of its *triggers* are true of the events received, executes the trigger's
action.  Controllers create all three from Kubernetes resources.  This project
follows an event along that path - source, bus, trigger connection, action - and
asks at each station whether it can get lost, be used twice, be used with the
wrong others, or be waited for by somebody who will never see it.

Contents: [inventory](#inventory), [modules](#modules-and-code),
[runs](#runs), [fairness](#fairness), [proofs](#proofs),
[findings](#findings-and-known-limits), [not modelled](#not-modelled),
[plan](#plan).

## Inventory

| component | state it keeps | operations | hard because | correct when |
|---|---|---|---|---|
| JetStream trigger connection (`pkg/eventbus/jetstream/sensor/trigger_conn.go`) | saved events in a K/V bucket, durable consumers, cache of event IDs, loop positions | pull, de-duplicate, filter, evaluate, act or save, clear, acknowledge, reset conditions | redelivery, AckSync and K/V failures, pod death and disconnection at any step | an acknowledged event was used or saved; nothing fires twice; no complete set waits; a reset forgets |
| Sensor listener (`pkg/sensors/listener.go`) | `conn`, `subLock`, `closeSubCh`, one goroutine per role | tick, reconnect, subscribe, shut down, cancel | unbuffered channels between five kinds of goroutine | one processor at a time; a live subscription again after a drop; return after cancel |
| JetStream sensor state (`.../jetstream/sensor/sensor_jetstream.go`) | stored specification, saved events, consumers | compare, purge, save specification | several K/V requests, a pod may die or a request fail between any two | no event of an old definition is used |
| Kafka sensor (`pkg/eventbus/kafka/sensor`) | committed offsets and checkpoints, events held in memory, batches | Event, Trigger and Action handlers, transactions, rebalance | state in memory rebuilt from offsets that several triggers share | a trigger is evaluated once per set; offsets never pass what is waited for |
| STAN trigger connection (`pkg/eventbus/stan/sensor`) | events, last reset and a cache of IDs in memory | receive, evaluate, act, clear, reset, time out | redelivery every second, callbacks against the reset goroutine, MaxInflight | no complete set waits; no message fires twice; the window never closes |
| Trigger execution (`listener.go` 363-461, `pkg/shared/util/retry.go`) | attempts, counters | execute, retry, dead-letter, count, acknowledge | the action may run in a goroutine of its own and fail after its effect | retried as configured, then dead-lettered; acknowledged after that; counted once |
| Event source adaptor (`pkg/eventsources/eventing.go`) | connection of the bus, service goroutines | start, publish with retry, reconnect, cancel | publish and daemon share `eventBusConn` without a lock | every service runs or the process ends |
| Calendar source and persistence (`pkg/eventsources/sources/calendar`, `.../persist`) | last schedule in a config map | schedule, catch up, save | a crash between publish and save | no schedule skipped, each published once |
| Webhook sources (`pkg/eventsources/common/webhook`) | table of routes | register, activate, dispatch, deactivate | unbuffered channels between HTTP handlers, routes and the controller | every request answered, and truthfully; all routes stop |
| Message sources (`pkg/eventsources/sources/*`) | what is read and not yet settled | read, dispatch, acknowledge or not | dispatch fails, the receipt expires, the pod dies in between | settled only when published; order kept; nothing left for good |
| Reconcilers and installers (`pkg/reconciler`) | Kubernetes objects, cached and real | reconcile, install, uninstall, finalize, save status | stale caches, conflicts, failure half way | converge to the specification, with credentials that agree |
| Event filters, cron helper, file watcher | none | pure functions | | equal to their reference definition |
| Leader election, drivers, API types, clients, metrics, TLS, trigger implementations | configuration | construction, I/O | | not a subject of this project |

How they interact.  The controllers' reconcilers create a deployment per event
source, sensor and event bus (Reconcilers).  An event source pod runs the adaptor
(EventSourceAdaptor), which gives each service - a calendar (CalendarSource), a
webhook (WebhookRoutes), a consumer of another broker (MessageSources) - a
`dispatch` function that publishes to the bus.  A sensor pod that is the leader
runs `listenEvents`: `Initialize` brings the bucket to the sensor's specification
(JetStreamSpecState), then each trigger gets a goroutine that connects, subscribes
and watches the connection (SensorListener).  `Subscribe` starts one
`pullSubscribe` per subject and one `processMsgs`, which share a channel; what
they do with messages is JetStreamTrigger; on NATS Streaming it is one callback
(StanTrigger).  The action they are given is TriggerExecution.  On Kafka the pods
of a sensor form a consumer group instead, all three handlers of KafkaSensor run
in every pod, and the work is passed on through topics.

## Modules and code

`PROJECT.json` maps each definition to the lines it stands for.  Every module has
an MC module with its instances, except EventSourceAdaptor, TriggerConnection and
JetStreamRefinement, which are parts of others.

### Sensors

**TriggerConnection** - the abstract specification: what the interface of
`pkg/eventbus/common/interface.go` promises to an action.  Events are taken one by
one and in order, held until the expression is true of them, then given to the
action together and used up.  After a fault (`Lapse`) used events may come back.

**JetStreamTrigger** - one trigger from the stream to its action.  The server's
half of the state (`content`, `published`, `consumer`, `durable`, `kv`) survives
everything; the pod's half (`held`, `recent`, `cur`, `dep`, `key`, `acking`,
`pending`, `pc`, `conn`) is lost with the pod.  `consumer[m]` is what JetStream
keeps per message: `new`, `out` (delivered, waiting for an acknowledgement),
`ready` (to be redelivered), `acked`; `missed` was published before the durable
consumer existed (DeliverNew).  A message goes through `pullSubscribe`,
`acceptMsg` or `discardMsg`, then for each dependency one of `skipDependency`,
`triggerSingle`, `triggerAll`, `saveDependency`, `dependencyError`, and
`finishMsg`; every K/V deletion of `clearAllDependencies` is a step of its own.
The write to the K/V store and the evaluation before it are one step: only this
goroutine writes the keys of its trigger (`OneProcessor` of SensorListener is
what makes that so).  Time is measured in stream sequence numbers, so that the
comparison of an entry's creation time with `lastResetTime` is one of numbers.
A *scenario* says what the trigger is, what may be published and which faults
may happen how often; a behaviour starts in one of them.

**JetStreamRefinement** - the refinement mapping from JetStreamTrigger to
TriggerConnection: `held` is the K/V store, where the entries that
`clearAllDependencies` has yet to delete count as gone; `taken` is the history
variable `settled`; the faults after which used events may come back are a crash, a
disconnection, a purged cache and a failed deletion.  Failed gets, puts and
AckSyncs are not among them: with those, too, every step is one of TriggerConnection.

The modules whose names end in **Proofs** hold the theorems about the module they are
named after; **EventSourceProofs** those about CalendarSource, WebhookRoutes and
MessageSources.  See [Proofs](#proofs).

**SensorListener** - control only: the daemon of the trigger goroutine, the
subscribe goroutines it starts over time, their pullSubscribe and processMsgs
goroutines, and the channels between them.  A send on an unbuffered channel and
its receive are one step.  JetStreamTrigger and SensorListener overlap on purpose:
the first has the data and a coarse shutdown (with the outcome `stuck` that the
second explains), the second has every goroutine and no data.

**JetStreamSpecState** - `setStateToSpec` request by request, over the life of
several pods and specifications.  A saved event is represented by the definition
of its dependency and the expression of its trigger at the time.

**StanTrigger** - the event holder of a trigger on NATS Streaming.  The server
redelivers what is not acknowledged, so the messages a holder keeps come again and
again, and many branches of `processEventSourceMsg` are about recognising them:
each is a disjunct.  The callback evaluates in one step and runs the action in a
second one, so that resets of the other goroutine fall in between.

**KafkaSensor** - logs of the three topics as `ReadCommitted` shows them, the
group's offsets with their metadata, and per partition what ConsumeClaim keeps.
A handler call is one step and `KafkaTransaction.Commit` another; a batch ends at
any moment after its first message, which is what a batch of a given size or
duration may look like from outside.  What a batch has collected is one sequence of
messages per partition: `KafkaSensor.Event` ranges over a map, so an event's messages
come in any order, and the partitioner chooses where each goes.  `session.Commit` returns
nothing (`SessionCommit`): for each partition whose mark is not confirmed it may succeed,
fail, or succeed with its answer lost, and the mark is then sent again by the next
commit of the pod, whatever a transaction has stored meanwhile; `dirty` is the
metadata such a mark carries.

**TriggerExecution** - `actionFunc` of the listener as the connection calls it:
with atLeastOnce in the foreground, with `DoWithRetry`, the dead-letter trigger and
the acknowledgement after it; otherwise in a goroutine of its own after the
acknowledgement.  An attempt succeeds, fails before its effect or fails after it;
`failures` and `dlqFailures` count them for the properties.

### Event sources

**EventSourceAdaptor** - `EventSourceAdaptor.run`: the connection, the daemon that
renews it, `dispatch` with its retries and the event ID they share, cancellation
and the end of the process.  It has no Next of its own.

**CalendarSource** - composes the adaptor with the calendar source as its service
and the config map of `persist`: a schedule comes due, is published through
`dispatch` and then saved; a new pod catches up from what was saved.

**WebhookRoutes** - `ManageRoute` of every listener, `manageRouteChannels` of every
route, the controller's `ProcessRouteStatus`, and the handlers of requests, which
meet on unbuffered channels.  StartListening makes a new route each time the
adaptor retries it, while a handler is registered at its endpoint only once.  `dispatch`
publishes, fails, or returns nil without publishing because the event source's filter
rejects the event or fails on it (`dispatchDropped`).

**MessageSources** - the sources that consume another broker differ in when they
settle a message and in what they do with one that cannot be marshalled or
dispatched.  Each is a record translated from its StartListening; one state machine
runs them all.  What the broker does (redeliver after a timeout, after a
reconnection, never) follows from the mode the source asks for and is external, and
so is what it keeps for a source that is away (`durable`): always, never (the queue that
AMQP declares by default is exclusive and without a name), or once a Kafka group has
committed an offset (without `consumerGroup.oldest` it starts at the end of the log until
then).  `filtered` are the messages that the filter in `dispatch` drops.

### Controllers

**Reconcilers** - the EventBus controller with its JetStream, NATS and exotic
installers as a sequence of API calls, each of which may fail or take effect
although its answer is lost, over a cache that lags behind; and the controller of an
EventSource that waits for the bus.  Uninstall lists the users of the bus and its volume
claims through that cache as well: `listed` is whether it has the EventSource, and the
claims may or may not be in it yet.  The content of an object is the number of the
specification it was built from.  Bounds that shape it: specifications are edited
upwards; the EventSource is deleted only to let a bus go that is being deleted;
somebody else deletes only objects the cache has seen; the writes of the EventSource
controller are one step, whose every prefix may be all that happens.

## Runs

| run | asks | bounds |
|---|---|---|
| `trigger_safety` | is every acknowledged event settled, does nothing fire twice, is a complete set never left waiting, does a reset forget, and is every step one of TriggerConnection | six scenarios of 2-3 messages: one failed get, put, delete and AckSync each; a crash; a disconnection; both with a reset; a disjunction with an emptied cache; two dependencies on one subject with every choice of filters |
| `trigger_live` | is every delivered message acknowledged in the end | 2 messages; a crash, a disconnection and a failed AckSync |
| `listener_safety` | one processor at a time, clean shutdowns; listens again and returns unless stuck in one of two named ways | 1 or 2 subjects; a drop, an error, a reset, a cancellation |
| `listener_shutdown` | the violation, see [Findings](#findings-and-known-limits) | 1 subject, a drop |
| `spec_edits` | no stale event, no orphaned consumer | 2 triggers, 2 dependencies, 2 edits, one failed request, any number of pod deaths |
| `kafka_safety` | evaluated once, nothing passed over, actions at most or at least once | 2 pods, 3 triggers on one partition, a crash, 3 inputs, each an event, a failed BeginTxn or a failed session.Commit; from the oldest and from the newest offset |
| `stan_safety` | no complete set waits, no message fires twice in the life of a holder, everything is delivered | 5 messages without faults; 2-3 messages with lost deliveries and acknowledgements, eviction, reset, timeout, expiry, crash, reconnection |
| `execution_safety` | acknowledged only after a successful action or all the attempts, those of the dead-letter trigger included; counted once; never processed for ever | 2 messages, a crash, nine combinations of atLeastOnce, retry strategy and dead-letter trigger |
| `calendar_safety` | nothing skipped or published twice, everything due published, stops when cancelled | 4 schedules, one excluded; any two of eight faults, three with a lost connection |
| `webhook_safety` | answers are true, requests are answered, routes stop | 2 listeners on one or two endpoints, 2 requests, one of which a filter may drop, 2 attempts, 2 failures of PostActivate, 1 of dispatch |
| `sources_safety` | settled only when published, order kept, published in the end | 27 settings of 19 sources, 3 messages, of which one may be malformed and one dropped by the filter, batches of 2; a failed dispatch, a failed acknowledgement, an expired receipt and a crash |
| `reconcile_safety` | credentials agree, quiet means done, no bus is removed under users its controller can see, everything settles | 3 specifications, one invalid; one edit; one failed call, crash or deleted object |

Why these bounds.  Three messages are the least with which an event can be
saved, superseded and then completed, or completed, redelivered and completed
again; two are the least with a firing of a conjunction before a fault; five exceed
MaxInflight of StanTrigger (two dependencies plus two).  Ack waits expire any number
of times.  Faults come one of each kind because a second one of the same kind meets a
state that the first one has already led to (a reconnection starts from what the
server holds); the proofs do not depend on it.  CalendarSource combines faults of two
kinds, and three when a connection is lost and not renewed at once, because the
retries in `dispatch` absorb a single one.  Two edits are what it takes to give a name
away and back.  Two subjects are needed for one pullSubscribe to fail after another
has started.  With Kafka three events on one partition are a pending event, a firing
and an event after it; a failed call takes the place of one of them, since two events are enough
for a commit to fail before a firing.  The specifications that `spec_edits` considers have either two
triggers, or two forms of a definition, not both at once: a purge looks at one trigger
and one dependency at a time.  In `reconcile_safety` three specifications let an edit
lead to, past or away from an invalid one, and one fault falls between any two calls of
a reconcile; caches lag and writes are refused without a bound.

The type invariants of JetStreamTrigger, SensorListener and KafkaSensor, the modules with
the most positions in their state, are part of their runs.  The other modules state
theirs (`TypeOK`) next to the properties; it may be added to any of the configurations.

Symmetry is used for triggers (`spec_edits`) and pods (`kafka_safety`), in runs that
check invariants only.  Deadlock is not checked in any run: bounded environments stop,
and a listener that was cancelled is meant to.

## Fairness

Publications, edits, cron, faults and cancellations are nowhere fair.

- `trigger_live`: the goroutines of a running pod take their next step, the daemon
  looks at the connection every five seconds, Kubernetes restarts a dead pod, and the
  server redelivers what is not acknowledged in time (`AckWait`).
- `listener_safety`, `listener_shutdown`: weak fairness for each goroutine, as the Go
  scheduler gives, and strong fairness for a case of a `select` that is ready again and
  again, since `select` chooses among ready cases at random.  A send that nobody
  receives is not enabled, so no fairness makes it happen.
- `stan_safety`: the callback goes on, ack waits expire, and a message that may be
  delivered again and again is delivered: strong fairness per message, since other
  deliveries may fill the window in between and the server takes turns.
- `execution_safety`: every goroutine that executes or retries goes on; backoffs end.
- `calendar_safety`: Kubernetes restarts the pod; daemon, service and dispatch go on.
- `webhook_safety`: strong fairness for each party of a channel, which the runtime
  serves in the order of arrival, weak for the rest.
- `sources_safety`: receipts expire, the pod is restarted, and a message that can be
  read again and again is read.
- `reconcile_safety`: the workers run, the watches deliver, and a failed request is
  tried again after its delay, as controller-runtime's work queue does.

## Proofs

`JetStreamTriggerProofs` proves first three invariants of JetStreamTrigger's `Spec` for
every number of dependencies, subjects and messages, every set of scenarios and
every number of faults.  Assumed are the types of the constants
(`ConstantsAssumption`) and that conditions are monotone and not true of no event
at all (`ExpressionAssumption`): `getDependencyExpression` admits names, `&&`,
`||` and parentheses, no negation.

- `TypeCorrect` (`TypeOK`).  Types alone are not inductive: a step indexes by
  `cur`, `dep` and `key`.  `Control` says where the loops of processMsg and
  clearAllDependencies can be at each `pc`, and `TypeInv == TypeOK /\ Control` is
  inductive, action by action.
- `SavedNeverComplete` (`SavedEventsIncomplete`).  Inductive as it stands, given
  `TypeInv`: only `saveDependency` adds to the saved set, when the set with the
  event does not satisfy the condition; all other writes take away, and the
  condition is monotone.
- `AckedNeverLost` (`AckedEventsSettled`).  The server marks a message done when
  an AckSync reaches it, so the argument has to follow the message there:
  `DeliveryInv` says that on a live connection what is in `acking` and in the
  cache is dealt with for all dependencies (`CacheInv`), what is in processMsg is
  dealt with up to the current one (`LoopInv`), and that nothing is under way
  without a subscription (`QuietInv`).  It must say nothing of a dead connection,
  where K/V requests fail without a trace and the message still enters the cache:
  what saves the event is that the cache and the acknowledgements die with the
  connection.  A cache that outlived it would break the proof at `Subscribe`.

Then, from the same assumptions:

- `Refinement` (`ImplementsTriggerConnection`).  A step of `saveDependency` maps to
  `Hold` of TriggerConnection, one of `triggerSingle` or `triggerAll` to `Fire`, a deletion
  for a reset to `Forget`, a fault to `Lapse`, and the others to a stutter.  Without a fault
  `Take` wants events in order, each once, and that is
  where the work is: `OrderInv` (a durable consumer delivers in order), `KeptInv` (what was
  delivered is remembered, under way, or with its pullSubscribe) and `SequenceInv` (what
  is under way comes after all that is remembered) together say that a message that passes
  the cache is new.
- `AtMostOnce` (`AtMostOncePerConnection`), from the refinement: `OnceInv` is stated about
  the abstract state - what an action used was taken and is no longer held.
- `ResetForgets` (`ResetForgetsSaved`).  `ResetInv` says who will carry out the reset of an
  entry that is older than the last tick: a waiting cron goroutine, the reset under way, or
  the next Subscribe, whose `lastResetTime` is late enough.

`SensorListenerProofs`, from `ListenerAssumption` (types of the constants):

- `TypeCorrect` (`TypeOK`), `OneProcessorAlways` (`OneProcessor`) and `ShutdownClean`
  (`ShutdownLeavesNothing`) have one inductive invariant.  `Ordered`: of all subscribe
  goroutines only the last may still run, and runs while `subLock` is held.  `Nested`: a
  processMsgs goroutine lives within the Subscribe call that started it.  `Connected` and
  `Counted` bound the number of Subscribe calls by connections and errors, so that the
  bounds of the model exclude none.

`JetStreamSpecStateProofs`, from `SpecStateAssumption` (the types of the constants), for triggers
with explicit conditions (`ExplicitConditions`; without it `NoStaleEvents` is false, see below):

- `NothingStale` (`NoStaleEvents`) and `NothingOrphaned` (`NoOrphanConsumers`) have one
  inductive invariant, over every request of setStateToSpec at which a pod may die and over
  any number of successors with other specifications.  `SavedInv`: an event is in the bucket
  only with the definition and the expression stored under which it was saved, so that the
  next pod can see whether they have changed.  `PurgedInv`: once the purge has passed a pair,
  what is left there fits the specification of this pod.  `ConsumerInv` says both of the
  durable consumers.  `StoreInv` says how far saveSpec has got; a pod that dies inside it
  leaves old expressions beside new definitions, which is harmless because all
  that is still saved then fits both.

`StanTriggerProofs`, from `StanAssumption` (conditions as for JetStreamTrigger):

- `HeldNeverComplete` (`HeldIncomplete`).  While an action runs the holder does hold a
  complete set, so the invariant is about what will be left of it: `Kept`, which is
  without the dependency of the message that fired, since `fired` clears only that.
  `KeptShrinks`: every step but `hold` only takes from it, and the condition is monotone.
- `NeverCompletesTwice` (`CompletesOnce`).  Not by the cache, which forgets, but by times:
  `CompletedPassed` says that a message that fired is not after the last reset, nor after
  the message under evaluation.  The second part is needed because a reset of the other
  goroutine may fall between the two steps of the callback, and `fire` then moves the
  reset time *back* to its message.  Both rest on `TypeInv`: what is evaluated was
  published, so no reset time lies in the future.

`TriggerExecutionProofs`, from `TriggersAssumption` (dead-letter triggers need
atLeastOnce, as validateDlqTrigger says):

- `CountedAlways` (`CountedOnce`), with `Control`: the message under way is one, and a
  goroutine in the background has another one, so that starting it adds to their number.
- `ExecutedBeforeAck` (`AckedMeansExecuted`), with `Progress`: how many executions of the
  trigger and of its dead-letter trigger failed at each place of actionFunc.

`EventSourceProofs`, from `CalendarAssumption` and `AdaptorAssumption`, about CalendarSource:

- `TypeCorrect` (`TypeOK`): `next` is a CHOOSE of the least schedule, so its existence
  needs that a set of numbers has a least element (`LeastElement`, from the library's
  well-founded induction).
- `NoScheduleSkipped` (`NoneSkipped`).  `SkipInv`: everything up to `lastT`, and up to what
  is persisted, was published, and there is no schedule between `lastT` and what is being
  sent.  The first holds across a crash because the config map is written after the bus.
- `NoEventRepeated` (`PublishedOnce`).  `OnceInv`: nothing after `lastT` was published but
  what is about to be persisted, and a publication that reports an error stored nothing.

The other two specifications are instantiated in the same module with variables of their own.
About WebhookRoutes, for every number of listeners, endpoints and requests:

- `RequestsAnsweredTruthfully` (`AnsweredTruthfully`).  `BusInv` says of every request that
  until its worker answers nothing of it is in the bus, and that HandleRoute refuses before
  anything is sent, and nothing ever of a request whose event the filter drops; only the
  worker's answers can disturb it.

About MessageSources, for every choice of sources among those of the repository
(`Kinds \subseteq Sources`) and every number of messages and faults:

- `NothingLost` (`RemovedMeansPublished`).  `LossInv`: what has arrived at a reliable source is
  unread, pending, published, dead, dropped (not to be marshalled, or filtered) or skipped, only
  what is published or dropped waits in the list of acknowledgements of a Redis stream, and
  nothing is skipped where the broker always keeps messages.
- `OrderKept` (`PublishedInOrder`).  `LogInv`, of the consumer group only: what was read in this
  session and left the batch is published or dropped, and what is in the batch comes before
  all that is unread and after the mark.  That is why committing the mark skips nothing, and
  why the first message of the batch is the next one of the log.  A session that starts at
  the end of the log, because nothing was ever committed, moves the rest to `skipped`.

`ReconcilersProofs`, from `ConstantsAssumption`; all four theorems (`TypeCorrect`,
`CredentialsAgree` for `CredentialsMatch`, `DeletedOnlyUnused` for `DeletedWhenUnused`,
`NothingForgotten` for `QuietMeansDone`) follow from `ControllerInv`:

- `TodoInv`: the calls of a reconcile come in their order, so that the one about to be made
  says which were.  `CredentialsInv`: while the server's Secret is about to be written there
  is no other, and afterwards the client's gets the same token.
- `AgeInv`: of the object, its cached copy and the reconcile's copy each is no newer than
  the one before; in particular no reconcile installs a bus that the server is deleting
  without its cache coming to know.  `UninstallInv`: once Uninstall has looked, a user is one
  that its lists did not show (`raced`), and the claims left are ones they did not show
  (`overlooked`).
- `ObjectsInv`, `InstallInv`, `QuietInv`: whatever Install has behind it is as specified or
  has an event of a watch on its way, which will queue another reconcile.  This is why a stale
  cache, a lost answer or a conflict cannot leave work undone.

`KafkaSensorProofs`, from `KafkaAssumption` (there are pods and partitions, triggers and
dependencies are finitely many, keys go to trigger partitions):

- `TypeCorrect` (`TypeOK`) includes the order of offsets: what is marked or committed was
  consumed, and a mark ahead of the committed offset is still to be sent.  That needs
  `ContentInv` (what lies on a partition) and `OffsetInv`: the offset of a batch with
  messages and of all that is held is not before the mark, nothing is held or collected
  before the first message is marked.  `LowestOffset` is the lemma about
  KafkaTriggerConnection.Offset it rests on.
- `ActionsAtMostOnce` (`ActionAtMostOnce`).  `CollectInv`, `RunningInv`, `RanInv`: a call
  is collected at an offset that is neither committed nor marked; it runs only once `Released`,
  that is, below the committed offset or listed in `unsure`, where CommitOffset puts the
  offsets of the functions that it starts after a failed commit; and what ran does not wait
  anywhere else, unless it is listed there.  On the action topic no transaction moves the
  offset, so a late commit moves it forward only.  Calls are made for the message at their
  offset (`Genuine`), so that two at the same offset agree about AtLeastOnce.
- `ActionsAtLeastOnce` (`ActionAtLeastOnce`).  `PassedInv`: all that the handler has passed
  has run.  A rebalance takes the position back, to the committed offset or to the oldest
  message, never forward.
- `EventsEvaluatedOnce` (`EvaluatedOnce`), when all messages of a trigger go to one partition
  (`OnePartition`, which a hash of the key gives; with several the property is false, see
  below).  `Marks` and `Stored` are the offsets and checkpoints that are committed or that
  a late commit may still put there; the argument is about all of them.  `TopicInv`: an
  event in a batch is at or after every one of its partition's marks.  `CheckInv`: the
  checkpoint in memory is ahead of everything stored.  `HoldInv`: what a pod holds lies at or
  after the checkpoint of its trigger.  `UseInv`: what the messages of the action topic use
  lies before the committed checkpoint, what those of a batch use between everything stored
  and the one in memory.  The ranges are disjoint, and a transaction moves the checkpoint and
  the message together.  `UseInv` is kept as long as offsets and checkpoints move forward
  (`Forward`), which they do while `rolledBack` is false; the first commit that puts one
  back ends it, and the theorem says nothing after that.
- `PendingEventsKept` (`PendingKept`), under the same condition on partitions, late commits
  included.  `KeptInv` follows each message of the trigger topic: what is below any of `Marks`
  or `Stored` is used or superseded; what the handler has passed is that, or in the batch, or
  held by the pod that has claimed the partition.  `CoverInv` and `FirstInv` say that no
  checkpoint is ahead of the log and that a group that begins with the oldest message marks
  nothing before it has handled it.

Every invariant and every action property that a run checks is stated by a theorem.
Only model-checked is liveness under fairness, which is beyond the prover:
`EventuallyAcked`, `LiveUnlessStuck`, `StopsUnlessStuck`, `EverythingDelivered`,
`EveryMessageAcked`, `EventuallyPublished`, `StopsUnlessBusDown`, `EventuallyAnswered`,
`AllRoutesStop`, `BusSettles`, `UserSettles`.

## Findings and known limits

`listener_shutdown` shows the code doing something else than its comment says:
`shutdownSubscriptions` stops processMsgs first; a pullSubscribe that has a message
then blocks for good, and the shutdown on it.

The other properties hold, some of them under a condition that names a limit of the
code.  Where a document promises more, its line is given.

- *JetStream.*  `AckedEventsSettled` leaves out messages whose K/V get or put failed:
  they are acknowledged all the same (`trigger_conn.go:359`, 406;
  `docs/sensors/more-about-sensors-and-triggers.md:67` promises at-least-once).
  `AtMostOncePerConnection` and the unconditional part of `ImplementsTriggerConnection`
  hold as long as the connection lives and the cache is not purged.  Every reconnection
  starts with an empty cache, so a message whose acknowledgement was lost with the
  connection fires again; the cache covers one minute (`trigger_conn.go:541`), where
  line 66 of the same document says five.  `ResetForgetsSaved` leaves out a reset one
  of whose deletions failed: the error is dropped, and on a dropped connection the
  reset is consumed without effect.
- *Listener.*  `LiveUnlessStuck` and `StopsUnlessStuck` leave out, besides the hanging
  shutdown, a daemon that sends on `closeSubCh` after Subscribe has returned
  (`listener.go:339`).
- *Sensor state.*  `NoStaleEvents` leaves out failed purges, which setStateToSpec
  ignores; its run has triggers with explicit conditions, because a removed trigger
  without conditions does leave its events behind (`sensor_jetstream.go:376`).
- *Kafka.*  `PendingKept` and `ActionAtLeastOnce` are about `consumerGroup.oldest`: with
  the default, newest, a partition without a committed offset is read from its end
  after a rebalance.  `PendingKept` also leaves out a BeginTxn that failed.  A
  `session.Commit` that fails is not noticed (`kafka_transaction.go:26`), and the functions
  of the batch are started all the same: `ActionAtMostOnce` leaves out the actions
  started that way, which a restart repeats.  The mark that such a commit leaves is sent
  again with the next commit of the pod; if a transaction has moved the partition on
  meanwhile, it puts its offset and checkpoints back, and a restart then evaluates the
  trigger again with events it has used.  `EvaluatedOnce` leaves out behaviours after such a
  commit (`rolledBack`), where the comment at `kafka_handler.go:192` says that the checkpoint
  ensures that a trigger is not re-invoked after a restart.
  `EvaluatedOnce` and `PendingKept` are about the hash partitioner: with the default
  random one a trigger's events lie on several partitions, whose offsets are committed by
  transactions of their own, so that a restart evaluates some events again and
  skips others.  The action of a conjunction is given one event only
  (`trigger_handler.go:120`; line 16 of the document says all).
- *STAN.*  Only the dependency of the last message is cleared after an action
  (`trigger_conn.go:285`), the others when they come again: an event can be given to
  the actions of two rounds, where the comment at line 323 speaks of exactly once.
  `CompletesOnce` is about one life of the holder.
- *Execution.*  Without atLeastOnce the retry strategy is not applied (line 75 of the
  document does not say so).
- *Adaptor and calendar.*  A publish that finds `eventBusConn` nil panics, and
  Kubernetes restarts the pod.  `PublishedOnce` leaves out a crash or a cancellation
  between publish and save (the save uses the cancelled context), a failed save, and a
  dispatch that reported an error for an event the bus has.  `StopsUnlessBusDown`: the
  calendar's retry loop does not look at the context while the bus is down.
- *Webhooks.*  `EventuallyAnswered` is about behaviours without a failed PostActivate:
  after one, the endpoint keeps the handler of the old route, which is still active and
  which nobody serves.  A request whose event the filter drops, or fails on, is answered with
  success (`eventing.go:550`): `AnsweredTruthfully` says so.
- *Message sources.*  `RemovedMeansPublished` is about sources that settle after
  dispatch: MNS and Pulsar also settle when it failed.  Messages of a Redis stream or
  of AMQP whose dispatch failed stay with the broker until the next connection, and those
  of AMQP's default queue, which is exclusive (`amqp/start.go:215`), end with it: the
  reliable AMQP queues have a name, are not exclusive and are read without AutoAck.  A Kafka
  consumer group without `oldest` (the default) that has committed nothing yet resumes at the end of the log after
  an error of the bus or a crash (`kafka/start.go:384`): the messages left there are
  `skipped`, which all three properties except.  What the filter drops or fails on is
  settled like what was published.
- *Reconcilers.*  `DeletedWhenUnused` leaves out users and claims that are not yet in the cache
  through which Uninstall lists them (`installer.go:100`, `jetstream.go:754`), and users
  created after the look: the bus goes from under them.  `CredentialsMatch` leaves out a NATS bus one of whose Secrets somebody
  deleted: an update that then fails half way leaves two that differ, and both being
  there is all that is looked for.  The status update after a finalizer was added is
  always refused, and repeated.  The EventSource and Sensor controllers do not watch the
  EventBus, so an exotic bus that is edited reaches its users with their next reconcile
  only; an update of a ConfigMap queues nothing, as the predicate compares generations.

## Not modelled

Payloads, transformations and parameters (a dependency lets an event pass or
not), logging and metrics other than the counters of TriggerExecution.  JetStream's
own limits: streams that discard messages and MaxDeliver.  K/V requests that take
effect although their answer is lost.  The rate limiter, which only delays.  In
KafkaSensor: conditions resets, the timing of batches, zombie members that commit
after a rebalance, and the data race between trigger-topic partitions of one pod
on `c.events`.  In Reconcilers: NATS without authentication, the finalizer of the
EventSource, the contents of the objects.  In MessageSources: connection set-up,
decoding, the polling mode of the file source, the removal of a Pub/Sub subscription when
its source ends, rebalances of a Kafka source's group other than by a crash or an error.
In CalendarSource: the event filter.  In KafkaSensor two calls of a pod for the same message
that wait at the same time are one.

Out of reach or without state of their own: filters, expressions and scripts over JSON;
cron arithmetic over an external parser; comparison of directory listings (file
watcher); polling and informer sources (SFTP, Gerrit, Kubernetes resources), which
settle nothing; sources that register with an external service around the routes of
WebhookRoutes; the trigger implementations, which call external services and of which
TriggerExecution takes success and failure as given; drivers, API types, clients and
generated code, which are nine tenths of the repository's lines.  The components are
listed in `PROJECT.json` with the reason.

## Plan

Done: the sensor's side with its abstract specification, the event sources' side, the
controllers; theorems for all invariants of the runs.  Left, in this order:

1. KafkaSensor: conditions resets, zombie members, concurrent Update.
2. Pure algorithms against reference definitions, in one module and run: filters
   combined with and/or and errors, PrevCronTime, the comparison of directory contents.
