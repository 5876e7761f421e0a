--------------------------- MODULE CalendarSource ---------------------------
(***************************************************************************)
(* A calendar event source with persistence and catch-up                   *)
(* (pkg/eventsources/sources/calendar/start.go,                            *)
(* pkg/eventsources/persist/event_persist.go) as the service of the event  *)
(* source adaptor.  Times are numbers; the schedule comes due at every     *)
(* number that is not excluded.                                            *)
(***************************************************************************)
EXTENDS EventSourceAdaptor

CONSTANTS
    MaxTime,      \* bound: the clock stops here
    Excluded,     \* exclusionDates
    Configs       \* persistence of the event source: see ConfigType

\* Without persistence the rest is ignored; maxDuration limits the catch-up, 0
\* for no limit.
ConfigType == [persistence : BOOLEAN, catchup : BOOLEAN, maxDuration : Nat]

ASSUME CalendarAssumption == /\ MaxTime \in Nat /\ Excluded \subseteq Nat
                             /\ Configs \subseteq ConfigType

Times == 0 .. MaxTime

VARIABLES
    config,
    now,         \* the clock
    svc,         \* where StartListening is
    lastT,       \* its variable lastT
    sending,     \* the schedule an event is being sent for
    persisted,   \* time of the event in the config map, -1 for none
    \* History
    since,       \* schedules up to here are nobody's duty
    published    \* published[t]: events in the bus for schedule t

service == <<svc, lastT, sending>>
history == <<since, published>>
vars == <<alive, ctxDone, conn, daemon, dispatch, tries, stored, budget, happened,
          config, now, svc, lastT, sending, persisted, since, published>>

\* Types, and that no event is sent or persisted ahead of the clock.
TypeOK ==
    /\ AdaptorTypeOK
    /\ config \in Configs /\ now \in Times
    /\ svc \in {"none", "start", "loop", "wait", "send", "save", "ended"}
    /\ lastT \in 0 .. now /\ sending \in 0 .. now /\ persisted \in -1 .. now
    /\ since \in 0 .. now /\ published \in [Times -> Nat]

Init ==
    /\ AdaptorInit
    /\ config \in Configs
    /\ now = 0 /\ svc = "none" /\ lastT = 0 /\ sending = 0 /\ persisted = -1
    /\ since = 0 /\ published = [t \in Times |-> 0]

\* schedule.Next, skipping excluded dates.
Scheduled(t) == t > 0 /\ t \notin Excluded
next(last) == CHOOSE t \in last + 1 .. MaxTime + 2 :
                 /\ Scheduled(t) \/ t = MaxTime + 2
                 /\ \A u \in last + 1 .. t - 1 : ~Scheduled(u)

\* The timer that StartListening waits for has expired.
TimerDue == svc = "wait" /\ next(lastT) <= now

\* A pending timer is taken before the schedule after it comes due, unless the
\* process stands still for so long.
Tick ==
    /\ now < MaxTime
    /\ \/ ~TimerDue /\ UNCHANGED faults
       \/ TimerDue /\ Fault("late")
    /\ now' = now + 1
    /\ UNCHANGED <<process, conn, dispatching, config, service, persisted, history>>
-----------------------------------------------------------------------------
(* The process *)

\* An event that dispatch leaves behind in the bus is counted.
Publish == published' = [published EXCEPT ![sending] = @ + IF stored THEN 1 ELSE 0]

Forgotten == svc' = "none" /\ lastT' = 0 /\ sending' = 0

Crash ==
    /\ alive /\ Fault("crash")
    /\ Die /\ Forgotten /\ Publish
    /\ UNCHANGED <<config, now, persisted, since>>

StartPod ==
    /\ Connected
    /\ svc' = "start"
    /\ UNCHANGED <<config, now, lastT, sending, persisted, history>>

\* The only service has ended: run cancels its context.
RunCancels ==
    /\ alive /\ svc = "ended" /\ ~ctxDone
    /\ ctxDone' = TRUE
    /\ UNCHANGED <<alive, daemon, conn, dispatching, faults, config, now, service, persisted,
                   history>>

\* Services and daemon have ended: run returns, and with it the process.
RunReturns ==
    /\ alive /\ svc = "ended" /\ ctxDone /\ ~daemon
    /\ Die /\ Forgotten
    /\ UNCHANGED <<faults, config, now, persisted, history>>

Panic ==
    /\ publishPanics
    /\ Forgotten /\ Publish
    /\ UNCHANGED <<config, now, persisted, since>>

\* Steps of the adaptor that the service does not see.
Adaptor ==
    /\ Cancel \/ Drop \/ Daemon \/ Publishing
    /\ UNCHANGED <<config, now, service, persisted, history>>
-----------------------------------------------------------------------------
(* StartListening *)

catchesUp == config.persistence /\ config.catchup

\* Mutant: the catch-up includes the schedule of the persisted event.
repeatLast == IF catchesUp /\ persisted >= 1 THEN persisted - 1 ELSE now

\* The time of the last persisted event, but no longer ago than maxDuration.
getExecutionTime ==
    LET last == IF catchesUp /\ persisted >= 0 THEN persisted ELSE now
    IN  IF catchesUp /\ config.maxDuration > 0 /\ config.maxDuration < now - last
          THEN now - config.maxDuration ELSE last

\* Schedules up to here may stay without an event: those before the first event
\* was persisted, and those that maxDuration gives up.
GivenUp ==
    IF ~catchesUp \/ persisted = -1 THEN now
    ELSE IF config.maxDuration > 0 /\ persisted < now - config.maxDuration
           THEN now - config.maxDuration
           ELSE since

StartListening ==
    /\ svc = "start"
    /\ lastT' = getExecutionTime
    /\ svc' = "loop"
    /\ since' = GivenUp
    /\ UNCHANGED <<process, conn, dispatching, faults, config, now, sending, persisted,
                   published>>

\* The config map cannot be read; run tries again until its attempts, ten in the
\* code, are used up.
StartListeningFails ==
    /\ svc = "start" /\ config.persistence
    /\ Fault("get")
    /\ svc' \in {"start", "ended"}
    /\ UNCHANGED <<process, conn, dispatching, config, now, lastT, sending, persisted,
                   history>>

\* sendEventFunc calls dispatch.
send(t) ==
    /\ svc' = "send" /\ sending' = t
    /\ dispatch' = "check"
    /\ UNCHANGED <<process, conn, tries, stored, faults, config, now, lastT, persisted,
                   history>>

catchUp == /\ svc = "loop" /\ next(lastT) < now
           /\ send(next(lastT))

wait == /\ svc = "loop" /\ next(lastT) >= now
        /\ svc' = "wait"
        /\ UNCHANGED <<process, conn, dispatching, faults, config, now, lastT, sending,
                       persisted, history>>

\* The event carries the time at which the timer expired.
timer == /\ TimerDue
         /\ send(now)

exit ==
    /\ svc = "wait" /\ ctxDone
    /\ svc' = "ended"
    /\ UNCHANGED <<process, conn, dispatching, faults, config, now, lastT, sending, persisted,
                   history>>

Returned == dispatch' = "idle" /\ tries' = 0 /\ stored' = FALSE

\* Mutant: a failed dispatch is treated like a successful one.
skipFailed ==
    /\ svc = "send" /\ dispatch = "error"
    /\ Publish
    /\ svc' = "loop" /\ lastT' = sending
    /\ Returned
    /\ UNCHANGED <<process, conn, faults, config, now, sending, persisted, since>>

\* dispatch returned an error.  With persistence the same schedule is tried again.
dispatchFailed ==
    /\ svc = "send" /\ dispatch = "error"
    /\ Publish
    /\ svc' = "loop"
    /\ lastT' = IF config.persistence THEN lastT ELSE sending
    /\ Returned
    /\ UNCHANGED <<process, conn, faults, config, now, sending, persisted, since>>

dispatched ==
    /\ svc = "send" /\ dispatch = "ok"
    /\ Publish
    /\ IF config.persistence THEN svc' = "save" /\ UNCHANGED lastT
                             ELSE svc' = "loop" /\ lastT' = sending
    /\ Returned
    /\ UNCHANGED <<process, conn, faults, config, now, sending, persisted, since>>

\* eventPersistence.Save, whose failure is only logged.  The config map is updated
\* with the context of the service, so that nothing is saved once it is cancelled.
Save ==
    /\ svc = "save"
    /\ svc' = "loop" /\ lastT' = sending
    /\ \/ ~ctxDone /\ persisted' = sending /\ UNCHANGED faults
       \/ ctxDone /\ UNCHANGED <<persisted, faults>>
       \/ Fault("save") /\ UNCHANGED persisted
    /\ UNCHANGED <<process, conn, dispatching, config, now, sending, history>>

Service == \/ StartListening \/ StartListeningFails \/ catchUp \/ wait \/ timer \/ exit
           \/ dispatchFailed \/ dispatched \/ Save

Next == Tick \/ Crash \/ StartPod \/ RunCancels \/ RunReturns \/ Panic \/ Adaptor \/ Service

Spec == Init /\ [][Next]_vars
Fairness ==
    /\ WF_vars(StartPod) /\ WF_vars(RunCancels) /\ WF_vars(RunReturns)
    /\ WF_vars(Reconnect /\ UNCHANGED <<config, now, service, persisted, history>>)
    /\ WF_vars(DaemonStops /\ UNCHANGED <<config, now, service, persisted, history>>)
    /\ WF_vars(Publishing /\ UNCHANGED <<config, now, service, persisted, history>>)
    /\ WF_vars(Panic) /\ WF_vars(Service)

FairSpec == Spec /\ Fairness
-----------------------------------------------------------------------------
\* With persistence no schedule is skipped: when StartListening has got to lastT,
\* every schedule it was responsible for has an event in the bus, whatever
\* crashed, was cancelled or failed in between.  A process that stands still while
\* several schedules come due is the exception: its timer tells the current time,
\* and lastT jumps there.
NoneSkipped ==
    config.persistence /\ "late" \notin happened =>
        \A t \in since + 1 .. lastT : Scheduled(t) => published[t] > 0

\* A schedule is published twice only when an event in the bus was not persisted:
\* Publish reported an error for it, Save failed, or the process crashed or was
\* cancelled between the two.  Reconnections and panics of the publisher do not
\* repeat an event.
PublishedOnce ==
    happened \cap {"publish", "save", "crash", "cancel"} = {} =>
        \A t \in Times : published[t] <= 1

\* With persistence every schedule is published in the end, through reconnections,
\* crashes and restarts, unless the context is cancelled while the bus is away: the
\* loop retries without looking at the context, and the daemon that would reconnect
\* has stopped.
EventuallyPublished ==
    \A t \in Times :
        config.persistence /\ Scheduled(t) /\ since < t /\ t <= now ~>
            \/ published[t] > 0 \/ t <= since \/ "late" \in happened
            \/ ctxDone /\ conn # "open"

\* A cancelled event source stops while its connection to the bus is up.
StopsUnlessBusDown == ctxDone ~> ~alive \/ conn # "open"
=============================================================================
