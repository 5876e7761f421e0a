---------------------------- MODULE WebhookRoutes ----------------------------
(***************************************************************************)
(* The HTTP event sources' routes                                          *)
(* (pkg/eventsources/common/webhook/webhook.go): ManageRoute of every      *)
(* listener, the goroutine manageRouteChannels of every route, the         *)
(* controller's goroutine ProcessRouteStatus and the handlers of the       *)
(* requests, which meet on unbuffered channels.                            *)
(*                                                                         *)
(* StartListening of a listener makes a new Route every time the adaptor   *)
(* retries it; the handler of an endpoint is registered only once.         *)
(***************************************************************************)
EXTENDS Integers

CONSTANTS
    Listeners,
    Endpoints,           \* functions from listeners to a port and path
    Requests,
    Filters,             \* sets of requests whose event the source's filter drops
    MaxAttempts,         \* Steps of the adaptor's backoff for StartListening
    MaxPostFailures,     \* bound: failures of PostActivate
    MaxPublishFailures   \* bound: failures of dispatch

ASSUME WebhookAssumption ==
    /\ \A f \in Endpoints : DOMAIN f = Listeners
    /\ MaxAttempts \in Nat \ {0}
    /\ MaxPostFailures \in Nat /\ MaxPublishFailures \in Nat

Routes == Listeners \X (1 .. MaxAttempts)
None == <<>>

VARIABLES
    endpoint,    \* endpoint[l]: route.Context
    filtered,    \* requests that do not pass the filter, or on which it fails
    pc,          \* pc[l]: where ManageRoute is
    attempt,     \* attempt[l]: the route of l is <<l, attempt[l]>>
    controller,  \* what ProcessRouteStatus does, and for which route
    bound,       \* bound[e]: the route whose handler the server calls at e
    active,      \* routes with Active set
    worker,      \* worker[r]: manageRouteChannels: "none", "idle", "busy" or "gone"
    request,     \* request[q]: what its handler does, and for which route
    ctxDone,
    published,   \* requests whose event is in the bus
    postFailures, publishFailures

spec == <<endpoint, filtered>>
routes == <<pc, attempt, controller, bound, active>>
vars == <<spec, routes, worker, request, ctxDone, published, postFailures, publishFailures>>

RouteOf(l) == <<l, attempt[l]>>
EndpointOf(r) == endpoint[r[1]]
Idle == [does |-> "nothing", route |-> None]
Answered == {"ok", "error", "inactive", "reset"}

TypeOK ==
    /\ endpoint \in Endpoints /\ filtered \in Filters
    /\ pc \in [Listeners -> {"start", "activate", "starting", "started", "post", "running",
                             "stop", "failed", "ended"}]
    /\ attempt \in [Listeners -> 0 .. MaxAttempts]
    /\ controller \in [does : {"nothing", "startServer", "startCh", "deactivate"},
                       route : Routes \cup {None}]
    /\ \A l \in Listeners : bound[endpoint[l]] \in Routes \cup {None}
    /\ active \subseteq Routes
    /\ worker \in [Routes -> {"none", "idle", "busy", "gone"}]
    /\ request \in [Requests -> [does : {"new", "send", "wait"} \cup Answered,
                                 route : Routes \cup {None}]]
    /\ ctxDone \in BOOLEAN /\ published \subseteq Requests
    /\ postFailures \in 0 .. MaxPostFailures /\ publishFailures \in 0 .. MaxPublishFailures
    \* A worker is busy with one request.
    /\ \A q1, q2 \in Requests :
           request[q1].does = "wait" /\ request[q1] = request[q2] => q1 = q2

Init ==
    /\ endpoint \in Endpoints /\ filtered \in Filters
    /\ pc = [l \in Listeners |-> "start"] /\ attempt = [l \in Listeners |-> 0]
    /\ controller = Idle
    /\ bound = [e \in {endpoint[l] : l \in Listeners} |-> None]
    /\ active = {} /\ worker = [r \in Routes |-> "none"]
    /\ request = [q \in Requests |-> [does |-> "new", route |-> None]]
    /\ ctxDone = FALSE /\ published = {}
    /\ postFailures = 0 /\ publishFailures = 0

Cancel ==
    /\ ~ctxDone /\ ctxDone' = TRUE
    /\ UNCHANGED <<spec, routes, worker, request, published, postFailures, publishFailures>>
-----------------------------------------------------------------------------
(* ManageRoute *)

Goto(l, label) == pc' = [pc EXCEPT ![l] = label]

\* StartListening makes the Route; ManageRoute starts its goroutine.
manageRoute(l) ==
    /\ pc[l] = "start" /\ Goto(l, "activate")
    /\ attempt' = [attempt EXCEPT ![l] = @ + 1]
    /\ worker' = [worker EXCEPT ![<<l, attempt[l] + 1>>] = "idle"]
    /\ UNCHANGED <<spec, controller, bound, active, request, ctxDone, published,
                   postFailures, publishFailures>>

\* RouteActivateChan <- router
activateRoute(l) ==
    /\ pc[l] = "activate" /\ Goto(l, "starting")
    /\ controller = Idle /\ controller' = [does |-> "startServer", route |-> RouteOf(l)]
    /\ UNCHANGED <<spec, attempt, bound, active, worker, request, ctxDone, published,
                   postFailures, publishFailures>>

routeStarted(l) ==
    /\ pc[l] = "started" /\ Goto(l, "post")
    /\ active' = active \cup {RouteOf(l)}
    /\ UNCHANGED <<spec, attempt, controller, bound, worker, request, ctxDone, published,
                   postFailures, publishFailures>>

PostActivate(l) ==
    /\ pc[l] = "post" /\ Goto(l, "running")
    /\ UNCHANGED <<spec, attempt, controller, bound, active, worker, request, ctxDone,
                   published, postFailures, publishFailures>>

\* ManageRoute returns the error; the route stays active.
PostActivateFails(l) ==
    /\ pc[l] = "post" /\ postFailures < MaxPostFailures
    /\ Goto(l, "failed")
    /\ postFailures' = postFailures + 1
    /\ UNCHANGED <<spec, attempt, controller, bound, active, worker, request, ctxDone,
                   published, publishFailures>>

\* RouteDeactivateChan <- router, then PostInactivate, whose failure is logged.
deactivateRoute(l) ==
    /\ pc[l] = "running" /\ ctxDone /\ Goto(l, "stop")
    /\ controller = Idle /\ controller' = [does |-> "deactivate", route |-> RouteOf(l)]
    /\ UNCHANGED <<spec, attempt, bound, active, worker, request, ctxDone, published,
                   postFailures, publishFailures>>

\* The deferred StopChan <-, which manageRouteChannels takes between two requests.
stopRoute(l) ==
    /\ pc[l] \in {"stop", "failed"} /\ worker[RouteOf(l)] = "idle"
    /\ worker' = [worker EXCEPT ![RouteOf(l)] = "gone"]
    /\ Goto(l, IF pc[l] = "failed" /\ attempt[l] < MaxAttempts THEN "start" ELSE "ended")
    /\ UNCHANGED <<spec, attempt, controller, bound, active, request, ctxDone, published,
                   postFailures, publishFailures>>
-----------------------------------------------------------------------------
(* ProcessRouteStatus *)

\* Registers the handler, unless the endpoint has one.
startServer ==
    /\ controller.does = "startServer"
    /\ bound' = [bound EXCEPT ![EndpointOf(controller.route)] =
                    IF @ = None THEN controller.route ELSE @]
    /\ controller' = [controller EXCEPT !.does = "startCh"]
    /\ UNCHANGED <<spec, pc, attempt, active, worker, request, ctxDone, published,
                   postFailures, publishFailures>>

\* StartCh, on which activateRoute waits.
startRoute(l) ==
    /\ controller = [does |-> "startCh", route |-> RouteOf(l)]
    /\ pc[l] = "starting" /\ Goto(l, "started")
    /\ controller' = Idle
    /\ UNCHANGED <<spec, attempt, bound, active, worker, request, ctxDone, published,
                   postFailures, publishFailures>>

\* Mutant: the controller answers on a channel that nobody reads any more.
blockController ==
    /\ controller.does = "deactivate"
    /\ active' = active \ {controller.route}
    /\ UNCHANGED <<spec, pc, attempt, controller, bound, worker, request, ctxDone, published,
                   postFailures, publishFailures>>

deactivate ==
    /\ controller.does = "deactivate"
    /\ active' = active \ {controller.route}
    /\ controller' = Idle
    /\ UNCHANGED <<spec, pc, attempt, bound, worker, request, ctxDone, published,
                   postFailures, publishFailures>>
-----------------------------------------------------------------------------
(* The requests *)

\* HandleRoute of the bound route refuses the request or goes on to DispatchEvent.
HandleRoute(q, l) ==
    LET r == bound[endpoint[l]]
    IN  /\ request[q].does = "new" /\ r # None
        /\ \E m \in Listeners : pc[m] # "ended"
        /\ request' = [request EXCEPT ![q] =
              [does |-> IF r \in active THEN "send" ELSE "inactive", route |-> r]]
        /\ UNCHANGED <<spec, routes, worker, ctxDone, published, postFailures,
                       publishFailures>>

\* DispatchChan, on which manageRouteChannels waits when it is not busy.
DispatchEvent(q) ==
    /\ request[q].does = "send" /\ worker[request[q].route] = "idle"
    /\ request' = [request EXCEPT ![q].does = "wait"]
    /\ worker' = [worker EXCEPT ![request[q].route] = "busy"]
    /\ UNCHANGED <<spec, routes, ctxDone, published, postFailures, publishFailures>>

Answer(q, a) ==
    /\ request[q].does = "wait"
    /\ request' = [request EXCEPT ![q].does = a]
    /\ worker' = [worker EXCEPT ![request[q].route] = "idle"]
    /\ UNCHANGED <<spec, routes, ctxDone, postFailures>>

dispatchOk(q) ==
    /\ Answer(q, "ok")
    /\ q \notin filtered /\ published' = published \cup {q}
    /\ UNCHANGED publishFailures

\* The filter drops the event, or fails, and dispatch returns no error.
dispatchDropped(q) ==
    /\ Answer(q, "ok")
    /\ q \in filtered
    /\ UNCHANGED <<published, publishFailures>>

\* Mutant: the error of dispatch is ignored.
dispatchErrorIgnored(q) ==
    /\ Answer(q, "ok")
    /\ q \notin filtered /\ published' \in {published, published \cup {q}}
    /\ publishFailures < MaxPublishFailures /\ publishFailures' = publishFailures + 1

\* Mutant: the loop goes on to the second send on SuccessChan.
dispatchErrorTwice(q) ==
    /\ request[q].does = "wait"
    /\ q \notin filtered /\ published' \in {published, published \cup {q}}
    /\ publishFailures < MaxPublishFailures /\ publishFailures' = publishFailures + 1
    /\ request' = [request EXCEPT ![q].does = "error"]
    /\ UNCHANGED <<spec, routes, worker, ctxDone, postFailures>>

\* An error after which the event may be in the bus nevertheless.
dispatchError(q) ==
    /\ Answer(q, "error")
    /\ q \notin filtered /\ published' \in {published, published \cup {q}}
    /\ publishFailures < MaxPublishFailures /\ publishFailures' = publishFailures + 1

\* All services have ended, and the process with them.
ProcessEnds ==
    /\ \A l \in Listeners : pc[l] = "ended"
    /\ \E q \in Requests : request[q].does \in {"send", "wait"}
    /\ request' = [q \in Requests |-> IF request[q].does \in {"send", "wait"}
                                        THEN [request[q] EXCEPT !.does = "reset"]
                                        ELSE request[q]]
    /\ UNCHANGED <<spec, routes, worker, ctxDone, published, postFailures, publishFailures>>

ManageRoute(l) ==
    \/ manageRoute(l) \/ activateRoute(l) \/ routeStarted(l) \/ PostActivate(l)
    \/ PostActivateFails(l) \/ deactivateRoute(l) \/ stopRoute(l)

ProcessRouteStatus == startServer \/ deactivate \/ \E l \in Listeners : startRoute(l)

Handle(q) == DispatchEvent(q) \/ dispatchOk(q) \/ dispatchDropped(q) \/ dispatchError(q)

Next ==
    \/ Cancel
    \/ \E l \in Listeners : ManageRoute(l)
    \/ ProcessRouteStatus
    \/ \E q \in Requests : Handle(q) \/ \E l \in Listeners : HandleRoute(q, l)
    \/ ProcessEnds

Spec == Init /\ [][Next]_vars

\* Goroutines go on, and a channel with a partner waiting does not pass over a
\* sender for ever.
Fairness ==
    /\ \A l \in Listeners : SF_vars(ManageRoute(l))
    /\ WF_vars(ProcessRouteStatus)
    /\ \A q \in Requests : SF_vars(Handle(q))
    /\ WF_vars(ProcessEnds)

FairSpec == Spec /\ Fairness
-----------------------------------------------------------------------------
\* The sender of a request is told the truth: after "success" the event is in the
\* bus, unless the source's filter has dropped it, and a request that was refused
\* or filtered left nothing there.
AnsweredTruthfully ==
    \A q \in Requests :
        /\ request[q].does = "ok" => (q \in published <=> q \notin filtered)
        /\ request[q].does = "inactive" \/ q \in filtered => q \notin published

\* A request that was accepted is answered, at the latest by the end of the
\* process, as long as PostActivate has not failed: DispatchChan and SuccessChan
\* lead to no deadlock, also between listeners that share an endpoint or stop.
EventuallyAnswered ==
    \A q \in Requests :
        request[q].does = "send" ~> request[q].does \in Answered \/ postFailures > 0

\* After a cancellation every ManageRoute returns: neither the controller's
\* channels nor StopChan hold one up.
AllRoutesStop == ctxDone ~> \A l \in Listeners : pc[l] = "ended"
=============================================================================
