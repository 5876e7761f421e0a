------------------------- MODULE EventSourceAdaptor -------------------------
(***************************************************************************)
(* EventSourceAdaptor.run (pkg/eventsources/eventing.go): the connection   *)
(* to the event bus, the daemon that renews it, the dispatch function that *)
(* the services publish with, and the end of the process.  The service is  *)
(* left open: module CalendarSource adds one.                              *)
(*                                                                         *)
(* dispatch runs on the service's goroutine and the daemon on another;     *)
(* both use the field eventBusConn without a lock.                         *)
(***************************************************************************)
EXTENDS Integers

CONSTANTS
    Faults,        \* what may go wrong
    Budgets        \* how often, one function per instance

\* Attempts of DefaultBackoff.
DefaultSteps == 5

ASSUME AdaptorAssumption == \A b \in Budgets : b \in [Faults -> Nat]

VARIABLES
    alive,     \* the process runs
    ctxDone,   \* its context is cancelled
    conn,      \* e.eventBusConn: "nil", "open" or "closed"
    daemon,    \* the connection daemon runs
    dispatch,  \* where the dispatch function is, or what it returned
    tries,     \* publish attempts that failed
    stored,    \* the event being dispatched is in the bus
    budget, happened

process == <<alive, ctxDone, daemon>>
dispatching == <<dispatch, tries, stored>>
faults == <<budget, happened>>

AdaptorTypeOK ==
    /\ alive \in BOOLEAN /\ ctxDone \in BOOLEAN /\ daemon \in BOOLEAN
    /\ conn \in {"nil", "open", "closed"}
    /\ dispatch \in {"idle", "check", "publish", "ok", "error"}
    /\ tries \in 0 .. DefaultSteps /\ stored \in BOOLEAN
    /\ budget \in [Faults -> Nat] /\ happened \subseteq Faults \cup {"panic"}

AdaptorInit ==
    /\ alive = FALSE /\ ctxDone = FALSE /\ daemon = FALSE /\ conn = "nil"
    /\ dispatch = "idle" /\ tries = 0 /\ stored = FALSE
    /\ budget \in Budgets /\ happened = {}

Fault(k) ==
    /\ k \in Faults /\ budget[k] > 0
    /\ budget' = [budget EXCEPT ![k] = @ - 1]
    /\ happened' = happened \cup {k}

\* The process is gone, for whatever reason.
Die == /\ alive' = FALSE /\ ctxDone' = FALSE /\ daemon' = FALSE /\ conn' = "nil"
       /\ dispatch' = "idle" /\ tries' = 0 /\ stored' = FALSE

\* Kubernetes starts the container again (or the next pod): run connects, with
\* retries, before anything else starts.
Connected ==
    /\ ~alive
    /\ alive' = TRUE /\ conn' = "open" /\ daemon' = TRUE
    /\ UNCHANGED <<ctxDone, dispatching, faults>>

Cancel ==
    /\ alive /\ ~ctxDone /\ Fault("cancel")
    /\ ctxDone' = TRUE
    /\ UNCHANGED <<alive, daemon, conn, dispatching>>

Drop ==
    /\ conn = "open" /\ Fault("drop")
    /\ conn' = "closed"
    /\ UNCHANGED <<process, dispatching>>
-----------------------------------------------------------------------------
(* The connection daemon *)

\* Mutant: a connection that was lost is not renewed.
NoReconnect ==
    /\ alive /\ daemon /\ ~ctxDone /\ conn = "nil"
    /\ conn' = "open"
    /\ UNCHANGED <<process, dispatching, faults>>

Reconnect ==
    /\ alive /\ daemon /\ ~ctxDone /\ conn # "open"
    /\ conn' = "open"
    /\ UNCHANGED <<process, dispatching, faults>>

\* driver.Connect returns nil with its error, and both are assigned.
ReconnectFails ==
    /\ alive /\ daemon /\ ~ctxDone /\ conn # "open"
    /\ Fault("connect")
    /\ conn' = "nil"
    /\ UNCHANGED <<process, dispatching>>

\* Mutant: the daemon does not watch the context.
KeepsRunning ==
    /\ alive /\ daemon /\ ctxDone
    /\ UNCHANGED <<process, conn, dispatching, faults>>

DaemonStops ==
    /\ alive /\ daemon /\ ctxDone
    /\ daemon' = FALSE
    /\ UNCHANGED <<alive, ctxDone, conn, dispatching, faults>>
-----------------------------------------------------------------------------
(* The dispatch function; the service is told by "ok" or "error" *)

\* A new event ID, and a look at the connection.
checkConn ==
    /\ dispatch = "check"
    /\ dispatch' = IF conn = "open" THEN "publish" ELSE "error"
    /\ tries' = 0 /\ stored' = FALSE
    /\ UNCHANGED <<process, conn, faults>>

\* Publish succeeds.  The event ID is the message ID by which the server drops
\* what it has stored already.
publish ==
    /\ dispatch = "publish" /\ tries < DefaultSteps /\ conn = "open"
    /\ dispatch' = "ok" /\ stored' = TRUE
    /\ UNCHANGED <<process, conn, tries, faults>>

\* Publish fails: no connection, or no answer, whether stored or not.
publishFails ==
    /\ dispatch = "publish" /\ tries < DefaultSteps
    /\ \/ conn = "closed" /\ UNCHANGED <<stored, faults>>
       \/ conn = "open" /\ Fault("publish") /\ stored' \in {stored, TRUE}
    /\ tries' = tries + 1
    /\ UNCHANGED <<process, conn, dispatch>>

publishGivesUp ==
    /\ dispatch = "publish" /\ tries = DefaultSteps
    /\ dispatch' = "error"
    /\ UNCHANGED <<process, conn, tries, stored, faults>>

\* Between two attempts the daemon has failed to reconnect, and the method of a
\* nil interface is called: the process panics.
publishPanics ==
    /\ dispatch = "publish" /\ tries < DefaultSteps /\ conn = "nil"
    /\ Die
    /\ happened' = happened \cup {"panic"} /\ UNCHANGED budget

Daemon == Reconnect \/ ReconnectFails \/ DaemonStops
Publishing == checkConn \/ publish \/ publishFails \/ publishGivesUp
=============================================================================
