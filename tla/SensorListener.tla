--------------------------- MODULE SensorListener ---------------------------
(***************************************************************************)
(* The goroutines of one trigger of a sensor on the JetStream event bus    *)
(* and the channels between them: the connection daemon of listenEvents    *)
(* (pkg/sensors/listener.go), and JetstreamTriggerConn.Subscribe with its  *)
(* pullSubscribe and processMsgs goroutines (trigger_conn.go).             *)
(*                                                                         *)
(* Only control is modelled: what the messages carry and what is done with *)
(* them is the subject of module JetStreamTrigger.  All channels are       *)
(* unbuffered, so a send and its receive are one step of two goroutines,   *)
(* and a goroutine with nobody at the other end stays where it is.         *)
(***************************************************************************)
EXTENDS Integers, FiniteSets

CONSTANTS
    Subjects,    \* distinct subjects of the triggers' dependencies
    SubjectSets, \* the sets of subjects that a trigger may have
    Messages,    \* whether Fetch ever returns a message
    MaxDrops,    \* bound: connections that drop
    MaxErrors,   \* bound: Connect/PullSubscribe errors on a healthy server
    MaxResets    \* bound: cron goroutines waiting on resetConditionsCh

ASSUME ListenerAssumption ==
    /\ SubjectSets \subseteq SUBSET Subjects
    /\ Messages \in BOOLEAN
    /\ MaxDrops \in Nat /\ MaxErrors \in Nat /\ MaxResets \in Nat

\* Bounds that are never reached before the context is cancelled: each
\* reconnection follows a drop, each further subscription a drop or an error.
\* One connection more lets a tick win against ctx.Done once.
MaxConns == MaxDrops + 2
Conns == 1 .. MaxConns
Subs  == 1 .. MaxConns + MaxErrors

VARIABLES
    subjects,  \* the subjects of the trigger
    ctxDone,   \* the context of listenEvents is cancelled
    daemon,    \* where the trigger goroutine is
    conn,      \* variable conn of the trigger goroutine, 0 for nil
    made,      \* connections made so far
    up,        \* up[c]: connection c is not closed
    subLock,   \* 1 while a subscribe goroutine exists
    started,   \* subscribe goroutines started so far
    sub,       \* sub[i]: where the i-th subscribe goroutine is
    subConn,   \* subConn[i]: the connection whose Subscribe it called
    todo,      \* todo[i]: subjects still to subscribe to, or to close
    closing,   \* closing[i]: the subject whose pullSubscribe it is closing
    pull,      \* pull[i][s]: where the pullSubscribe goroutine is
    proc,      \* proc[i]: where the processMsgs goroutine is
    resets,    \* cron goroutines blocked on resetConditionsCh
    drops, errors   \* faults so far

vars == <<subjects, ctxDone, daemon, conn, made, up, subLock, started, sub, subConn, todo,
          closing, pull, proc, resets, drops, errors>>
chans == <<todo, closing, pull, proc>>
faults == <<drops, errors, subjects>>

\* Types: no goroutine is in a place its code does not have, no more than one
\* holder of subLock, and no reset taken that cron did not send.
TypeOK ==
    /\ subjects \in SubjectSets
    /\ ctxDone \in BOOLEAN
    /\ daemon \in {"select", "loadLock", "sendClose", "resubscribe", "wait", "exit"}
    /\ conn \in {0} \cup Conns
    /\ made \in Conns
    /\ up \in [Conns -> BOOLEAN]
    /\ subLock \in 0 .. 1
    /\ started \in Subs
    /\ sub \in [Subs -> {"none", "start", "subscribe", "wait", "stopProc",
                         "stopPull", "done"}]
    /\ subConn \in [Subs -> {0} \cup Conns]
    /\ todo \in [Subs -> SUBSET Subjects]
    /\ closing \in [Subs -> SUBSET Subjects]
    /\ pull \in [Subs -> [Subjects ->
                   {"none", "fetch", "fetched", "empty", "send", "exit"}]]
    /\ proc \in [Subs -> {"none", "select", "process", "exit"}]
    /\ resets \in 0 .. MaxResets
    /\ drops \in 0 .. MaxDrops /\ errors \in 0 .. MaxErrors
-----------------------------------------------------------------------------
\* The trigger goroutine has connected (listenEvents retries until it has)
\* and has called subscribeOnce for the first time.
Init ==
    /\ subjects \in SubjectSets
    /\ ctxDone = FALSE
    /\ daemon = "select"
    /\ conn = 1 /\ made = 1
    /\ up = [c \in Conns |-> c = 1]
    /\ subLock = 1 /\ started = 1
    /\ sub = [i \in Subs |-> IF i = 1 THEN "start" ELSE "none"]
    /\ subConn = [i \in Subs |-> 0]
    /\ todo = [i \in Subs |-> {}]
    /\ closing = [i \in Subs |-> {}]
    /\ pull = [i \in Subs |-> [s \in Subjects |-> "none"]]
    /\ proc = [i \in Subs |-> "none"]
    /\ resets = 0 /\ drops = 0 /\ errors = 0
-----------------------------------------------------------------------------
(* Environment *)

Cancel ==
    /\ ~ctxDone /\ ctxDone' = TRUE
    /\ UNCHANGED <<daemon, conn, made, up, subLock, started, sub, subConn,
                   chans, resets, faults>>

\* Bound: a trigger with several subjects has one fault, a drop or an error.
FaultAllowed == Cardinality(subjects) = 1 \/ drops + errors = 0

Drop(c) ==
    /\ up[c] /\ drops < MaxDrops /\ FaultAllowed
    /\ drops' = drops + 1
    /\ up' = [up EXCEPT ![c] = FALSE]
    /\ UNCHANGED <<ctxDone, daemon, conn, made, subLock, started, sub, subConn,
                   chans, resets, errors, subjects>>

CronReset ==
    /\ resets < MaxResets
    /\ resets' = resets + 1
    /\ UNCHANGED <<ctxDone, daemon, conn, made, up, subLock, started, sub,
                   subConn, chans, faults>>

Error ==
    /\ errors < MaxErrors /\ FaultAllowed
    /\ errors' = errors + 1
    /\ UNCHANGED <<drops, subjects>>
-----------------------------------------------------------------------------
(* The daemon of the trigger goroutine *)

IsClosed == conn \notin {c \in Conns : up[c]}

\* Mutant: no look at subLock.
subscribeAlways ==
    /\ started < MaxConns + MaxErrors
    /\ subLock' = 1
    /\ started' = started + 1
    /\ sub' = [sub EXCEPT ![started + 1] = "start"]

\* The compare-and-swap on subLock and the go statement of subscribeFunc.
subscribeOnce ==
    IF subLock = 0
    THEN /\ subLock' = 1
         /\ started' = started + 1
         /\ sub' = [sub EXCEPT ![started + 1] = "start"]
    ELSE UNCHANGED <<subLock, started, sub>>

\* Five seconds between ticks: a subscribe goroutine has been scheduled and
\* has read the variable conn by then.
Tick == daemon = "select" /\ \A i \in Subs : sub[i] # "start"

TickAlive ==
    /\ Tick /\ ~IsClosed
    /\ subscribeOnce
    /\ UNCHANGED <<ctxDone, daemon, conn, made, up, subConn, chans, resets, faults>>

TickReconnect ==
    /\ Tick /\ IsClosed /\ made < MaxConns
    /\ made' = made + 1
    /\ conn' = made + 1
    /\ up' = [up EXCEPT ![made + 1] = TRUE]
    /\ daemon' = "loadLock"
    /\ UNCHANGED <<ctxDone, subLock, started, sub, subConn, chans, resets, faults>>

TickConnectFails ==
    /\ Tick /\ IsClosed
    /\ Error
    /\ conn' = 0
    /\ UNCHANGED <<ctxDone, daemon, made, up, subLock, started, sub, subConn,
                   chans, resets>>

LoadSubLock ==
    /\ daemon = "loadLock"
    /\ daemon' = IF subLock = 1 THEN "sendClose" ELSE "resubscribe"
    /\ UNCHANGED <<ctxDone, conn, made, up, subLock, started, sub, subConn,
                   chans, resets, faults>>

\* closeSubCh <- struct{}{}: no other case, not even ctx.Done.
SendClose(i) ==
    /\ daemon = "sendClose" /\ sub[i] = "wait"
    /\ daemon' = "resubscribe"
    /\ sub' = [sub EXCEPT ![i] = "stopProc"]
    /\ UNCHANGED <<ctxDone, conn, made, up, subLock, started, subConn, chans,
                   resets, faults>>

\* After the sleep of two seconds, or at once when no lock was held.
Resubscribe ==
    /\ daemon = "resubscribe"
    /\ IF IsClosed THEN UNCHANGED <<subLock, started, sub>> ELSE subscribeOnce
    /\ daemon' = "select"
    /\ UNCHANGED <<ctxDone, conn, made, up, subConn, chans, resets, faults>>

\* ctx.Done: wait for the subscribe goroutine (wg1), then return.
DaemonStops ==
    /\ \/ daemon = "select" /\ ctxDone /\ daemon' = "wait"
       \/ /\ daemon = "wait" /\ daemon' = "exit"
          /\ \A i \in Subs : sub[i] \in {"none", "done"}
    /\ UNCHANGED <<ctxDone, conn, made, up, subLock, started, sub, subConn,
                   chans, resets, faults>>
-----------------------------------------------------------------------------
(* The subscribe goroutine: conn.Subscribe *)

SubscribeStart(i) ==
    /\ sub[i] = "start"
    /\ sub' = [sub EXCEPT ![i] = "subscribe"]
    /\ subConn' = [subConn EXCEPT ![i] = conn]
    /\ todo' = [todo EXCEPT ![i] = subjects]
    /\ UNCHANGED <<ctxDone, daemon, conn, made, up, subLock, started, closing,
                   pull, proc, resets, faults>>

PullSubscribe(i, s) ==
    /\ sub[i] = "subscribe" /\ s \in todo[i] /\ up[subConn[i]]
    /\ pull' = [pull EXCEPT ![i][s] = "fetch"]
    /\ todo' = [todo EXCEPT ![i] = @ \ {s}]
    /\ UNCHANGED <<ctxDone, daemon, conn, made, up, subLock, started, sub,
                   subConn, closing, proc, resets, faults>>

\* Mutant: an error of Subscribe leaves subLock taken.
FailsHoldingLock(i) ==
    /\ sub[i] = "subscribe" /\ todo[i] # {}
    /\ IF up[subConn[i]] THEN Error ELSE UNCHANGED faults
    /\ sub' = [sub EXCEPT ![i] = "done"]
    /\ UNCHANGED <<ctxDone, daemon, conn, made, up, subLock, started, subConn,
                   chans, resets>>

\* Subscribe returns the error; pullSubscribe goroutines already started are
\* left behind, and the deferred store releases subLock.
PullSubscribeFails(i) ==
    /\ sub[i] = "subscribe" /\ todo[i] # {}
    /\ IF up[subConn[i]] THEN Error ELSE UNCHANGED faults
    /\ sub' = [sub EXCEPT ![i] = "done"]
    /\ subLock' = 0
    /\ UNCHANGED <<ctxDone, daemon, conn, made, up, started, subConn, chans, resets>>

SubscribeRuns(i) ==
    /\ sub[i] = "subscribe" /\ todo[i] = {}
    /\ proc' = [proc EXCEPT ![i] = "select"]
    /\ sub' = [sub EXCEPT ![i] = "wait"]
    /\ UNCHANGED <<ctxDone, daemon, conn, made, up, subLock, started, subConn,
                   todo, closing, pull, resets, faults>>

\* Mutant: Subscribe does not look at its context.
NeverCancelled(i) == FALSE /\ UNCHANGED vars

SubscribeCancelled(i) ==
    /\ sub[i] = "wait" /\ ctxDone
    /\ sub' = [sub EXCEPT ![i] = "stopProc"]
    /\ UNCHANGED <<ctxDone, daemon, conn, made, up, subLock, started, subConn,
                   chans, resets, faults>>

\* shutdownSubscriptions: first processMsgs, then every pullSubscribe.
StopProcessMsgs(i) ==
    /\ sub[i] = "stopProc" /\ proc[i] = "select"
    /\ proc' = [proc EXCEPT ![i] = "exit"]
    /\ sub' = [sub EXCEPT ![i] = "stopPull"]
    /\ todo' = [todo EXCEPT ![i] = subjects]
    /\ UNCHANGED <<ctxDone, daemon, conn, made, up, subLock, started, subConn,
                   closing, pull, resets, faults>>

\* Go ranges over the map of channels in any order ...
NextPull(i, s) ==
    /\ sub[i] = "stopPull" /\ closing[i] = {} /\ s \in todo[i]
    /\ closing' = [closing EXCEPT ![i] = {s}]
    /\ UNCHANGED <<ctxDone, daemon, conn, made, up, subLock, started, sub,
                   subConn, todo, pull, proc, resets, faults>>

\* ... and blocks on each until its pullSubscribe polls the close channel.
StopPull(i, s) ==
    /\ sub[i] = "stopPull" /\ s \in closing[i]
    /\ pull[i][s] \in {"fetched", "empty"}
    /\ pull' = [pull EXCEPT ![i][s] = "exit"]
    /\ todo' = [todo EXCEPT ![i] = @ \ {s}]
    /\ closing' = [closing EXCEPT ![i] = {}]
    /\ UNCHANGED <<ctxDone, daemon, conn, made, up, subLock, started, sub,
                   subConn, proc, resets, faults>>

\* Mutant: the connection stays open.
ShutdownKeepsConn(i) ==
    /\ sub[i] = "stopPull" /\ todo[i] = {}
    /\ proc[i] = "exit" /\ \A s \in subjects : pull[i][s] = "exit"
    /\ sub' = [sub EXCEPT ![i] = "done"]
    /\ subLock' = 0
    /\ UNCHANGED <<ctxDone, daemon, conn, made, up, started, subConn, chans, resets, faults>>

\* wg.Wait, NATSConn.Close, return, release subLock.
ShutdownDone(i) ==
    /\ sub[i] = "stopPull" /\ todo[i] = {}
    /\ proc[i] = "exit" /\ \A s \in subjects : pull[i][s] = "exit"
    /\ up' = [up EXCEPT ![subConn[i]] = FALSE]
    /\ sub' = [sub EXCEPT ![i] = "done"]
    /\ subLock' = 0
    /\ UNCHANGED <<ctxDone, daemon, conn, made, started, subConn, chans, resets, faults>>
-----------------------------------------------------------------------------
(* pullSubscribe and processMsgs *)

Fetch(i, s) ==
    /\ pull[i][s] = "fetch"
    /\ \/ up[subConn[i]] /\ Messages /\ pull' = [pull EXCEPT ![i][s] = "fetched"]
       \/ pull' = [pull EXCEPT ![i][s] = "empty"]    \* timeout or error
    /\ UNCHANGED <<ctxDone, daemon, conn, made, up, subLock, started, sub,
                   subConn, todo, closing, proc, resets, faults>>

\* Nobody is sending on the close channel: go on to send, or fetch again.
PollClose(i, s) ==
    /\ pull[i][s] \in {"fetched", "empty"} /\ s \notin closing[i]
    /\ pull' = [pull EXCEPT ![i][s] = IF @ = "fetched" THEN "send" ELSE "fetch"]
    /\ UNCHANGED <<ctxDone, daemon, conn, made, up, subLock, started, sub,
                   subConn, todo, closing, proc, resets, faults>>

HandOver(i, s) ==
    /\ pull[i][s] = "send" /\ proc[i] = "select"
    /\ pull' = [pull EXCEPT ![i][s] = "fetch"]
    /\ proc' = [proc EXCEPT ![i] = "process"]
    /\ UNCHANGED <<ctxDone, daemon, conn, made, up, subLock, started, sub,
                   subConn, todo, closing, resets, faults>>

\* processMsg or clearAllDependencies is through.
Processed(i) ==
    /\ proc[i] = "process"
    /\ proc' = [proc EXCEPT ![i] = "select"]
    /\ UNCHANGED <<ctxDone, daemon, conn, made, up, subLock, started, sub,
                   subConn, todo, closing, pull, resets, faults>>

\* Mutant: a reset that no cron goroutine asked for.
ResetUnasked(i) ==
    /\ proc[i] = "select"
    /\ resets' = resets - 1
    /\ proc' = [proc EXCEPT ![i] = "process"]
    /\ UNCHANGED <<ctxDone, daemon, conn, made, up, subLock, started, sub,
                   subConn, todo, closing, pull, faults>>

ResetConditions(i) ==
    /\ proc[i] = "select" /\ resets > 0
    /\ resets' = resets - 1
    /\ proc' = [proc EXCEPT ![i] = "process"]
    /\ UNCHANGED <<ctxDone, daemon, conn, made, up, subLock, started, sub,
                   subConn, todo, closing, pull, faults>>
-----------------------------------------------------------------------------
Daemon == TickAlive \/ TickReconnect \/ TickConnectFails \/ LoadSubLock
            \/ Resubscribe \/ DaemonStops \/ \E i \in Subs : SendClose(i)

SubscribeStep(i) ==
    \/ SubscribeStart(i) \/ PullSubscribeFails(i) \/ SubscribeRuns(i)
    \/ SubscribeCancelled(i) \/ StopProcessMsgs(i) \/ ShutdownDone(i)
    \/ \E s \in subjects : PullSubscribe(i, s) \/ NextPull(i, s) \/ StopPull(i, s)

PullStep(i, s) == Fetch(i, s) \/ PollClose(i, s) \/ HandOver(i, s)

Next ==
    \/ Cancel \/ CronReset \/ \E c \in Conns : Drop(c)
    \/ Daemon
    \/ \E i \in Subs : \/ SubscribeStep(i) \/ Processed(i) \/ ResetConditions(i)
                       \/ \E s \in subjects : PullStep(i, s)

Spec == Init /\ [][Next]_vars

\* Fairness.  Every goroutine that can take a step takes it in the end; a Go
\* select chooses at random among its ready cases, so a case that is ready
\* again and again is chosen (SF).  Only one subscription at a time has a
\* subscribe and a processMsgs goroutine; a failed one may leave its
\* pullSubscribe goroutines behind.
Fairness ==
    /\ WF_vars(Daemon)
    /\ WF_vars(\E i \in Subs : SubscribeStep(i))
    /\ SF_vars(\E i \in Subs : StopProcessMsgs(i))
    /\ WF_vars(\E i \in Subs : Processed(i))
    /\ SF_vars(\E i \in Subs : ResetConditions(i))
    /\ \A i \in Subs, s \in Subjects : WF_vars(PullStep(i, s))

FairSpec == Spec /\ Fairness
-----------------------------------------------------------------------------
(* Properties *)

\* All processing of a trigger's messages happens on one goroutine, also
\* across reconnections: a new subscription starts only when the Subscribe
\* call before it has returned with its processMsgs goroutine gone.
OneProcessor ==
    /\ Cardinality({i \in Subs : proc[i] \in {"select", "process"}}) <= 1
    /\ \A i, j \in Subs :
          i < j /\ sub[j] # "none" => sub[i] = "done" /\ proc[i] \in {"none", "exit"}

\* A Subscribe that shut down left no goroutine behind that could still fetch
\* or hand over a message of its closed connection.
ShutdownLeavesNothing ==
    \A i \in Subs : sub[i] = "done" /\ proc[i] = "exit"
        => ~up[subConn[i]] /\ \A s \in subjects : pull[i][s] = "exit"

\* The two places where the shutdown of a subscription can stop for good: it
\* closes a pullSubscribe that blocks on the message channel which processMsgs
\* has stopped reading; or the daemon sends on closeSubCh after Subscribe has
\* returned on its own.
ShutdownStuck == \E i \in Subs : /\ sub[i] = "stopPull" /\ proc[i] = "exit"
                                 /\ \E s \in closing[i] : pull[i][s] = "send"
DaemonStuck == daemon = "sendClose" /\ \A i \in Subs : sub[i] \in {"none", "done"}
Stuck == ShutdownStuck \/ DaemonStuck

Live == \E i \in Subs : sub[i] = "wait" /\ proc[i] # "exit" /\ up[subConn[i]]

\* Unless it gets stuck in one of these two ways, the trigger ends up with a
\* running subscription on a live connection once connections stop dropping.
LiveUnlessStuck == <>ctxDone \/ <>Stuck \/ <>[]Live

\* Unless it gets stuck, the trigger goroutine returns once it is cancelled, so
\* that listenEvents can return.
StopsUnlessStuck == ctxDone ~> daemon = "exit" \/ Stuck

\* The unbuffered channel between pullSubscribe and processMsgs "should be okay"
\* (comment at trigger_conn.go:128): shutdownSubscriptions comes to its end.
ShutdownReturns == \A i \in Subs : sub[i] = "stopProc" ~> sub[i] = "done"
=============================================================================
