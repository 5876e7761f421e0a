------------------------ MODULE SensorListenerProofs ------------------------
(***************************************************************************)
(* What module SensorListener promises of the goroutines of a trigger, for *)
(* any subjects and any number of drops, errors and resets.                *)
(***************************************************************************)
EXTENDS SensorListener, FiniteSetTheorems, TLAPS

\* subLock is what keeps the subscribe goroutines apart: the last one started
\* is the only one that may still run, and it runs as long as the lock is held.
Ordered ==
    /\ \A i \in Subs : /\ i > started <=> sub[i] = "none"
                       /\ i < started => sub[i] = "done"
    /\ subLock = 0 <=> sub[started] = "done"

\* A processMsgs goroutine lives inside the Subscribe call that started it.
Nested ==
    \A i \in Subs :
        /\ sub[i] \in {"none", "start", "subscribe"} => proc[i] = "none"
        /\ sub[i] \in {"wait", "stopProc"} => proc[i] \in {"select", "process"}
        /\ sub[i] = "stopPull" => proc[i] = "exit"
        /\ sub[i] = "done" => proc[i] \in {"none", "exit"}

\* Which connection a Subscribe call works on: the variable conn is nil only
\* while nobody is about to read it, and holds the latest connection otherwise.
Connected ==
    /\ conn \in {0, made}
    /\ sub[started] = "start" => conn = made
    /\ \A i \in Subs : sub[i] \notin {"none", "start"} => subConn[i] \in 1 .. made

\* A Subscribe call returns after an error or with its connection closed, and the
\* daemon subscribes again on an open one only: hence no more subscriptions than
\* connections and errors.
Counted ==
    /\ started <= made + errors
    /\ subLock = 0 /\ ~IsClosed => started < made + errors
    /\ /\ sub[started] \notin {"start", "done"} /\ conn # 0
       /\ subConn[started] # conn
       => started < made + errors

Inv == TypeOK /\ Ordered /\ Nested /\ Connected /\ Counted /\ ShutdownLeavesNothing
-----------------------------------------------------------------------------
\* The bounds are naturals.
LEMMA Bounds ==
    /\ MaxDrops \in Nat /\ MaxErrors \in Nat /\ MaxResets \in Nat
    /\ MaxConns \in Nat /\ MaxConns >= 2 /\ MaxConns + MaxErrors \in Nat
  BY ListenerAssumption DEF ListenerAssumption, MaxConns

\* The first subscription is the only one, on the first connection.
LEMMA InvInit == Init => Inv
  <1> SUFFICES ASSUME Init PROVE Inv
    OBVIOUS
  <1> USE Bounds, ListenerAssumption DEF ListenerAssumption, Init, Subs, Conns
  <1>1. TypeOK
    <2>1. ctxDone \in BOOLEAN /\ up \in [Conns -> BOOLEAN]
      OBVIOUS
    <2>2. sub \in [Subs -> {"none", "start", "subscribe", "wait", "stopProc",
                           "stopPull", "done"}]
      OBVIOUS
    <2>3. pull \in [Subs -> [Subjects ->
                   {"none", "fetch", "fetched", "empty", "send", "exit"}]]
      OBVIOUS
    <2>4. todo \in [Subs -> SUBSET Subjects] /\ closing \in [Subs -> SUBSET Subjects]
      OBVIOUS
    <2> QED
      BY <2>1, <2>2, <2>3, <2>4 DEF TypeOK
  <1>2. Ordered /\ Nested
    BY DEF Ordered, Nested
  <1>3. Connected /\ Counted
    BY DEF Connected, Counted
  <1>4. ShutdownLeavesNothing
    BY DEF ShutdownLeavesNothing
  <1> QED
    BY <1>1, <1>2, <1>3, <1>4 DEF Inv

\* A Subscribe call that has not returned is the last one, and holds subLock.
LEMMA Running ==
    ASSUME Inv, NEW i \in Subs, sub[i] \notin {"none", "done"}
    PROVE  i = started /\ subLock = 1
  BY DEF Inv, Ordered, TypeOK, Subs

\* The environment touches no goroutine.
LEMMA CancelStep ==
    ASSUME Inv, Cancel \/ CronReset
    PROVE  Inv'
  <1> USE Bounds DEF Inv, Subs, chans, faults
  <1>1. TypeOK'
    <2>1. CASE Cancel
      <3>1. ctxDone' \in BOOLEAN
        BY <2>1 DEF Cancel
      <3> QED
        BY <2>1, <3>1 DEF Cancel, TypeOK
    <2>2. CASE CronReset
      BY <2>2 DEF CronReset, TypeOK
    <2> QED
      BY <2>1, <2>2
  <1>2. Ordered'
    BY DEF Cancel, CronReset, Ordered, TypeOK
  <1>3. Nested'
    BY DEF Cancel, CronReset, Nested, TypeOK
  <1>4. Connected'
    BY DEF Cancel, CronReset, Connected, TypeOK
  <1>5. Counted'
    BY DEF Cancel, CronReset, Counted, TypeOK, IsClosed, Conns
  <1>6. ShutdownLeavesNothing'
    BY DEF Cancel, CronReset, ShutdownLeavesNothing, Ordered, Connected, Nested, TypeOK
  <1> QED
    BY <1>1, <1>2, <1>3, <1>4, <1>5, <1>6

\* A connection that drops stays closed.
LEMMA DropStep ==
    ASSUME Inv, NEW c \in Conns, Drop(c)
    PROVE  Inv'
  <1> USE Bounds DEF Inv, Subs, chans, faults
  <1>1. TypeOK'
    BY DEF Drop, TypeOK
  <1>2. Ordered'
    BY DEF Drop, Ordered, TypeOK
  <1>3. Nested'
    BY DEF Drop, Nested, TypeOK
  <1>4. Connected'
    BY DEF Drop, Connected, TypeOK, Conns
  <1>5. Counted'
    BY DEF Drop, Counted, TypeOK, IsClosed, Conns
  <1>6. ShutdownLeavesNothing'
    BY DEF Drop, ShutdownLeavesNothing, Ordered, Connected, Nested, TypeOK
  <1> QED
    BY <1>1, <1>2, <1>3, <1>4, <1>5, <1>6

\* The daemon starts a subscription only when the last one has returned.
LEMMA SubscribeOnceStep ==
    ASSUME Inv, TickAlive \/ Resubscribe
    PROVE  Inv'
  <1> USE Bounds DEF Inv, Subs, chans, faults
  <1>1. /\ UNCHANGED <<ctxDone, conn, made, up, subConn, chans, resets, faults, subjects>>
        /\ daemon' \in {daemon, "select"}
    BY DEF TickAlive, Resubscribe
  <1>2. CASE UNCHANGED <<subLock, started, sub>>
    <2>1. TypeOK'
      BY <1>1, <1>2 DEF TypeOK
    <2>2. Ordered' /\ Nested'
      BY <1>1, <1>2 DEF Ordered, Nested
    <2>3. Connected'
      BY <1>1, <1>2 DEF Connected
    <2>4. Counted'
      BY <1>1, <1>2 DEF Counted, IsClosed
    <2>5. ShutdownLeavesNothing'
      BY <1>1, <1>2 DEF ShutdownLeavesNothing
    <2> QED
      BY <2>1, <2>2, <2>3, <2>4, <2>5
  <1>3. CASE /\ subLock = 0 /\ ~IsClosed
             /\ subLock' = 1 /\ started' = started + 1
             /\ sub' = [sub EXCEPT ![started + 1] = "start"]
    <2>1. started + 1 \in Subs /\ started \in Subs
      BY <1>3 DEF Counted, TypeOK, Conns
    <2>2. sub[started] = "done" /\ sub[started + 1] = "none"
      BY <1>3, <2>1 DEF Ordered, TypeOK
    <2>3. /\ sub'[started + 1] = "start"
          /\ \A i \in Subs : i # started + 1 => sub'[i] = sub[i]
      BY <1>3, <2>1 DEF TypeOK
    <2>4. sub' \in [Subs -> {"none", "start", "subscribe", "wait", "stopProc",
                             "stopPull", "done"}]
      BY <1>3, <2>1 DEF TypeOK
    <2>5. TypeOK'
      BY <1>1, <1>3, <2>1, <2>4 DEF TypeOK
    <2>6. Ordered'
      <3>1. started \in Int /\ subLock' # 0 /\ sub'[started'] = "start"
        BY <1>3, <2>3 DEF TypeOK
      <3>2. ASSUME NEW i \in Subs
            PROVE  (i > started' <=> sub'[i] = "none") /\ (i < started' => sub'[i] = "done")
        <4>1. CASE i = started + 1
          BY <1>3, <2>3, <3>1, <4>1
        <4>2. CASE i # started + 1
          BY <1>3, <2>2, <2>3, <3>1, <4>2 DEF Ordered
        <4> QED
          BY <4>1, <4>2
      <3> QED
        BY <3>1, <3>2 DEF Ordered
    <2>7. Nested'
      BY <1>1, <2>2, <2>3 DEF Nested
    <2>8. Connected'
      <3>1. conn = made
        BY <1>3, <2>2 DEF Connected, IsClosed, Conns
      <3> QED
        BY <1>1, <1>3, <2>3, <3>1 DEF Connected
    <2>9. Counted'
      <3>1. started \in Int /\ made \in Int /\ errors \in Int
        BY DEF TypeOK, Conns
      <3>2. started < made + errors
        BY <1>3 DEF Counted
      <3> QED
        BY <1>1, <1>3, <2>3, <3>1, <3>2 DEF Counted
    <2>10. ShutdownLeavesNothing'
      BY <1>1, <2>3 DEF ShutdownLeavesNothing
    <2> QED
      BY <2>5, <2>6, <2>7, <2>8, <2>9, <2>10
  <1> QED
    BY <1>2, <1>3 DEF TickAlive, Resubscribe, subscribeOnce

\* A new connection leaves room for one more subscription.
LEMMA ReconnectStep ==
    ASSUME Inv, TickReconnect
    PROVE  Inv'
  <1> USE Bounds DEF Inv, Subs, chans, faults
  <1>1. TypeOK'
    BY DEF TickReconnect, Tick, TypeOK, Conns
  <1>2. Ordered'
    BY DEF TickReconnect, Tick, Ordered, TypeOK
  <1>3. Nested'
    BY DEF TickReconnect, Tick, Nested, TypeOK
  <1>4. Connected'
    BY DEF TickReconnect, Tick, Connected, TypeOK, Conns
  <1>5. Counted'
    BY DEF TickReconnect, Tick, Counted, TypeOK, Connected, IsClosed, Conns
  <1>6. ShutdownLeavesNothing'
    <2> SUFFICES ASSUME NEW i \in Subs, sub'[i] = "done", proc'[i] = "exit"
                 PROVE  /\ ~up'[subConn'[i]]
                        /\ \A s \in subjects' : pull'[i][s] = "exit"
      BY DEF ShutdownLeavesNothing
    <2>1. subConn[i] \in 1 .. made /\ ~up[subConn[i]]
      BY DEF TickReconnect, Connected, ShutdownLeavesNothing
    <2>2. subConn[i] # made + 1 /\ subConn[i] \in Conns
      BY <2>1 DEF TypeOK, Conns
    <2> QED
      BY <2>1, <2>2 DEF TickReconnect, ShutdownLeavesNothing, TypeOK
  <1> QED
    BY <1>1, <1>2, <1>3, <1>4, <1>5, <1>6

\* A failed connection is an error, after which conn is nil.
LEMMA ConnectFailsStep ==
    ASSUME Inv, TickConnectFails
    PROVE  Inv'
  <1> USE Bounds DEF Inv, Subs, chans, faults
  <1>1. TypeOK'
    BY DEF TickConnectFails, Tick, Error, TypeOK
  <1>2. Ordered'
    BY DEF TickConnectFails, Tick, Error, Ordered, TypeOK
  <1>3. Nested'
    BY DEF TickConnectFails, Tick, Error, Nested, TypeOK
  <1>4. Connected'
    BY DEF TickConnectFails, Tick, Error, Connected, TypeOK, Conns
  <1>5. Counted'
    BY DEF TickConnectFails, Tick, Error, Counted, TypeOK, IsClosed, Conns
  <1>6. ShutdownLeavesNothing'
    BY DEF TickConnectFails, Tick, Error, ShutdownLeavesNothing, Ordered, Connected, Nested, TypeOK
  <1> QED
    BY <1>1, <1>2, <1>3, <1>4, <1>5, <1>6

\* The daemon looks at subLock, or stops.
LEMMA DaemonStep ==
    ASSUME Inv, LoadSubLock \/ DaemonStops
    PROVE  Inv'
  <1> USE Bounds DEF Inv, Subs, chans, faults
  <1>1. TypeOK'
    BY DEF LoadSubLock, DaemonStops, TypeOK
  <1>2. Ordered'
    BY DEF LoadSubLock, DaemonStops, Ordered, TypeOK
  <1>3. Nested'
    BY DEF LoadSubLock, DaemonStops, Nested, TypeOK
  <1>4. Connected'
    BY DEF LoadSubLock, DaemonStops, Connected, TypeOK
  <1>5. Counted'
    BY DEF LoadSubLock, DaemonStops, Counted, TypeOK, IsClosed, Conns
  <1>6. ShutdownLeavesNothing'
    BY DEF LoadSubLock, DaemonStops, ShutdownLeavesNothing, Ordered, Connected, Nested, TypeOK
  <1> QED
    BY <1>1, <1>2, <1>3, <1>4, <1>5, <1>6

\* Subscribe is told to return: by closeSubCh or by its context.
LEMMA CloseStep ==
    ASSUME Inv, NEW i \in Subs, SendClose(i) \/ SubscribeCancelled(i)
    PROVE  Inv'
  <1> USE Bounds DEF Inv, Subs, chans, faults
  <1>0. i = started /\ subLock = 1
    BY Running DEF SendClose, SubscribeCancelled
  <1>1. TypeOK'
    BY <1>0 DEF SendClose, SubscribeCancelled, TypeOK
  <1>2. Ordered'
    BY <1>0 DEF SendClose, SubscribeCancelled, Ordered, TypeOK
  <1>3. Nested'
    BY <1>0 DEF SendClose, SubscribeCancelled, Nested, TypeOK
  <1>4. Connected'
    BY <1>0 DEF SendClose, SubscribeCancelled, Connected, TypeOK
  <1>5. Counted'
    BY <1>0 DEF SendClose, SubscribeCancelled, Counted, TypeOK, IsClosed, Conns
  <1>6. ShutdownLeavesNothing'
    BY <1>0 DEF SendClose, SubscribeCancelled, ShutdownLeavesNothing, Ordered, Connected, Nested, TypeOK
  <1> QED
    BY <1>1, <1>2, <1>3, <1>4, <1>5, <1>6

\* Subscribe works on the latest connection.
LEMMA SubscribeStartStep ==
    ASSUME Inv, NEW i \in Subs, SubscribeStart(i)
    PROVE  Inv'
  <1> USE Bounds DEF Inv, Subs, chans, faults
  <1>0. i = started /\ subLock = 1
    BY Running DEF SubscribeStart
  <1>1. TypeOK'
    BY <1>0, ListenerAssumption DEF SubscribeStart, TypeOK, ListenerAssumption
  <1>2. Ordered'
    BY <1>0 DEF SubscribeStart, Ordered, TypeOK
  <1>3. Nested'
    BY <1>0 DEF SubscribeStart, Nested, TypeOK
  <1>4. Connected'
    BY <1>0 DEF SubscribeStart, Connected, TypeOK, Conns
  <1>5. Counted'
    BY <1>0 DEF SubscribeStart, Counted, TypeOK, IsClosed, Conns
  <1>6. ShutdownLeavesNothing'
    BY <1>0 DEF SubscribeStart, ShutdownLeavesNothing, Ordered, Connected, Nested, TypeOK
  <1> QED
    BY <1>1, <1>2, <1>3, <1>4, <1>5, <1>6

\* A pullSubscribe goroutine starts while Subscribe is being set up.
LEMMA PullSubscribeStep ==
    ASSUME Inv, NEW i \in Subs, NEW s \in subjects, PullSubscribe(i, s)
    PROVE  Inv'
  <1> USE Bounds DEF Inv, Subs, chans, faults
  <1>0. i = started /\ subLock = 1
    BY Running DEF PullSubscribe
  <1>1. TypeOK'
    BY <1>0, ListenerAssumption DEF PullSubscribe, TypeOK, ListenerAssumption
  <1>2. Ordered'
    BY <1>0 DEF PullSubscribe, Ordered, TypeOK
  <1>3. Nested'
    BY <1>0 DEF PullSubscribe, Nested, TypeOK
  <1>4. Connected'
    BY <1>0 DEF PullSubscribe, Connected, TypeOK
  <1>5. Counted'
    BY <1>0 DEF PullSubscribe, Counted, TypeOK, IsClosed, Conns
  <1>6. ShutdownLeavesNothing'
    BY <1>0 DEF PullSubscribe, ShutdownLeavesNothing, Ordered, Connected, Nested, TypeOK
  <1> QED
    BY <1>1, <1>2, <1>3, <1>4, <1>5, <1>6

\* Subscribe returns an error, or finds its connection closed.
LEMMA PullSubscribeFailsStep ==
    ASSUME Inv, NEW i \in Subs, PullSubscribeFails(i)
    PROVE  Inv'
  <1> USE Bounds DEF Inv, Subs, chans, faults
  <1>0. i = started /\ subLock = 1
    BY Running DEF PullSubscribeFails
  <1>1. TypeOK'
    BY <1>0 DEF PullSubscribeFails, Error, TypeOK
  <1>2. Ordered'
    BY <1>0 DEF PullSubscribeFails, Error, Ordered, TypeOK
  <1>3. Nested'
    BY <1>0 DEF PullSubscribeFails, Error, Nested, TypeOK
  <1>4. Connected'
    BY <1>0 DEF PullSubscribeFails, Error, Connected, TypeOK
  <1>5. Counted'
    BY <1>0 DEF PullSubscribeFails, Error, Counted, TypeOK, Ordered, Connected, IsClosed, Conns
  <1>6. ShutdownLeavesNothing'
    BY <1>0 DEF PullSubscribeFails, Error, ShutdownLeavesNothing, Ordered, Connected, Nested, TypeOK
  <1> QED
    BY <1>1, <1>2, <1>3, <1>4, <1>5, <1>6

\* The processMsgs goroutine starts.
LEMMA SubscribeRunsStep ==
    ASSUME Inv, NEW i \in Subs, SubscribeRuns(i)
    PROVE  Inv'
  <1> USE Bounds DEF Inv, Subs, chans, faults
  <1>0. i = started /\ subLock = 1
    BY Running DEF SubscribeRuns
  <1>1. TypeOK'
    BY <1>0 DEF SubscribeRuns, TypeOK
  <1>2. Ordered'
    BY <1>0 DEF SubscribeRuns, Ordered, TypeOK
  <1>3. Nested'
    BY <1>0 DEF SubscribeRuns, Nested, TypeOK
  <1>4. Connected'
    BY <1>0 DEF SubscribeRuns, Connected, TypeOK
  <1>5. Counted'
    BY <1>0 DEF SubscribeRuns, Counted, TypeOK, IsClosed, Conns
  <1>6. ShutdownLeavesNothing'
    BY <1>0 DEF SubscribeRuns, ShutdownLeavesNothing, Ordered, Connected, Nested, TypeOK
  <1> QED
    BY <1>1, <1>2, <1>3, <1>4, <1>5, <1>6

\* The processMsgs goroutine ends.
LEMMA StopProcessMsgsStep ==
    ASSUME Inv, NEW i \in Subs, StopProcessMsgs(i)
    PROVE  Inv'
  <1> USE Bounds DEF Inv, Subs, chans, faults
  <1>0. i = started /\ subLock = 1
    BY Running DEF StopProcessMsgs
  <1>1. TypeOK'
    BY <1>0, ListenerAssumption DEF StopProcessMsgs, TypeOK, ListenerAssumption
  <1>2. Ordered'
    BY <1>0 DEF StopProcessMsgs, Ordered, TypeOK
  <1>3. Nested'
    BY <1>0 DEF StopProcessMsgs, Nested, TypeOK
  <1>4. Connected'
    BY <1>0 DEF StopProcessMsgs, Connected, TypeOK
  <1>5. Counted'
    BY <1>0 DEF StopProcessMsgs, Counted, TypeOK, IsClosed, Conns
  <1>6. ShutdownLeavesNothing'
    BY <1>0 DEF StopProcessMsgs, ShutdownLeavesNothing, Ordered, Connected, Nested, TypeOK
  <1> QED
    BY <1>1, <1>2, <1>3, <1>4, <1>5, <1>6

\* The pullSubscribe goroutines end one by one.
LEMMA StopPullStep ==
    ASSUME Inv, NEW i \in Subs, NEW s \in subjects, NextPull(i, s) \/ StopPull(i, s)
    PROVE  Inv'
  <1> USE Bounds DEF Inv, Subs, chans, faults
  <1>0. i = started /\ subLock = 1
    BY Running DEF NextPull, StopPull
  <1>1. TypeOK'
    <2>1. CASE NextPull(i, s)
      BY <2>1, <1>0, ListenerAssumption DEF NextPull, TypeOK, ListenerAssumption
    <2>2. CASE StopPull(i, s)
      BY <2>2, <1>0, ListenerAssumption DEF StopPull, TypeOK, ListenerAssumption
    <2> QED
      BY <2>1, <2>2
  <1>2. Ordered'
    BY <1>0 DEF NextPull, StopPull, Ordered, TypeOK
  <1>3. Nested'
    BY <1>0 DEF NextPull, StopPull, Nested, TypeOK
  <1>4. Connected'
    BY <1>0 DEF NextPull, StopPull, Connected, TypeOK
  <1>5. Counted'
    BY <1>0 DEF NextPull, StopPull, Counted, TypeOK, IsClosed, Conns
  <1>6. ShutdownLeavesNothing'
    BY <1>0 DEF NextPull, StopPull, ShutdownLeavesNothing, Ordered, Connected, Nested, TypeOK
  <1> QED
    BY <1>1, <1>2, <1>3, <1>4, <1>5, <1>6

\* Subscribe returns with its goroutines gone and its connection closed.
LEMMA ShutdownDoneStep ==
    ASSUME Inv, NEW i \in Subs, ShutdownDone(i)
    PROVE  Inv'
  <1> USE Bounds DEF Inv, Subs, chans, faults
  <1>0. i = started /\ subLock = 1
    BY Running DEF ShutdownDone
  <1>1. TypeOK'
    <2>1. up' \in [Conns -> BOOLEAN]
      BY DEF ShutdownDone, TypeOK
    <2> QED
      BY <2>1, <1>0 DEF ShutdownDone, TypeOK
  <1>2. Ordered'
    BY <1>0 DEF ShutdownDone, Ordered, TypeOK
  <1>3. Nested'
    BY <1>0 DEF ShutdownDone, Nested, TypeOK
  <1>4. Connected'
    BY <1>0 DEF ShutdownDone, Connected, TypeOK
  <1>5. Counted'
    BY <1>0 DEF ShutdownDone, Counted, TypeOK, Ordered, Connected, IsClosed, Conns
  <1>6. ShutdownLeavesNothing'
    <2>0. sub[i] = "stopPull" /\ made \in Nat /\ made <= MaxConns
      BY DEF ShutdownDone, Conns, TypeOK
    <2>1. /\ subConn[i] \in Conns /\ up' = [up EXCEPT ![subConn[i]] = FALSE]
          /\ UNCHANGED <<subjects, subConn, pull, proc>>
          /\ \A s \in subjects : pull[i][s] = "exit"
      <3>1. subConn[i] \in 1 .. made
        BY <2>0 DEF Connected
      <3>2. subConn[i] \in Conns
        BY <2>0, <3>1 DEF Conns
      <3> QED
        BY <3>2 DEF ShutdownDone
    <2>2. ~up'[subConn[i]] /\ \A c \in Conns : up'[c] => up[c]
      BY <2>1 DEF TypeOK
    <2>3. ASSUME NEW j \in Subs, sub'[j] = "done", proc[j] = "exit"
          PROVE  ~up'[subConn[j]] /\ \A s \in subjects : pull[j][s] = "exit"
      <3>1. CASE j = i
        BY <2>1, <2>2, <3>1
      <3>2. CASE j # i
        <4>1. sub[j] = "done"
          BY <2>3, <3>2 DEF ShutdownDone, TypeOK
        <4>2. subConn[j] \in Conns
          BY <4>1 DEF Connected, TypeOK, Conns
        <4> QED
          BY <2>2, <2>3, <4>1, <4>2 DEF ShutdownLeavesNothing
      <3> QED
        BY <3>1, <3>2
    <2> QED
      BY <2>1, <2>3 DEF ShutdownLeavesNothing
  <1> QED
    BY <1>1, <1>2, <1>3, <1>4, <1>5, <1>6

\* A pullSubscribe goroutine fetches, polls or hands over; one that has ended
\* does nothing any more.
LEMMA PullStepStep ==
    ASSUME Inv, NEW i \in Subs, NEW s \in subjects, PullStep(i, s)
    PROVE  Inv'
  <1> USE Bounds DEF Inv, Subs, chans, faults
  <1>1. TypeOK'
    <2>1. CASE Fetch(i, s)
      <3>1. s \in Subjects
        BY ListenerAssumption DEF ListenerAssumption, TypeOK
      <3>2. \/ pull' = [pull EXCEPT ![i][s] = "fetched"]
            \/ pull' = [pull EXCEPT ![i][s] = "empty"]
        BY <2>1 DEF Fetch
      <3>3. pull' \in [Subs -> [Subjects ->
                   {"none", "fetch", "fetched", "empty", "send", "exit"}]]
        <4>1. \A v \in {"fetched", "empty"} :
                 [pull EXCEPT ![i][s] = v] \in [Subs -> [Subjects ->
                   {"none", "fetch", "fetched", "empty", "send", "exit"}]]
          BY <3>1 DEF TypeOK
        <4> QED
          BY <3>2, <4>1
      <3> QED
        BY <2>1, <3>3 DEF TypeOK, Fetch
    <2>2. CASE PollClose(i, s)
      BY <2>2, ListenerAssumption DEF PollClose, TypeOK, ListenerAssumption
    <2>3. CASE HandOver(i, s)
      BY <2>3, ListenerAssumption DEF HandOver, TypeOK, ListenerAssumption
    <2> QED
      BY <2>1, <2>2, <2>3 DEF PullStep
  <1>2. Ordered'
    BY DEF PullStep, Fetch, PollClose, HandOver, Ordered, TypeOK
  <1>3. Nested'
    BY DEF PullStep, Fetch, PollClose, HandOver, Nested, TypeOK
  <1>4. Connected'
    BY DEF PullStep, Fetch, PollClose, HandOver, Connected, TypeOK
  <1>5. Counted'
    BY DEF PullStep, Fetch, PollClose, HandOver, Counted, TypeOK, IsClosed, Conns
  <1>6. ShutdownLeavesNothing'
    BY DEF PullStep, Fetch, PollClose, HandOver, ShutdownLeavesNothing, Ordered, Connected, Nested, TypeOK
  <1> QED
    BY <1>1, <1>2, <1>3, <1>4, <1>5, <1>6

\* processMsgs stays inside its Subscribe call.
LEMMA ProcessStep ==
    ASSUME Inv, NEW i \in Subs, Processed(i) \/ ResetConditions(i)
    PROVE  Inv'
  <1> USE Bounds DEF Inv, Subs, chans, faults
  <1>1. TypeOK'
    <2>1. CASE Processed(i)
      BY <2>1 DEF Processed, TypeOK
    <2>2. CASE ResetConditions(i)
      BY <2>2 DEF ResetConditions, TypeOK
    <2> QED
      BY <2>1, <2>2
  <1>2. Ordered'
    BY DEF Processed, ResetConditions, Ordered, TypeOK
  <1>3. Nested'
    BY DEF Processed, ResetConditions, Nested, TypeOK
  <1>4. Connected'
    BY DEF Processed, ResetConditions, Connected, TypeOK
  <1>5. Counted'
    BY DEF Processed, ResetConditions, Counted, TypeOK, IsClosed, Conns
  <1>6. ShutdownLeavesNothing'
    BY DEF Processed, ResetConditions, ShutdownLeavesNothing, Ordered, Connected, Nested, TypeOK
  <1> QED
    BY <1>1, <1>2, <1>3, <1>4, <1>5, <1>6

\* Every step keeps the invariant.
LEMMA InvNext == Inv /\ [Next]_vars => Inv'
  <1> SUFFICES ASSUME Inv, [Next]_vars PROVE Inv'
    OBVIOUS
  <1>1. CASE UNCHANGED vars
    BY <1>1 DEF vars, Inv, TypeOK, Ordered, Nested, Connected, Counted, IsClosed,
                ShutdownLeavesNothing
  <1>2. CASE Daemon
    BY <1>2, SubscribeOnceStep, ReconnectStep, ConnectFailsStep, DaemonStep, CloseStep
       DEF Daemon
  <1>3. ASSUME NEW i \in Subs, SubscribeStep(i) PROVE Inv'
    BY <1>3, SubscribeStartStep, PullSubscribeStep, PullSubscribeFailsStep,
       SubscribeRunsStep, CloseStep, StopProcessMsgsStep, StopPullStep, ShutdownDoneStep
       DEF SubscribeStep
  <1> QED
    BY <1>1, <1>2, <1>3, CancelStep, DropStep, PullStepStep, ProcessStep DEF Next

\* The invariant holds in every reachable state.
LEMMA Invariant == Spec => []Inv
  BY InvInit, InvNext, PTL DEF Spec

\* Types: every goroutine is where its code has a place, subLock has at most one
\* holder, and there are never more subscriptions than connections and errors.
THEOREM TypeCorrect == Spec => []TypeOK
  <1>1. Inv => TypeOK
    BY DEF Inv
  <1> QED
    BY <1>1, Invariant, PTL

\* Two processMsgs goroutines of one trigger never run at the same time, whatever
\* connections drop, calls fail and resets come in: the compare-and-swap on subLock
\* in subscribeFunc and the order of shutdownSubscriptions are enough.
THEOREM OneProcessorAlways == Spec => []OneProcessor
  <1>1. ASSUME Inv PROVE OneProcessor
    <2>1. {i \in Subs : proc[i] \in {"select", "process"}} \subseteq {started}
      BY <1>1 DEF Inv, Ordered, Nested, TypeOK, Subs
    <2>2. Cardinality({i \in Subs : proc[i] \in {"select", "process"}}) <= 1
      <3> DEFINE P == {i \in Subs : proc[i] \in {"select", "process"}}
      <3>1. P = {} \/ P = {started}
        BY <2>1
      <3>2. Cardinality({}) = 0 /\ Cardinality({started}) = 1
        BY FS_EmptySet, FS_Singleton
      <3> QED
        BY <3>1, <3>2
    <2>3. \A i, j \in Subs :
             i < j /\ sub[j] # "none" => sub[i] = "done" /\ proc[i] \in {"none", "exit"}
      BY <1>1 DEF Inv, Ordered, Nested, TypeOK, Subs
    <2> QED
      BY <2>2, <2>3 DEF OneProcessor
  <1> QED
    BY <1>1, Invariant, PTL

\* A Subscribe call that shut down left none of its goroutines behind, and its
\* connection never comes back.
THEOREM ShutdownClean == Spec => []ShutdownLeavesNothing
  <1>1. Inv => ShutdownLeavesNothing
    BY DEF Inv
  <1> QED
    BY <1>1, Invariant, PTL
=============================================================================
